------------------------------ MODULE SnakeTask ------------------------------
(***************************************************************************)
(* The snake program of src/scheduler/snake_task.c as functions of its     *)
(* context c: g_snake_ctx together with tick_pending, state_restored and   *)
(* restore_needs_stdin_rebind.  The ring body[] with head_idx and length   *)
(* is the sequence of its cells from tail to head; rendering is left out.  *)
(* The food search starts at a hash of the game state, here at any cell of *)
(* FoodStarts.                                                             *)
(* A program that is not active is kept at its reset value.                *)
(***************************************************************************)
EXTENDS Naturals, Sequences

CONSTANTS BoardW, BoardH,   \* SNAKE_BOARD_W and SNAKE_BOARD_H: 20 and 12
          FoodStarts        \* bound: the cells at which a food search starts

ASSUME BoardAssumption == BoardW \in Nat /\ BoardW >= 4 /\ BoardH \in Nat \ {0}
                          /\ FoodStarts \subseteq 0 .. BoardW * BoardH - 1

MaxCells == BoardW * BoardH

\* 97, the stride of the food search, and the number of cells have no common
\* factor: from every start the search comes to every cell
ASSUME StrideAssumption ==
  \A start, i \in 0 .. MaxCells - 1 :
    \E step \in 0 .. MaxCells - 1 : (start + step * 97) % MaxCells = i

Board == (0 .. BoardW - 1) \X (0 .. BoardH - 1)
Dirs == {"UP", "RIGHT", "DOWN", "LEFT"}

BodyCells(c) == {c.body[i] : i \in 1 .. Len(c.body)}

\* snake_task_reset_state
snake_reset(c) ==
  [active |-> FALSE, mode |-> "TITLE", dir |-> "RIGHT", pending_dir |-> "RIGHT",
   body |-> <<>>, food |-> <<0, 0>>, reason |-> "NONE", armed |-> FALSE,
   pending |-> FALSE, restored |-> c.restored, rebind |-> FALSE]

SnakeInit == snake_reset([restored |-> FALSE])

\* snake_state_valid, with the tests that the types of the fields leave
snake_state_valid(c) ==
  /\ c.mode \in {"TITLE", "PLAYING", "PAUSED", "GAME_OVER"}
  /\ c.dir \in Dirs /\ c.pending_dir \in Dirs
  /\ Len(c.body) <= MaxCells
  /\ c.food \in Board \/ (c.mode = "GAME_OVER" /\ c.reason = "WIN")
  /\ c.active /\ c.mode # "TITLE" => Len(c.body) # 0
  /\ \A i \in 1 .. Len(c.body) :
       /\ c.body[i] \in Board
       /\ \A j \in i + 1 .. Len(c.body) : c.body[i] # c.body[j]

\* snake_task_register, but for sched_register_task
snake_register(c) ==
  LET r == IF c.restored THEN c ELSE snake_reset(c)
  IN  [r EXCEPT !.restored = FALSE, !.rebind = @ \/ r.active]

snake_dir_is_opposite(a, b) ==
  {a, b} \in {{"UP", "DOWN"}, {"LEFT", "RIGHT"}}

\* The free cell that the search of snake_spawn_food finds from its start.
\* It looks at every 97th cell.
snake_probe(c, start) ==
  LET cell(step) == LET i == (start + step * 97) % MaxCells
                    IN  <<i % BoardW, i \div BoardW>>
      free == {step \in 0 .. MaxCells - 1 : cell(step) \notin BodyCells(c)}
  IN  cell(CHOOSE step \in free : \A other \in free : step <= other)

\* snake_spawn_food: the contexts it may leave
snake_spawn_food(c) ==
  IF \A cell \in Board : cell \in BodyCells(c)
  THEN {[c EXCEPT !.mode = "GAME_OVER", !.reason = "WIN"]}
  ELSE {[c EXCEPT !.food = snake_probe(c, start)] : start \in FoodStarts}

\* snake_start_game
snake_start_game(c) ==
  LET x == BoardW \div 2
      y == BoardH \div 2
  IN  snake_spawn_food(
        [c EXCEPT !.mode = "PLAYING", !.dir = "RIGHT", !.pending_dir = "RIGHT",
                  !.body = <<<<x - 2, y>>, <<x - 1, y>>, <<x, y>>>>,
                  !.reason = "NONE", !.armed = TRUE, !.pending = FALSE])

\* snake_game_over
snake_game_over(c, reason) ==
  [c EXCEPT !.mode = "GAME_OVER", !.reason = reason, !.armed = FALSE, !.pending = FALSE]

\* The wall tests of snake_step, before the head moves
snake_hits_wall(cell, dir) ==
  CASE dir = "UP"    -> cell[2] = 0
    [] dir = "DOWN"  -> cell[2] + 1 >= BoardH
    [] dir = "LEFT"  -> cell[1] = 0
    [] dir = "RIGHT" -> cell[1] + 1 >= BoardW

snake_next_cell(cell, dir) ==
  CASE dir = "UP"    -> <<cell[1], cell[2] - 1>>
    [] dir = "DOWN"  -> <<cell[1], cell[2] + 1>>
    [] dir = "LEFT"  -> <<cell[1] - 1, cell[2]>>
    [] dir = "RIGHT" -> <<cell[1] + 1, cell[2]>>

\* snake_cell_occupied
snake_cell_occupied(c, cell, ignore_tail) ==
  \E i \in (IF ignore_tail THEN 2 ELSE 1) .. Len(c.body) : c.body[i] = cell

\* snake_step: the contexts it may leave
snake_step(c0) ==
  LET c1 == [c0 EXCEPT !.pending = FALSE]
      turn == ~snake_dir_is_opposite(c1.dir, c1.pending_dir) \/ Len(c1.body) <= 1
      c == [c1 EXCEPT !.dir = IF turn THEN c1.pending_dir ELSE @]
      head == c.body[Len(c.body)]
      new == snake_next_cell(head, c.dir)
      grow == c.food = new
      grown == [c EXCEPT !.body = Append(@, new)]
  IN  IF ~c1.active \/ c1.mode # "PLAYING" \/ c1.body = <<>> THEN {c1}
      ELSE IF snake_hits_wall(head, c.dir) THEN {snake_game_over(c, "WALL")}
      ELSE IF snake_cell_occupied(c, new, ~grow) THEN {snake_game_over(c, "SELF")}
      ELSE IF ~grow THEN {[c EXCEPT !.body = Append(Tail(@), new), !.armed = TRUE]}
      ELSE IF Len(grown.body) >= MaxCells THEN {snake_game_over(grown, "WIN")}
      ELSE {[s EXCEPT !.armed = (s.mode # "GAME_OVER") \/ @] : s \in snake_spawn_food(grown)}

\* Mutant: a turn is compared with the last key, not with the way of the snake
snake_turn_from_key(c, dir) ==
  IF c.mode \in {"PLAYING", "PAUSED"} /\
     (~snake_dir_is_opposite(c.pending_dir, dir) \/ Len(c.body) <= 1)
  THEN [c EXCEPT !.pending_dir = dir] ELSE c

\* A direction key in snake_task_dispatch
snake_turn(c, dir) ==
  IF c.mode \in {"PLAYING", "PAUSED"} /\
     (~snake_dir_is_opposite(c.dir, dir) \/ Len(c.body) <= 1)
  THEN [c EXCEPT !.pending_dir = dir] ELSE c

\* Mutant: leaving the pause does not start the timer again
snake_pause_unarmed(c) ==
  CASE c.mode = "PLAYING" -> [c EXCEPT !.mode = "PAUSED", !.armed = FALSE, !.pending = FALSE]
    [] c.mode = "PAUSED"  -> [c EXCEPT !.mode = "PLAYING", !.pending = FALSE]
    [] OTHER -> c

\* The key p in snake_task_dispatch
snake_pause(c) ==
  CASE c.mode = "PLAYING" -> [c EXCEPT !.mode = "PAUSED", !.armed = FALSE, !.pending = FALSE]
    [] c.mode = "PAUSED"  -> [c EXCEPT !.mode = "PLAYING", !.armed = TRUE, !.pending = FALSE]
    [] OTHER -> c

\* A raw key in snake_task_dispatch; q ends in snake_stop
snake_key(c, key) ==
  CASE key = "q" -> {snake_reset(c)}
    [] key = "r" -> snake_start_game(c)
    [] key = "p" -> {snake_pause(c)}
    [] key = "w" -> {snake_turn(c, "UP")}
    [] key = "d" -> {snake_turn(c, "RIGHT")}
    [] key = "s" -> {snake_turn(c, "DOWN")}
    [] key = "a" -> {snake_turn(c, "LEFT")}
    [] OTHER -> {c}

\* snake_task_dispatch: the contexts it may leave
snake_dispatch(c, e) ==
  IF e.sig = "START"
  THEN IF c.active THEN {c} ELSE {[snake_reset(c) EXCEPT !.active = TRUE]}
  ELSE IF ~c.active THEN {c}
  ELSE IF e.sig = "TICK" THEN snake_step(c)
  ELSE snake_key(c, e.key)

\* snake_task_systick_hook: the guard of its post
snake_due(c) == c.active /\ c.mode = "PLAYING" /\ ~c.pending /\ c.armed

\* snake_task_encode_state_blob: what a checkpoint holds of a valid game
snake_encode(c) == [c EXCEPT !.pending = FALSE, !.restored = FALSE, !.rebind = FALSE]

\* snake_task_restore_state and snake_restore_apply_state_fn for an active
\* game; lock: the acquisition of stdin returned neither OK nor EXISTS
snake_restore(c, blob, lock) ==
  [blob EXCEPT !.armed = blob.mode = "PLAYING", !.pending = FALSE,
               !.restored = TRUE, !.rebind = lock]
=============================================================================
