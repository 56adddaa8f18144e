----------------------------- MODULE RowLedger -----------------------------
(***************************************************************************)
(* What a wyrd-queue producer promises about one row, whatever happens in  *)
(* its channel, its buffers, its background task and the sink: a row is    *)
(* refused, or it is taken into the buffer; a buffered row is stored once  *)
(* or dropped with a count; and only the end of the background task may    *)
(* abandon what is left.  An abandoned row may still be stored by a        *)
(* request the producer gave up waiting for.                               *)
(***************************************************************************)
CONSTANT Rows

VARIABLES status,   \* what has become of each row
          running   \* whether the background task still exists

ledgerVars == <<status, running>>

Status == {"new", "refused", "buffered", "stored", "dropped", "abandoned"}

\* The moves a row may make while the task exists, and after it is gone.
Moves == {<<"new", "refused">>, <<"new", "buffered">>, <<"buffered", "stored">>,
          <<"buffered", "dropped">>}

MovesAfter == {<<"new", "refused">>, <<"abandoned", "stored">>}

Init == /\ status = [r \in Rows |-> "new"]
        /\ running = TRUE

\* A row, or the rows of a batch, make the same move.
Move(allowed) ==
  LET old == status
      new == status'
      changed == {r \in Rows : old[r] # new[r]}
  IN  \E m \in allowed : \A r \in changed : <<old[r], new[r]>> = m

Advance == /\ Move(IF running THEN Moves ELSE MovesAfter)
           /\ UNCHANGED running

\* The end of the task abandons what is buffered.
Stop == /\ running /\ ~running'
        /\ status' = [r \in Rows |-> IF status[r] = "buffered" THEN "abandoned" ELSE status[r]]

Next == (Advance \/ Stop) /\ status' \in [Rows -> Status]

Spec == Init /\ [][Next]_ledgerVars
=============================================================================
