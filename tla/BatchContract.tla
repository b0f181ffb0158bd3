---------------------------- MODULE BatchContract ----------------------------
(***************************************************************************)
(* What a batch promises its user, whatever loop, semaphore, goroutines    *)
(* and tools lie behind it: items are taken up in order, a few at a time,  *)
(* and none that was not chosen before a cancel; each is counted once; the *)
(* batch has one verdict, which its counts bear out; and the files go only *)
(* after the verdict and after the last item that uses them.  Batch        *)
(* implements it (Batch!KeepsContract).                                    *)
(***************************************************************************)
EXTENDS Integers

CONSTANTS
  N,           \* len(batch.URLs)
  MaxParallel  \* items at a time

VARIABLES
  verdict,     \* "open", or how the batch ended
  asked,       \* a cancel was asked for
  chosen,      \* items the batch has decided to take up
  begun,       \* items it has taken up
  good, bad,   \* items that were counted as completed, as failed
  files        \* the download directory: "none", "made" or "removed"

itemVars == <<chosen, begun, good, bad>>
vars     == <<verdict, asked, itemVars, files>>

Init ==
  /\ verdict = "open" /\ asked = FALSE
  /\ chosen = 0 /\ begun = 0 /\ good = 0 /\ bad = 0
  /\ files = "none"

Counted == good + bad

AllIn == begun = N /\ Counted = N

Make ==
  /\ files = "none" /\ chosen = 0
  /\ files' = "made"
  /\ UNCHANGED <<verdict, asked, itemVars>>

Ask ==
  /\ asked' = TRUE
  /\ UNCHANGED <<verdict, itemVars, files>>

\* The next item, if nobody has asked for a cancel.
Choose ==
  /\ verdict = "open" /\ ~asked
  /\ files = "made"
  /\ chosen = begun /\ chosen < N
  /\ chosen' = chosen + 1
  /\ UNCHANGED <<verdict, asked, begun, good, bad, files>>

Begin ==
  /\ begun < chosen
  /\ begun - Counted < MaxParallel
  /\ begun' = begun + 1
  /\ UNCHANGED <<verdict, asked, chosen, good, bad, files>>

Count ==
  /\ Counted < begun
  /\ \/ good' = good + 1 /\ UNCHANGED bad
     \/ bad' = bad + 1 /\ UNCHANGED good
  /\ UNCHANGED <<verdict, asked, chosen, begun, files>>

\* Completed when all are in, cancelled if that was asked for, and failed for one of two
\* reasons: there was nowhere to put the items, or there was something to pack and it
\* could not be packed.
Deserved(v) ==
  \/ v = "completed" /\ AllIn
  \/ v = "cancelled" /\ asked
  \/ v = "failed" /\ (chosen = 0 \/ (AllIn /\ good > 0))

Judge == verdict = "open" /\ Deserved(verdict')

\* The verdict may leave the files, for goroutines that still work on them.
End == Judge /\ UNCHANGED <<asked, itemVars, files>>

Tidy ==
  /\ Judge \/ (verdict # "open" /\ UNCHANGED verdict)
  /\ files = "made" /\ chosen = Counted
  /\ files' = "removed"
  /\ UNCHANGED <<asked, itemVars>>

Next == Make \/ Ask \/ Choose \/ Begin \/ Count \/ End \/ Tidy

Spec == Init /\ [][Next]_vars
=============================================================================
