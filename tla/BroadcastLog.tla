---------------------------- MODULE BroadcastLog ----------------------------
(***************************************************************************)
(* What one topic promises to its users (package comment of broker.go,     *)
(* docs/ARCHITECTURE.md): an append-only log that any number of            *)
(* subscribers read, each on its own, from the first message on, without   *)
(* gaps, duplicates or reordering; a batch enters the log in one piece,    *)
(* contiguous; once the log is shut nothing enters it, nobody joins it and *)
(* nothing more is delivered.  Partition.tla and Broker.tla are shown to   *)
(* implement it.                                                           *)
(***************************************************************************)
EXTENDS Integers, Sequences

CONSTANTS
    Payloads,       \* what is published
    Subs,           \* every subscription that is ever handed out
    Batches,        \* the batches that callers publish
    StoreMayFail    \* TRUE when the log backend may refuse an append

VARIABLES
    content,     \* the payloads published so far
    open,        \* FALSE once the log is shut
    status,      \* status[s]: "new" (not handed out), "live" or "gone"
    delivered    \* delivered[s]: all that reads of s have returned so far

vars == <<content, open, status, delivered>>

Init ==
    /\ content = <<>>
    /\ open = TRUE
    /\ status = [s \in Subs |-> "new"]
    /\ delivered = [s \in Subs |-> <<>>]

\* A batch is published: all of it, or, when the backend gives out half-way,
\* a non-empty part from its beginning.
Publish(batch) ==
    /\ open
    /\ \E n \in 1 .. Len(batch) :
          /\ n = Len(batch) \/ StoreMayFail
          /\ content' = content \o SubSeq(batch, 1, n)
    /\ UNCHANGED <<open, status, delivered>>

Join(s) ==
    /\ open
    /\ status[s] = "new"
    /\ status' = [status EXCEPT ![s] = "live"]
    /\ UNCHANGED <<content, open, delivered>>

Leave(s) ==
    /\ status[s] = "live"
    /\ status' = [status EXCEPT ![s] = "gone"]
    /\ UNCHANGED <<content, open, delivered>>

\* A read returns the next n messages that s has not had yet.
Deliver(s) ==
    /\ open
    /\ status[s] = "live"
    /\ \E n \in 1 .. Len(content) - Len(delivered[s]) :
          delivered' = [delivered EXCEPT ![s] =
                          SubSeq(content, 1, Len(delivered[s]) + n)]
    /\ UNCHANGED <<content, open, status>>

\* The end of the log ends every subscription with it.
Shut ==
    /\ open
    /\ open' = FALSE
    /\ status' = [s \in Subs |-> IF status[s] = "new" THEN "new" ELSE "gone"]
    /\ UNCHANGED <<content, delivered>>

Next ==
    \/ \E batch \in Batches : Publish(batch)
    \/ \E s \in Subs : Join(s) \/ Leave(s) \/ Deliver(s)
    \/ Shut

Spec == Init /\ [][Next]_vars

=============================================================================
