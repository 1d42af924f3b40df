--------------------------- MODULE RequestResponse ---------------------------
(***************************************************************************)
(* What a DAPClient promises the tools that share it: requests reach the   *)
(* wire in the order of their sequence numbers, every call ends at most    *)
(* once, and a call that ends with an answer ends with the answer to its   *)
(* own request, which the adapter did send.  Locks, the inbox, the notify  *)
(* channel and the read loop are not part of the promise.                  *)
(***************************************************************************)
EXTENDS Naturals

CONSTANTS Callers,  \* goroutines that call the client
          MaxSeq    \* the last sequence number a behaviour uses

VARIABLES next,      \* the sequence number of the next request on the wire
          call,      \* call[c]: the request c waits for, 0 when it waits for none
          answered,  \* requests the adapter has answered
          result     \* result[c]: the request whose answer c returned with, 0 for an error

abstractVars == <<next, call, answered, result>>

Init == /\ next = 1
        /\ call = [c \in Callers |-> 0]
        /\ answered = {}
        /\ result = [c \in Callers |-> 0]

\* A request is written, or the write fails and the number is used up.
Issue(c) ==
    /\ call[c] = 0
    /\ next <= MaxSeq
    /\ next' = next + 1
    /\ call' \in {[call EXCEPT ![c] = next], call}
    /\ result' = [result EXCEPT ![c] = 0]
    /\ UNCHANGED answered

Answer(s) ==
    /\ s \in 1..(next - 1) \ answered
    /\ answered' = answered \union {s}
    /\ UNCHANGED <<next, call, result>>

Return(c) ==
    /\ call[c] \in answered
    /\ call' = [call EXCEPT ![c] = 0]
    /\ result' = [result EXCEPT ![c] = call[c]]
    /\ UNCHANGED <<next, answered>>

\* Cancelled, timed out, or the transport ended.
GiveUp(c) ==
    /\ call[c] # 0
    /\ call' = [call EXCEPT ![c] = 0]
    /\ UNCHANGED <<next, answered, result>>

Next == \/ \E c \in Callers : Issue(c) \/ Return(c) \/ GiveUp(c)
        \/ \E s \in 1..MaxSeq : Answer(s)

Spec == Init /\ [][Next]_abstractVars
==============================================================================
