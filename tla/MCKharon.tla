------------------------------ MODULE MCKharon ------------------------------
(* Small instances of Kharon for TLC. *)
EXTENDS Kharon, TLC

CONSTANTS tube, group

Symmetry == Permutations(Tickets) \union Permutations(Workers) \union Permutations(Flushers)

NewTicket == [status |-> "pending", tube |-> tube, group |-> None,
              runat |-> 0, nice |-> 0, attempts |-> 0]

MCSubmissions == {NewTicket}
\* A member of the group, and a ticket outside of it.
MCGroupSubmissions == {NewTicket, [NewTicket EXCEPT !.group = group]}

ACall(op) == [op |-> op, delay |-> None, keep |-> FALSE, nice |-> None,
              resetAttempts |-> FALSE, tube |-> None, group |-> None, update |-> None]

\* A function for WithUpdate that writes the ticket as it is.
AsIs == [t \in Ticket |-> t]
\* One that returns an error.
Failing == [t \in Ticket |-> None]

\* What handlers do: finish the ticket through the batch or at once, or crash.
AckOrCrash == {ACall("ack"), NoCall}
DoneOrCrash == {ACall("done"), NoCall}
OnlyAck == {ACall("ack")}
AckOrDone == {ACall("ack"), ACall("done")}
FinishOrCrash == AckOrDone \union {[ACall("done") EXCEPT !.update = AsIs], NoCall}

\* Clients cancel whatever a handler has in hand: through the batch, or at once
\* keeping the ticket, with a function that may fail.
Cancels == {ACall("cancel")} \union
           {[ACall("cancel") EXCEPT !.keep = TRUE, !.update = fn] : fn \in {AsIs, Failing}}

MCTubes == {tube}
MCNoCalls == {}
MCGroups == {group}
MCNoGroups == {}
MCNices == {0}
MCPollDelays == [n \in 0..MaxAttempts |-> Horizon]
=============================================================================
