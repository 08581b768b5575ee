--------------------------- MODULE MCReplication ---------------------------
(* Small instances of Replication for TLC. *)
EXTENDS Replication

CONSTANTS p1, o1, k1, b1

OneProc == {p1}
OneAndOther == {p1, o1}
OneKey == {k1}
NoCall == {}
OneCall == {b1}

Other == {o1}
Nobody == {}

(* The longest log is for the follower alone: a third row, and with it a   *)
(* second hole at MaxHoles = 1, only while nobody asks for a barrier and   *)
(* no other reader reports; and of those two one at a time.                *)
Unasked == \A c \in Call : call[c].state = "new"
OthersSilent == \A o \in Reporter : reader[o] = None
Room == /\ Unasked \/ OthersSilent
        /\ (Unasked /\ OthersSilent) \/ Len(log) < MaxSeq

(* The liveness properties, for two changes, and for a third as long as one *)
(* process follows undisturbed what another writes.  With three, what ends *)
(* its following is left out, and with that what it is answerable for      *)
(* (Stop, Killed, being declared gone), what moves no mark (ApplyFails),   *)
(* and its own writes, which its marks pass like any other.                *)
Following(p) == Works(p) \/ PullFails(p) \/ ReportFails(p)
LogMoves == \/ \E o \in Origin \ Proc, k \in Key : Write(o, k)
            \/ \E s \in Seqs : Commit(s) \/ Rollback(s)
            \/ Purge({})
Undisturbed == \A p \in Proc : /\ phase[p] # "stopped" /\ ~gone[p] /\ dropped[p] = {}
                              /\ \A s \in Seqs : log[s].by # p

LiveNext == \/ Next /\ Len(log') < MaxSeq
            \/ /\ Len(log) = MaxSeq \/ Undisturbed
               /\ LogMoves \/ \E p \in Proc : Following(p)

LiveSpec == Init /\ [][LiveNext]_vars /\ Fairness
=============================================================================
