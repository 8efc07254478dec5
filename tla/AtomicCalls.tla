----------------------------- MODULE AtomicCalls -----------------------------
(***************************************************************************)
(* What the HTTP interface promises of the calls that change a collection, *)
(* without tasks, locks, versions or snapshots: a call takes effect at one *)
(* moment between its arrival and the end of its task, at most once, or is *)
(* refused and changes nothing; the client is told which, or that time is  *)
(* up, which tells nothing.  A source is read at some moment after the     *)
(* arrival; a source that is also the target, at the moment of the effect. *)
(***************************************************************************)
EXTENDS Sequences, Integers

CONSTANTS Name, Request, Call

VARIABLES
    stored,   \* what each collection holds
    call,     \* the call a request makes
    phase,    \* "idle", "pending", "done" or "refused"
    told,     \* what its client was told: "nothing", "ok", "error", "late"
    past      \* what each source has held since the call arrived

vars == <<stored, call, phase, told, past>>

NoPast == [n \in Name |-> {}]

Init ==
    /\ stored \in [Name -> {{}} \cup {{n} : n \in Name}]
    /\ call \in [Request -> Call]
    /\ phase = [r \in Request |-> "idle"]
    /\ told = [r \in Request |-> "nothing"]
    /\ past = [r \in Request |-> NoPast]

(* A request arrives, or is sent again after its answer.                   *)
Ask(r) ==
    /\ phase[r] = "idle" \/ (phase[r] # "pending" /\ told[r] # "nothing")
    /\ phase' = [phase EXCEPT ![r] = "pending"]
    /\ told' = [told EXCEPT ![r] = "nothing"]
    /\ \E c \in Call :
         /\ call' = [call EXCEPT ![r] = c]
         /\ past' = [past EXCEPT ![r] = [n \in Name |->
                        {stored[n] : i \in {j \in DOMAIN c.from : c.from[j] = n}}]]
    /\ UNCHANGED stored

(* The values a call may see in a source.  An unchecked call promises      *)
(* nothing about a target that is its own source.                          *)
Seen(r, i) ==
    IF call[r].from[i] = call[r].target /\ call[r].checked
    THEN {stored[call[r].target]} ELSE past[r][call[r].from[i]]

(* What may be left of a value of one and a value of the other.            *)
Combined(A, B) == UNION {SUBSET (p[1] \cup p[2]) : p \in A \X B}

(* What the call makes of its target.                                      *)
Meaning(r) ==
    LET c == call[r] IN
    CASE c.makes = "more" -> {stored[c.target] \cup {r}}
      [] c.makes = "new" -> {{r}}
      [] c.makes = "both" -> Combined(Seen(r, 1), Seen(r, 2))
      [] c.makes = "part" -> UNION {SUBSET a : a \in Seen(r, 1)}
      [] c.makes = "same" -> Seen(r, 1)
      [] c.makes = "itself" -> {stored[c.target], stored[c.target] \cup {r}}
      [] c.makes = "nothing" -> {stored[c.target]}

Perform(r) ==
    /\ phase[r] = "pending"
    /\ phase' = [phase EXCEPT ![r] = "done"]
    /\ \E s \in Meaning(r) : stored' = [stored EXCEPT ![call[r].target] = s]
    /\ past' = [q \in Request |->
                   IF phase'[q] # "pending" THEN NoPast
                   ELSE [n \in Name |-> IF past[q][n] = {} THEN {}
                                         ELSE past[q][n] \cup {stored'[n]}]]
    /\ UNCHANGED <<call, told>>

Refuse(r) ==
    /\ phase[r] = "pending"
    /\ phase' = [phase EXCEPT ![r] = "refused"]
    /\ past' = [past EXCEPT ![r] = NoPast]
    /\ UNCHANGED <<stored, call, told>>

Tell(r) ==
    /\ phase[r] \in {"done", "refused"} /\ told[r] = "nothing"
    /\ told' = [told EXCEPT ![r] = IF phase[r] = "done" THEN "ok" ELSE "error"]
    /\ UNCHANGED <<stored, call, phase, past>>

TellLate(r) ==
    /\ phase[r] # "idle" /\ told[r] = "nothing"
    /\ told' = [told EXCEPT ![r] = "late"]
    /\ UNCHANGED <<stored, call, phase, past>>

Next ==
    \E r \in Request :
        Ask(r) \/ Perform(r) \/ Refuse(r) \/ Tell(r) \/ TellLate(r)

Spec == Init /\ [][Next]_vars
=============================================================================
