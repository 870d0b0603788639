-------------------------- MODULE JournaledMutation -------------------------
(***************************************************************************)
(* What a mutation journal promises, whatever its protocol: under one      *)
(* idempotency key the effect happens at most once, only while the key is  *)
(* reserved, and the outcome the journal settles on is decided once and    *)
(* never lies about the effect, though it may say that it does not know.   *)
(* SessionMutation and Targets implement it.                               *)
(***************************************************************************)
CONSTANTS Key,
          Agent     \* whoever may bring the effect about

VARIABLES phase,    \* "free", "reserved" or "decided"
          applied,  \* the agents that have brought the effect about
          outcome   \* what the journal says of the effect

vars == <<phase, applied, outcome>>

Verdicts == {"open", "applied", "none", "unknown"}

TypeOK ==
    /\ phase \in [Key -> {"free", "reserved", "decided"}]
    /\ applied \in [Key -> SUBSET Agent]
    /\ outcome \in [Key -> Verdicts]

Init ==
    /\ phase = [k \in Key |-> "free"]
    /\ applied = [k \in Key |-> {}]
    /\ outcome = [k \in Key |-> "open"]

Reserve(k) ==
    /\ phase[k] = "free"
    /\ phase' = [phase EXCEPT ![k] = "reserved"]
    /\ UNCHANGED <<applied, outcome>>

(* Only a reservation without effect is given up.                          *)
Cancel(k) ==
    /\ phase[k] = "reserved" /\ applied[k] = {}
    /\ phase' = [phase EXCEPT ![k] = "free"]
    /\ UNCHANGED <<applied, outcome>>

Apply(k, a) ==
    /\ phase[k] = "reserved" /\ applied[k] = {}
    /\ applied' = [applied EXCEPT ![k] = {a}]
    /\ UNCHANGED <<phase, outcome>>

Truth(k) == IF applied[k] = {} THEN "none" ELSE "applied"

Decide(k) ==
    /\ phase[k] = "reserved"
    /\ phase' = [phase EXCEPT ![k] = "decided"]
    /\ \E v \in {"unknown", Truth(k)} : outcome' = [outcome EXCEPT ![k] = v]
    /\ UNCHANGED applied

Next ==
    \E k \in Key : \/ Reserve(k) \/ Cancel(k) \/ Decide(k)
                   \/ \E a \in Agent : Apply(k, a)

Spec == Init /\ [][Next]_vars

(* The effect has one author, a settled outcome agrees with what happened, *)
(* and nothing has happened under a key that is free.                      *)
Truthful ==
    \A k \in Key :
        /\ \A a, b \in applied[k] : a = b
        /\ phase[k] = "free" => applied[k] = {}
        /\ phase[k] = "decided" => outcome[k] \in {"unknown", Truth(k)}
        /\ phase[k] # "decided" => outcome[k] = "open"
=============================================================================
