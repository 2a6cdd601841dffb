--------------------------- MODULE EffectPromise ---------------------------
(***************************************************************************)
(* What a consequence outside the program promises: it happens at most     *)
(* once, never after it was refused, and what is said of it is one thing   *)
(* and true. An effect is a request at the gate around consequential       *)
(* tools, of which the agent is told; a row of the messaging outbox, of    *)
(* which its handle tells; or the reply to a message of a team chat, of    *)
(* which its settled row tells.                                            *)
(***************************************************************************)
EXTENDS Naturals

CONSTANT Effects

VARIABLES
  ran,      \* how often each effect was started
  verdict,  \* what is settled about it
  told      \* what has been told about it

promiseVars == <<ran, verdict, told>>

Verdicts == {"done", "refused", "unknown"}

PromiseInit ==
  /\ ran = [e \in Effects |-> 0]
  /\ verdict = [e \in Effects |-> "open"]
  /\ told = [e \in Effects |-> {}]

(* An execution whose fate was already called unknown may still begin. *)
Run(e) ==
  /\ ran[e] = 0 /\ verdict[e] \in {"open", "unknown"}
  /\ ran' = [ran EXCEPT ![e] = 1]
  /\ UNCHANGED <<verdict, told>>

Settle(e) ==
  /\ verdict[e] = "open"
  /\ \E v \in Verdicts :
       /\ v = "done" => ran[e] = 1
       /\ v = "refused" => ran[e] = 0
       /\ verdict' = [verdict EXCEPT ![e] = v]
       /\ told' \in {told, [told EXCEPT ![e] = {v}]}
  /\ UNCHANGED ran

Tell(e) ==
  /\ verdict[e] # "open"
  /\ told' = [told EXCEPT ![e] = {verdict[e]}]
  /\ UNCHANGED <<ran, verdict>>

PromiseNext == \E e \in Effects : Run(e) \/ Settle(e) \/ Tell(e)

PromiseSpec == PromiseInit /\ [][PromiseNext]_promiseVars
=============================================================================
