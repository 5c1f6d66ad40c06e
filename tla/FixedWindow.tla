------------------------------ MODULE FixedWindow -----------------------------
(***************************************************************************)
(* What a rate limiter with fixed windows promises each caller: a window   *)
(* opens with its first request and lasts Window ticks whatever it does;   *)
(* within a window its budget is spent one admitted request at a time, and *)
(* it is refused only when nothing of the budget is left.                  *)
(***************************************************************************)
EXTENDS Naturals

CONSTANTS
  Callers,     (* who has a budget of its own                              *)
  Limit,       (* the budget of each                                       *)
  Window,      (* the length of a window, in ticks                         *)
  NoAnswer     (* before the first request                                 *)

VARIABLES
  used,        (* requests admitted in the caller's open window            *)
  left,        (* ticks before that window closes; 0 when none is open     *)
  answer       (* the last answer given, and to whom                       *)

vars == <<used, left, answer>>

Init ==
  /\ used = [c \in Callers |-> 0]
  /\ left = [c \in Callers |-> 0]
  /\ answer = NoAnswer

Opened(c) == [left EXCEPT ![c] = IF @ = 0 THEN Window ELSE @]

Spent(c) == [used EXCEPT ![c] = IF @ < Limit[c] THEN @ + 1 ELSE @]

Admit(c) ==
  /\ used[c] < Limit[c]
  /\ used' = Spent(c) /\ left' = Opened(c)
  /\ answer' = <<c, "admitted">>

Refuse(c) ==
  /\ used[c] = Limit[c]
  /\ left' = Opened(c)
  /\ answer' = <<c, "429">>
  /\ UNCHANGED used

(* The store failed: the request counts, or it does not.                   *)
Fail(c) ==
  /\ \/ UNCHANGED <<used, left>>
     \/ used' = Spent(c) /\ left' = Opened(c)
  /\ answer' = <<c, "500">>

Tick ==
  /\ left' = [c \in Callers |-> IF left[c] = 0 THEN 0 ELSE left[c] - 1]
  /\ used' = [c \in Callers |-> IF left[c] <= 1 THEN 0 ELSE used[c]]
  /\ UNCHANGED answer

(* The store loses everything it held.                                     *)
Forget ==
  /\ used' = [c \in Callers |-> 0]
  /\ left' = [c \in Callers |-> 0]
  /\ UNCHANGED answer

Next ==
  \/ Tick \/ Forget
  \/ \E c \in Callers : Admit(c) \/ Refuse(c) \/ Fail(c)

Spec == Init /\ [][Next]_vars
=============================================================================
