---------------------------- MODULE LoginProofs -----------------------------
(***************************************************************************)
(* Theorems about Login: the types, and the bound on the wrong passwords a *)
(* client can try, for any number of threads, any limit and any window.    *)
(***************************************************************************)
EXTENDS Login, FiniteSetTheorems, TLAPS

(* The fields of an attempt *)
LEMMA AttemptFields ==
  ASSUME LoginTypeOK, NEW c \in Callers, Busy(c)
  PROVE  /\ attempt[c] \in Checking \cup Changing
         /\ attempt[c].client \in Clients
         /\ attempt[c].age \in Ages
         /\ attempt[c].step \in {"admitted", "right", "wrong", "changing"}
         /\ attempt[c].step = "changing" => attempt[c].new \in Passwords
  BY DEF LoginTypeOK, Busy, Attempts, Checking, Changing, NoAttempt

(* A step of an attempt gives an attempt again.                            *)
LEMMA MoveTyped ==
  ASSUME LoginTypeOK, NEW c \in Callers, Busy(c),
         NEW step \in {"right", "wrong", "changing"}, Move(c, step),
         step = "changing" <=> attempt[c].step = "right",
         step = "changing" => attempt[c].new \in Passwords,
         attempt[c].step \in {"admitted", "right"}
  PROVE  attempt' \in [Callers -> Attempts]
<1>1. attempt[c] \in Checking
  BY AttemptFields DEF Checking, Changing
<1>2. [attempt[c] EXCEPT !.step = step] \in Checking \cup Changing
  BY <1>1 DEF Checking, Changing
<1>3. attempt' = [attempt EXCEPT ![c] = [attempt[c] EXCEPT !.step = step]]
  BY DEF Move
<1>. QED  BY <1>2, <1>3 DEF LoginTypeOK, Attempts

(* What the loop leaves of a deque *)
LEMMA PrunedLength ==
  ASSUME NEW q \in Seq(Ages), NEW k \in 0..Len(q)
  PROVE  Pruned(q, k) \in Seq(Ages) /\ Len(Pruned(q, k)) = Len(q) - k
  BY DEF Pruned

LEMMA OlderTyped ==
  ASSUME NEW age \in Ages
  PROVE  Older(age) \in Ages
  BY LoginAssumption DEF Ages, Older

LEMMA InitInv == LoginInit => LoginTypeOK
  BY DEF LoginInit, LoginTypeOK, Attempts

(* Every step keeps the types. *)
LEMMA TypeStep == LoginTypeOK /\ [LoginNext]_loginVars => LoginTypeOK'
<1>. SUFFICES ASSUME LoginTypeOK, [LoginNext]_loginVars
              PROVE  LoginTypeOK'
  OBVIOUS
<1>1. ASSUME NEW c \in Callers, NEW client \in Clients, NEW guess \in Passwords,
             NEW new \in Passwords \cup {NoPassword}, Admit(c, client, guess, new)
      PROVE  LoginTypeOK'
  <2>1. failures' \in [Clients -> Seq(Ages)]
    BY <1>1, PrunedLength DEF Admit, LoginTypeOK
  <2>2. 0 \in Ages
    BY LoginAssumption DEF Ages
  <2>3. [step |-> "admitted", client |-> client, age |-> 0, guess |-> guess,
         new |-> new] \in Attempts
    BY <2>2 DEF Attempts, Checking
  <2>. QED  BY <1>1, <2>1, <2>3 DEF Admit, LoginTypeOK
<1>2. ASSUME NEW c \in Callers, NEW client \in Clients, Refuse(c, client)
      PROVE  LoginTypeOK'
  BY <1>2, PrunedLength DEF Refuse, AfterRefusal, LoginTypeOK
<1>3. ASSUME NEW c \in Callers, CheckPassword(c)
      PROVE  LoginTypeOK'
  <2>1. Busy(c) /\ attempt[c].step = "admitted"
    BY <1>3 DEF CheckPassword, AtStep
  <2>2. attempt' \in [Callers -> Attempts]
    BY <1>3, <2>1, MoveTyped DEF CheckPassword
  <2>. QED  BY <1>3, <2>2 DEF CheckPassword, LoginTypeOK
<1>4. ASSUME NEW c \in Callers, CountFailure(c)
      PROVE  LoginTypeOK'
  <2>1. attempt[c].client \in Clients /\ attempt[c].age \in Ages
    BY <1>4, AttemptFields DEF CountFailure, AtStep
  <2>. QED
    BY <1>4, <2>1 DEF CountFailure, WithFailure, Leave, LoginTypeOK, Attempts
<1>5. ASSUME NEW c \in Callers, Succeed(c)
      PROVE  LoginTypeOK'
  <2>1. Busy(c) /\ attempt[c].step = "right" /\ attempt[c].client \in Clients
    BY <1>5, AttemptFields DEF Succeed, AtStep
  <2>2. failures' \in [Clients -> Seq(Ages)]
    BY <1>5, <2>1 DEF Succeed, LoginTypeOK
  <2>3. attempt' \in [Callers -> Attempts]
    <3>1. CASE attempt[c].new \in Passwords \ {attempt[c].guess}
      <4>1. Move(c, "changing")
        BY <1>5, <3>1 DEF Succeed
      <4>. QED  BY <2>1, <3>1, <4>1, MoveTyped
    <3>2. CASE attempt[c].new \notin Passwords \ {attempt[c].guess}
      BY <1>5, <3>2 DEF Succeed, Leave, LoginTypeOK, Attempts
    <3>. QED  BY <3>1, <3>2
  <2>. QED  BY <1>5, <2>2, <2>3 DEF Succeed, LoginTypeOK
<1>6. ASSUME NEW c \in Callers, ReplacePassword(c)
      PROVE  LoginTypeOK'
  <2>1. attempt[c].new \in Passwords
    BY <1>6, AttemptFields DEF ReplacePassword, AtStep
  <2>. QED  BY <1>6, <2>1 DEF ReplacePassword, Leave, LoginTypeOK, Attempts
<1>7. CASE Tick
  <2>1. failures' \in [Clients -> Seq(Ages)]
    <3>1. ASSUME NEW client \in Clients
          PROVE  [i \in 1..Len(failures[client]) |-> Older(failures[client][i])]
                   \in Seq(Ages)
      BY OlderTyped DEF LoginTypeOK
    <3>. QED  BY <1>7, <3>1 DEF Tick
  <2>2. ASSUME NEW c \in Callers, Busy(c)
        PROVE  [attempt[c] EXCEPT !.age = Older(@)] \in Attempts
    <3>1. Older(attempt[c].age) \in Ages
      BY <2>2, AttemptFields, OlderTyped
    <3>2. [attempt[c] EXCEPT !.age = Older(@)] \in Checking \cup Changing
      BY <2>2, <3>1, AttemptFields DEF Checking, Changing
    <3>. QED  BY <3>2 DEF Attempts
  <2>3. attempt' \in [Callers -> Attempts]
    BY <1>7, <2>2 DEF Tick, Attempts
  <2>. QED  BY <1>7, <2>1, <2>3 DEF Tick, LoginTypeOK
<1>8. CASE RestartService
  BY <1>8 DEF RestartService, LoginTypeOK, Attempts
<1>9. CASE UNCHANGED loginVars
  BY <1>9 DEF loginVars, LoginTypeOK
<1>. QED
  BY <1>1, <1>2, <1>3, <1>4, <1>5, <1>6, <1>7, <1>8, <1>9 DEF LoginNext

(* In every reachable state the deques hold ages and each thread is idle   *)
(* or in a well-formed attempt.                                            *)
THEOREM LoginTypeCorrect == LoginSpec => []LoginTypeOK
  BY InitInv, TypeStep, PTL DEF LoginSpec

-----------------------------------------------------------------------------
(* The pending attempts of a client are counted by a number of threads.    *)
LEMMA PendingCount ==
  ASSUME NEW client \in Clients
  PROVE  /\ IsFiniteSet(Pending(client))
         /\ Cardinality(Pending(client)) \in Nat
         /\ Cardinality(Callers) \in Nat
         /\ Cardinality(Pending(client)) <= Cardinality(Callers)
<1>1. Pending(client) \subseteq Callers
  BY DEF Pending
<1>. QED  BY <1>1, LoginAssumption, FS_Subset, FS_CardinalityType

(* The same after the step, and a set of pending attempts that did not     *)
(* grow is not counted higher.                                             *)
LEMMA PendingShrinks ==
  ASSUME NEW client \in Clients, Pending(client)' \subseteq Pending(client)
  PROVE  /\ Cardinality(Pending(client)') \in Nat
         /\ Cardinality(Pending(client)') <= Cardinality(Pending(client))
  BY PendingCount, FS_Subset, FS_CardinalityType

(* One step of one thread, for one client: either the client's deque grows *)
(* by the failure of a pending attempt, or neither number grows, or the    *)
(* deque was found below the limit.                                        *)
LEMMA BoundedStep ==
  LoginTypeOK /\ GuessesBounded /\ [LoginNext]_loginVars => GuessesBounded'
<1>. SUFFICES ASSUME LoginTypeOK, GuessesBounded, [LoginNext]_loginVars,
                     NEW client \in Clients
              PROVE  Len(failures'[client]) + Cardinality(Pending(client)')
                       <= Limit - 1 + Cardinality(Callers)
  BY DEF GuessesBounded
<1>. DEFINE Bounded == Len(failures'[client]) + Cardinality(Pending(client)')
                         <= Limit - 1 + Cardinality(Callers)
<1>a. /\ Len(failures[client]) + Cardinality(Pending(client))
            <= Limit - 1 + Cardinality(Callers)
      /\ Len(failures[client]) \in Nat
      /\ failures[client] \in Seq(Ages)
  BY DEF GuessesBounded, LoginTypeOK
<1>b. LoginTypeOK'
  BY TypeStep
<1>c. /\ Cardinality(Pending(client)) \in Nat
      /\ Cardinality(Callers) \in Nat
  BY PendingCount
<1>d. Len(failures'[client]) \in Nat
  BY <1>b DEF LoginTypeOK
<1>e. Limit \in Nat \ {0}
  BY LoginAssumption
<1>f. ASSUME Pending(client)' \subseteq Pending(client),
             Len(failures'[client]) <= Len(failures[client])
      PROVE  Bounded
  BY <1>a, <1>c, <1>d, <1>e, <1>f, PendingShrinks
<1>g. Pending(client)' = {c \in Callers :
        /\ AtStep(c, "admitted")' \/ AtStep(c, "wrong")'
        /\ attempt'[c].client = client}
  BY DEF Pending
<1>1. ASSUME NEW c \in Callers, NEW x \in Clients, NEW guess \in Passwords,
             NEW new \in Passwords \cup {NoPassword}, Admit(c, x, guess, new)
      PROVE  Bounded
  <2>1. CASE x = client
    <3>1. Len(failures'[client]) <= Limit - 1
      BY <1>1, <1>a, <1>d, <1>e, <2>1 DEF Admit, UnderLimit, LoginTypeOK
    <3>2. Pending(client)' \subseteq Callers
      BY <1>g
    <3>3. /\ Cardinality(Pending(client)') \in Nat
          /\ Cardinality(Pending(client)') <= Cardinality(Callers)
      BY <3>2, LoginAssumption, FS_Subset, FS_CardinalityType
    <3>. QED  BY <3>1, <3>3, <1>c, <1>d, <1>e
  <2>2. CASE x # client
    <3>1. failures'[client] = failures[client]
      BY <1>1, <2>2 DEF Admit, LoginTypeOK
    <3>2. Pending(client)' \subseteq Pending(client)
      BY <1>1, <2>2, <1>g DEF Admit, Pending, AtStep, Busy, LoginTypeOK
    <3>. QED  BY <3>1, <3>2, <1>a, <1>f
  <2>. QED  BY <2>1, <2>2
<1>2. ASSUME NEW c \in Callers, NEW x \in Clients, Refuse(c, x)
      PROVE  Bounded
  <2>1. Len(failures'[client]) <= Len(failures[client])
    <3>1. PICK k \in 0..Len(failures[x]) :
            failures' = [failures EXCEPT ![x] = Pruned(failures[x], k)]
      BY <1>2 DEF Refuse, AfterRefusal
    <3>2. Len(Pruned(failures[x], k)) = Len(failures[x]) - k
      BY PrunedLength DEF LoginTypeOK
    <3>. QED  BY <3>1, <3>2, <1>a DEF LoginTypeOK
  <2>2. Pending(client)' = Pending(client)
    BY <1>2, <1>g DEF Refuse, Pending, AtStep, Busy
  <2>. QED  BY <2>1, <2>2, <1>f
<1>3. ASSUME NEW c \in Callers, CheckPassword(c)
      PROVE  Bounded
  <2>1. Pending(client)' \subseteq Pending(client)
    BY <1>3, <1>g, AttemptFields
       DEF CheckPassword, Move, Pending, AtStep, Busy, LoginTypeOK, Attempts,
           NoAttempt, Checking, Changing
  <2>. QED  BY <1>3, <2>1, <1>a, <1>f DEF CheckPassword
<1>4. ASSUME NEW c \in Callers, CountFailure(c)
      PROVE  Bounded
  <2>1. CASE attempt[c].client = client
    <3>1. Len(failures'[client]) = Len(failures[client]) + 1
      BY <1>4, <1>a, <2>1 DEF CountFailure, WithFailure, LoginTypeOK
    <3>2. /\ c \in Pending(client)
          /\ Pending(client)' \subseteq Pending(client) \ {c}
      BY <1>4, <2>1, <1>g
         DEF CountFailure, Leave, Pending, AtStep, Busy, LoginTypeOK
    <3>3. /\ Cardinality(Pending(client) \ {c}) = Cardinality(Pending(client)) - 1
          /\ IsFiniteSet(Pending(client) \ {c})
      BY <3>2, PendingCount, FS_RemoveElement
    <3>4. /\ Cardinality(Pending(client)') \in Nat
          /\ Cardinality(Pending(client)') <= Cardinality(Pending(client)) - 1
      BY <3>2, <3>3, FS_Subset, FS_CardinalityType
    <3>. QED  BY <3>1, <3>4, <1>a, <1>c, <1>e
  <2>2. CASE attempt[c].client # client
    <3>1. failures'[client] = failures[client]
      BY <1>4, <2>2 DEF CountFailure, LoginTypeOK
    <3>2. Pending(client)' \subseteq Pending(client)
      BY <1>4, <1>g DEF CountFailure, Leave, Pending, AtStep, Busy, LoginTypeOK
    <3>. QED  BY <3>1, <3>2, <1>a, <1>f
  <2>. QED  BY <2>1, <2>2
<1>5. ASSUME NEW c \in Callers, Succeed(c)
      PROVE  Bounded
  <2>1. Len(failures'[client]) <= Len(failures[client])
    BY <1>5, <1>a DEF Succeed, LoginTypeOK
  <2>2. Pending(client)' \subseteq Pending(client)
    BY <1>5, <1>g DEF Succeed, Move, Leave, Pending, AtStep, Busy, LoginTypeOK,
                      Attempts, NoAttempt, Checking, Changing
  <2>. QED  BY <2>1, <2>2, <1>f
<1>6. ASSUME NEW c \in Callers, ReplacePassword(c)
      PROVE  Bounded
  <2>1. Pending(client)' \subseteq Pending(client)
    BY <1>6, <1>g DEF ReplacePassword, Leave, Pending, AtStep, Busy, LoginTypeOK
  <2>. QED  BY <1>6, <2>1, <1>a, <1>f DEF ReplacePassword
<1>7. CASE Tick
  <2>1. Len(failures'[client]) = Len(failures[client])
    BY <1>7, <1>a DEF Tick
  <2>2. Pending(client)' \subseteq Pending(client)
    <3>1. ASSUME NEW c \in Callers, Busy(c)
          PROVE  /\ [attempt[c] EXCEPT !.age = Older(@)].step = attempt[c].step
                 /\ [attempt[c] EXCEPT !.age = Older(@)].client = attempt[c].client
      BY <3>1, AttemptFields DEF Checking, Changing
    <3>. QED  BY <1>7, <3>1, <1>g DEF Tick, Pending, AtStep, Busy
  <2>. QED  BY <2>1, <2>2, <1>a, <1>f
<1>8. CASE RestartService
  <2>1. Len(failures'[client]) = 0
    BY <1>8 DEF RestartService
  <2>2. Pending(client)' \subseteq Pending(client)
    BY <1>8, <1>g DEF RestartService, Pending, AtStep, Busy
  <2>. QED  BY <2>1, <2>2, <1>a, <1>f
<1>9. CASE UNCHANGED loginVars
  <2>1. Pending(client)' = Pending(client)
    BY <1>9, <1>g DEF loginVars, Pending, AtStep, Busy
  <2>. QED  BY <1>9, <2>1, <1>a, <1>f DEF loginVars
<1>. QED
  BY <1>1, <1>2, <1>3, <1>4, <1>5, <1>6, <1>7, <1>8, <1>9 DEF LoginNext

LEMMA BoundedInit == LoginInit => GuessesBounded
<1>. SUFFICES ASSUME LoginInit, NEW client \in Clients
              PROVE  Len(failures[client]) + Cardinality(Pending(client))
                       <= Limit - 1 + Cardinality(Callers)
  BY DEF GuessesBounded
<1>1. Len(failures[client]) = 0
  BY DEF LoginInit
<1>. QED  BY <1>1, PendingCount, LoginAssumption

(* No client ever has more than Limit - 1 plus one per thread of wrong     *)
(* attempts that still count or may still come to count.                   *)
THEOREM GuessesAreBounded == LoginSpec => []GuessesBounded
  BY InitInv, BoundedInit, TypeStep, BoundedStep, PTL DEF LoginSpec
=============================================================================
