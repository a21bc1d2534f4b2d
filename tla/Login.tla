------------------------------- MODULE Login --------------------------------
(***************************************************************************)
(* app/core/auth.py: checking the password, in front of the login and of   *)
(* every endpoint that changes something, and changing it.  The failures   *)
(* of a client are a deque of the times at which the failed attempts       *)
(* began.  No lock is held: an attempt is admitted by the length of the    *)
(* deque, checks the password for a long time (scrypt), and only then      *)
(* clears the deque or appends to it.                                      *)
(*                                                                         *)
(* Times are kept as ages, which grow with Tick; the unit is that of       *)
(* Window.  A name other than the configured one counts as a wrong         *)
(* password.                                                               *)
(***************************************************************************)
EXTENDS Integers, Sequences, FiniteSets

CONSTANTS
  Callers,      \* request threads that check a password
  Clients,      \* addresses requests come from
  Passwords,
  Limit,        \* failures that lock a client out (5)
  Window,       \* how long a failure counts (300 seconds)
  NoPassword    \* in place of a new password: the attempt only logs in

ASSUME LoginAssumption ==
  /\ Limit \in Nat \ {0}
  /\ Window \in Nat
  /\ IsFiniteSet(Callers)
  /\ NoPassword \notin Passwords

VARIABLES
  failures,    \* client -> ages of its failures, in the order of the appends
  password,    \* the credential file
  attempt      \* local variables of the threads

loginVars == <<failures, password, attempt>>

Ages == 0..(Window + 1)          \* Window + 1: expired
Older(age) == IF age > Window THEN age ELSE age + 1

NoAttempt == [step |-> "idle"]
Checking == [step : {"admitted", "right", "wrong"}, client : Clients, age : Ages,
             guess : Passwords, new : Passwords \cup {NoPassword}]
Changing == [step : {"changing"}, client : Clients, age : Ages,
             guess : Passwords, new : Passwords]
Attempts == {NoAttempt} \cup Checking \cup Changing

Busy(c) == attempt[c] # NoAttempt
AtStep(c, step) == Busy(c) /\ attempt[c].step = step
Move(c, step) == attempt' = [attempt EXCEPT ![c].step = step]
Leave(c) == attempt' = [attempt EXCEPT ![c] = NoAttempt]

LoginTypeOK ==
  /\ failures \in [Clients -> Seq(Ages)]
  /\ password \in Passwords
  /\ attempt \in [Callers -> Attempts]

(* The loop pops k failures at the front of q and stops at the first one   *)
(* that still counts; an expired one behind it, appended late, stays.      *)
Pops(q, k) ==
  /\ k \in 0..Len(q)
  /\ \A i \in 1..k : q[i] > Window
  /\ k < Len(q) => q[k + 1] <= Window

Pruned(q, k) == SubSeq(q, k + 1, Len(q))

(* Mutant: one attempt too many is admitted.                               *)
UpToLimit(q) == Len(q) <= Limit

UnderLimit(q) == Len(q) < Limit

(* Mutant: a refused attempt counts, in place of the oldest failure.       *)
WithRefusal(q) == Append(Tail(q), 0)

(* A refused attempt leaves no trace.                                      *)
AfterRefusal(q) == q

(* Mutant: the time at which the failure expires is noted.                 *)
WithExpiry(q, age) == Append(q, age - Window - 1)

(* attempts.append(now), with the time at which the attempt began.         *)
WithFailure(q, age) == Append(q, age)

-----------------------------------------------------------------------------
LoginInit ==
  /\ failures = [client \in Clients |-> <<>>]
  /\ password \in Passwords
  /\ attempt = [c \in Callers |-> NoAttempt]

(* verify_login up to the limit: nothing in it takes long, and pruning a   *)
(* pruned deque does nothing, so it is one step.                           *)
Admit(c, client, guess, new) ==
  /\ ~Busy(c)
  /\ \E k \in 0..Len(failures[client]) :
       LET live == Pruned(failures[client], k) IN
       /\ Pops(failures[client], k)
       /\ UnderLimit(live)
       /\ failures' = [failures EXCEPT ![client] = live]
  /\ attempt' = [attempt EXCEPT ![c] =
       [step |-> "admitted", client |-> client, age |-> 0, guess |-> guess,
        new |-> new]]
  /\ UNCHANGED password

(* Too many failures: the password is not looked at.                       *)
Refuse(c, client) ==
  /\ ~Busy(c)
  /\ \E k \in 0..Len(failures[client]) :
       LET live == Pruned(failures[client], k) IN
       /\ Pops(failures[client], k)
       /\ ~UnderLimit(live)
       /\ failures' = [failures EXCEPT ![client] = AfterRefusal(live)]
  /\ UNCHANGED <<password, attempt>>

(* The credential file is read, and the guess compared with what it held.  *)
CheckPassword(c) ==
  /\ AtStep(c, "admitted")
  /\ Move(c, IF attempt[c].guess = password THEN "right" ELSE "wrong")
  /\ UNCHANGED <<failures, password>>

CountFailure(c) ==
  /\ AtStep(c, "wrong")
  /\ failures' = [failures EXCEPT ![attempt[c].client] =
                    WithFailure(@, attempt[c].age)]
  /\ Leave(c)
  /\ UNCHANGED password

(* A right password clears the failures; change_password goes on unless    *)
(* the new password is the current one.                                    *)
Succeed(c) ==
  /\ AtStep(c, "right")
  /\ failures' = [failures EXCEPT ![attempt[c].client] = <<>>]
  /\ IF attempt[c].new \in Passwords \ {attempt[c].guess}
       THEN Move(c, "changing")
       ELSE Leave(c)
  /\ UNCHANGED password

(* The new hash is computed and replaces the file (os.replace).            *)
ReplacePassword(c) ==
  /\ AtStep(c, "changing")
  /\ password' = attempt[c].new
  /\ Leave(c)
  /\ UNCHANGED failures

Tick ==
  /\ failures' = [client \in Clients |->
       [i \in 1..Len(failures[client]) |-> Older(failures[client][i])]]
  /\ attempt' = [c \in Callers |->
       IF Busy(c) THEN [attempt[c] EXCEPT !.age = Older(@)] ELSE NoAttempt]
  /\ UNCHANGED password

(* The failures are kept in memory only.                                   *)
RestartService ==
  /\ failures' = [client \in Clients |-> <<>>]
  /\ attempt' = [c \in Callers |-> NoAttempt]
  /\ UNCHANGED password

LoginNext ==
  \/ \E c \in Callers, client \in Clients :
       \/ \E guess \in Passwords, new \in Passwords \cup {NoPassword} :
            Admit(c, client, guess, new)
       \/ Refuse(c, client)
  \/ \E c \in Callers :
       CheckPassword(c) \/ CountFailure(c) \/ Succeed(c) \/ ReplacePassword(c)
  \/ Tick
  \/ RestartService

(* Time goes on.  No attempt needs to be made or to end.                   *)
LoginSpec == LoginInit /\ [][LoginNext]_loginVars /\ WF_loginVars(Tick)

-----------------------------------------------------------------------------
(* Attempts of a client whose outcome is not in its deque yet              *)
Pending(client) ==
  {c \in Callers : /\ AtStep(c, "admitted") \/ AtStep(c, "wrong")
                   /\ attempt[c].client = client}

(* Attempts that may still fail, with those that did, stay below the limit *)
(* up to one per thread: the check of the limit and the append are two     *)
(* steps (auth.py:81, 89), so every thread can pass the limit once with    *)
(* the last place free.                                                    *)
GuessesBounded ==
  \A client \in Clients :
    Len(failures[client]) + Cardinality(Pending(client))
      <= Limit - 1 + Cardinality(Callers)

LockedOut(client) ==
  \A k \in 0..Len(failures[client]) :
    Pops(failures[client], k) => ~UnderLimit(Pruned(failures[client], k))

(* A lockout ends, whatever the client goes on trying: attempts during the *)
(* lockout do not extend it, and neither do failures that are appended     *)
(* late or out of order (auth.py:79-82).                                   *)
LockoutEnds == \A client \in Clients : LockedOut(client) ~> ~LockedOut(client)
=============================================================================
