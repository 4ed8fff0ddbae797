------------------------------- MODULE Timeval --------------------------------
(***************************************************************************)
(* Arithmetic on struct timeval, mock/time/timeval.cpp. The kernel code    *)
(* under test links these functions; times that a mock hands out are       *)
(* added, subtracted and compared with them. time_t is wide enough for     *)
(* every time a test uses and is an unbounded integer here.                *)
(***************************************************************************)
EXTENDS Integers

CONSTANT UsecPerSec  \* 1000000

ASSUME TimevalAssumption == UsecPerSec \in Nat \ {0}

Timeval == [tv_sec : Int, tv_usec : Int]

\* Two corrections by one second each, one after the other.
timevalfix(t) ==
  LET up == IF t.tv_usec < 0
            THEN [tv_sec |-> t.tv_sec - 1, tv_usec |-> t.tv_usec + UsecPerSec]
            ELSE t
  IN  IF up.tv_usec >= UsecPerSec
      THEN [tv_sec |-> up.tv_sec + 1, tv_usec |-> up.tv_usec - UsecPerSec]
      ELSE up

timevaladd(a, b) ==
  timevalfix([tv_sec |-> a.tv_sec + b.tv_sec, tv_usec |-> a.tv_usec + b.tv_usec])

timevalsub(a, b) ==
  timevalfix([tv_sec |-> a.tv_sec - b.tv_sec, tv_usec |-> a.tv_usec - b.tv_usec])

\* timevalcmp(a, b, >=), a macro of the kernel header.
NotBefore(a, b) ==
  a.tv_sec > b.tv_sec \/ (a.tv_sec = b.tv_sec /\ a.tv_usec >= b.tv_usec)

\* What a timeval stands for, and the one representation it should have.
Micros(t)   == t.tv_sec * UsecPerSec + t.tv_usec
IsNormal(t) == t \in Timeval /\ t.tv_usec \in 0..(UsecPerSec - 1)
=============================================================================
