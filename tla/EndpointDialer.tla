---------------------------- MODULE EndpointDialer ----------------------------
(***************************************************************************)
(* Deterministic choice of the socket address for each connection attempt  *)
(* (`EndpointDialer`, held by the reactor as `AddressRotation`).           *)
(*                                                                         *)
(* Addresses are the positions 0 .. size-1 of the resolver's answer.  A    *)
(* directly configured broker has size 0 here: it has one address, never   *)
(* rotates and never asks for resolution.                                  *)
(*                                                                         *)
(* missed is a history of the model: the addresses that failed as a        *)
(* candidate since the last ready connection or resolver answer.           *)
(***************************************************************************)
EXTENDS Integers

NewDialer(size) ==
    [size |-> size, next |-> 0, failures |-> 0, phase |-> "Idle",
     selected |-> 0, missed |-> {}]

IsDirect(d) == d.size = 0

\* AddressRotation::next finds no address unless the dialer is idle.
HasCandidate(d) == IsDirect(d) \/ d.phase = "Idle"

OpenCandidate(d) ==
    IF IsDirect(d) \/ d.phase # "Idle" THEN d
    ELSE [d EXCEPT !.next = (d.next + 1) % d.size, !.phase = "Candidate",
                   !.selected = d.next]

DialReady(d) ==
    IF d.phase # "Candidate" THEN d
    ELSE [d EXCEPT !.failures = 0, !.phase = "Connected", !.missed = {}]

\* Variant: the pass is considered complete one address early.
PassExhaustedEarly(d) == d.phase = "Candidate" /\ d.failures + 2 >= d.size

\* The failure of this candidate would complete a pass over every address.
PassExhausted(d) == d.phase = "Candidate" /\ d.failures + 1 >= d.size

\* The address of a lost connection is tried first again; a failed candidate
\* has already handed over to its successor.
DialFailed(d) ==
    CASE d.phase = "Connected" ->
            [d EXCEPT !.next = d.selected, !.failures = 0, !.phase = "Idle",
                      !.selected = 0]
      [] d.phase = "Candidate" ->
            [d EXCEPT !.failures = IF PassExhausted(d) THEN 0 ELSE @ + 1,
                      !.phase = "Idle", !.selected = 0,
                      !.missed = @ \cup {d.selected}]
      [] OTHER -> d
===============================================================================
