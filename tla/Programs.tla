---------------------------- MODULE Programs ----------------------------
(***************************************************************************)
(* The vocabulary in which the drivers are written down.                   *)
(*                                                                         *)
(* A driver method is, for the instrument at the other end of the line, a  *)
(* short program: enter a section of the transport, send, ask, read the    *)
(* instrument's error queue, leave.  A driver is a function from its       *)
(* methods to the sets of programs they may run (a set, because an         *)
(* argument may decide).  What the commands say and what the values are is *)
(* left out; every lock, guard, refusal, exchange and error check stays,   *)
(* in the order of the code.  Module Bench gives the steps their meaning:  *)
(*                                                                         *)
(*   "args"         the arguments are examined: the call may raise here    *)
(*   "unsupported"  the method raises, whatever the arguments              *)
(*   "lock" "unlock"  the transport's section (with self._visa.lock())     *)
(*   "take" "drop"    the facade's self._resource_lock                     *)
(*   "try" "settle"   the facade's open(): a failure between them closes   *)
(*   "connect" "hangUp"  the transport is opened, is closed (also by a     *)
(*                  close() that has raised before)                        *)
(*   "write"        a command that the instrument may refuse               *)
(*   "query"        a question, or any exchange that answers               *)
(*   "hush"         an exchange whose failure is swallowed                 *)
(*   "undo"         as "hush", after a "try" and only if that has failed   *)
(*   "finally"      an exchange of a finally clause, after its "enter"     *)
(*   "select"       the channel, source or function to work on is selected *)
(*   "reselect"     as "select", unless the driver believes it in force    *)
(*   "act"          an exchange that works on whatever is selected         *)
(*   "measure"      a question that selects its function and answers it    *)
(*   "sample"       a reading in whatever function is in force             *)
(*   "check"        the oldest entry of the error queue: raises if there   *)
(*   "drain"        every entry of the error queue: raises if there were   *)
(*   "clear"        the error queue is emptied                             *)
(*   "half" "whole"   a sequence that nobody is to see half done           *)
(*   "ready"        the end of an open() that succeeds                     *)
(*   "ensure" "adopt" "follow" "name"  the multimeter facade's memory of   *)
(*                  the function in force (see module Multimeters)         *)
(*   "return"       the end of every call                                  *)
(***************************************************************************)
EXTENDS Sequences, TLC

\* One program for each of the methods in S; one of several for each.
On(S, program) == [method \in S |-> {program}]
OneOf(S, programs) == [method \in S |-> programs]

\* with self._visa.lock(): ...
Section(program) == <<"lock">> \o program \o <<"unlock">>

\* The shape of every _write_checked and _query_checked: the exchange and
\* the reading of the error queue in one section of the transport.
Checked(program) == Section(program \o <<"check">>)

Refused == <<"unsupported">>

\* The programs of a driver for the methods in S.  A method the driver does
\* not define is the base class's, which refuses.
Of(driver, S) ==
    UNION {IF method \in DOMAIN driver THEN driver[method] ELSE {Refused} : method \in S}

\* A driver's method called by its holder, with no facade in between.
Bare(driver) ==
    {program \o <<"return">> :
        program \in UNION {driver[method] : method \in DOMAIN driver \ {"open", "close"}}}

\* A facade's method: the driver is called with the resource lock held.
Guarded(program) == <<"take">> \o program \o <<"drop", "return">>

\* One program after another, for every choice of the two.
Then(first, second) == {p \o q : p \in first, q \in second}

\* An open() of the driver, and a close().
Opening(program) == {<<"connect">> \o program \o <<"ready", "return">>}
Closing(program) == {program \o <<"hangUp", "return">>}
=============================================================================
