------------------------------ MODULE Transport ------------------------------
(***************************************************************************)
(* Shared ownership of a connection (instro/lib/transports/                *)
(* transport_base.py): opened by the first owner, torn down by the last.   *)
(*                                                                         *)
(* open() and close() run under the transport's reentrant lock from end to *)
(* end, so each is one step.  A caller may pass itself as a holder or, on  *)
(* a transport it thinks is its own, pass nothing (a "bare" call).         *)
(***************************************************************************)
EXTENDS Naturals

CONSTANTS Holders   \* the objects (drivers, devices) that may own the transport

VARIABLES
    holders,    \* _holders: current owners.  Told apart by identity, so a set
    session,    \* is_open: a session (VISA resource, pymodbus client) exists
    firsts      \* history: how many owners of the session that is up were told
                \* by open(holder) -> True that they are its first

transportVars == <<holders, session, firsts>>

TransportTypeOK ==
    /\ holders \in SUBSET Holders
    /\ session \in BOOLEAN
    /\ firsts \in Nat

TransportInit ==
    /\ holders = {}
    /\ session = FALSE
    /\ firsts = 0

\* _open_session is idempotent; connecting may fail, and leaves nothing behind.
OpenSession(connects) == session' = (session \/ connects)

BareOpen(connects) == OpenSession(connects) /\ UNCHANGED <<holders, firsts>>

\* Faulty: a repeated open() by the only owner is "first" again.
OpenForgetsRepeat(h, connects) ==
    /\ OpenSession(connects) /\ session'
    /\ holders' = holders \cup {h}
    /\ firsts' = IF holders' = {h} THEN firsts + 1 ELSE firsts

\* open(holder): a repeat changes nothing; a new holder is admitted only after
\* the session is up, and told whether it is the first.
Open(h, connects) ==
    \/ h \in holders /\ UNCHANGED transportVars
    \/ /\ h \notin holders
       /\ OpenSession(connects)
       /\ IF ~session'
          THEN UNCHANGED <<holders, firsts>>
          ELSE /\ holders' = holders \cup {h}
               /\ firsts' = IF holders = {} THEN firsts + 1 ELSE firsts

TeardownSession == session' = FALSE /\ firsts' = 0

\* close() with no holder declines while anybody owns the session.
BareClose ==
    \/ holders # {} /\ UNCHANGED transportVars
    \/ holders = {} /\ TeardownSession /\ UNCHANGED holders

\* close(holder): one that owns nothing gets an error while others own the
\* session, and is ignored otherwise.
Close(h) ==
    \/ h \notin holders /\ UNCHANGED transportVars
    \/ /\ h \in holders
       /\ holders' = holders \ {h}
       /\ IF holders' # {} THEN UNCHANGED <<session, firsts>> ELSE TeardownSession

TransportNext ==
    \/ \E connects \in BOOLEAN : BareOpen(connects)
    \/ \E h \in Holders, connects \in BOOLEAN : Open(h, connects)
    \/ BareClose
    \/ \E h \in Holders : Close(h)

TransportSpec == TransportInit /\ [][TransportNext]_transportVars

-----------------------------------------------------------------------------
(* Properties *)

\* No owner ever loses its session to somebody else's close, failed open or
\* bare close.
HeldMeansOpen == holders # {} => session

\* Exactly one owner of a session was told that it is the first, so one-time
\* device setup runs once per session, whatever bare calls, repeated opens and
\* failed connects come in between.
OneFirstOwner == firsts = IF holders = {} THEN 0 ELSE 1
=============================================================================
