------------------------------ MODULE TurnGuard ------------------------------
(***************************************************************************)
(* The duplicate-turn guard of api/chat.py: an in-process table, keyed by  *)
(* session, that decides whether a customer frame may start a turn.        *)
(*                                                                         *)
(* A session may have several connections (the relay reconnects while the  *)
(* old socket is still open); each runs its turns one after the other, and *)
(* a turn suspends at its awaits, so turns of two connections interleave.  *)
(* Times are kept as ages, which stop growing once they are past every     *)
(* limit they are compared with.                                           *)
(*                                                                         *)
(* An operator marked "a mutant" is a slip in the definition after it that *)
(* a property below must detect; the specification does not use it.        *)
(***************************************************************************)
EXTENDS Integers, FiniteSets

CONSTANTS
    Sessions,
    Conns,          \* connections, which serve one session each
    SessionOf,      \* SessionOf[c]: the session_id c was opened for
    Fingerprints,   \* the distinct frames a customer sends
    Media,          \* those that are fetched or transcribed before the turn proper
    Tokens,         \* object identities
    TurnTimeout,    \* _TURN_TIMEOUT_S
    Margin,         \* the 30 s of _TURN_GUARD_MAX_HOLD_S
    Window,         \* _DUPLICATE_ECHO_WINDOW_S
    MaxEntries,     \* _TURN_GUARD_MAX_ENTRIES
    NoEntry,        \* no guard entry, no turn, nothing answered
    NoTurn,
    Nothing

MaxHold == TurnTimeout + Margin

ASSUME SessionAssumption == SessionOf \in [Conns -> Sessions]
ASSUME FrameAssumption == Media \subseteq Fingerprints
ASSUME TimeAssumption ==
    /\ TurnTimeout \in Nat /\ Margin \in Nat /\ Window \in Nat
    /\ Window <= MaxHold
ASSUME EntriesAssumption == MaxEntries \in Nat

Ages == 0 .. MaxHold + 1

(* _TurnGuard; age is counted from started_at while in flight, and from
   finished_at afterwards. *)
Entries == [fingerprint : Fingerprints, token : Tokens, inFlight : BOOLEAN, age : Ages]

(* age is counted from the turn's start, answerAge from the start of its
   _run_turn. standing is a ghost: "current" until another turn of the session
   begins ("overtaken") or _end_session drops the entry ("evicted"). *)
Turns == [fingerprint : Fingerprints, token : Tokens, age : Ages,
          phase : {"media", "answering", "after"}, answerAge : Ages,
          standing : {"current", "overtaken", "evicted"}]

Answers == [fingerprint : Fingerprints, age : Ages]

ASSUME NoneAssumption == NoEntry \notin Entries /\ NoTurn \notin Turns /\ Nothing \notin Answers

VARIABLES
    guards,   \* _turn_guards
    turns,    \* turns[c]: the turn connection c is in, if any
    last      \* ghost, last[s]: the latest turn of s, once it is answered

vars == <<guards, turns, last>>

TypeOK ==
    /\ guards \in [Sessions -> Entries \cup {NoEntry}]
    /\ turns \in [Conns -> Turns \cup {NoTurn}]
    /\ last \in [Sessions -> Answers \cup {Nothing}]

Init ==
    /\ guards = [s \in Sessions |-> NoEntry]
    /\ turns = [c \in Conns |-> NoTurn]
    /\ last = [s \in Sessions |-> Nothing]

InTurn(c) == turns[c] # NoTurn
On(s) == {c \in Conns : SessionOf[c] = s /\ InTurn(c)}
Entered(s) == guards[s] # NoEntry

-----------------------------------------------------------------------------
(* _try_begin_turn. *)

HeldNever(s) == FALSE                                       \* a mutant
HeldPastMargin(s) == Entered(s) /\ guards[s].inFlight /\ guards[s].age > Margin  \* a mutant
HeldTooLong(s) == Entered(s) /\ guards[s].inFlight /\ guards[s].age > MaxHold

InFlight(s) == Entered(s) /\ guards[s].inFlight /\ ~HeldTooLong(s)

IsEcho(s, f) ==
    /\ Entered(s) /\ ~guards[s].inFlight
    /\ guards[s].fingerprint = f
    /\ guards[s].age <= Window

Admits(s, f) == ~InFlight(s) /\ ~IsEcho(s, f)

Sweepable(s) == Entered(s) /\ ~guards[s].inFlight /\ guards[s].age > Window

Swept ==
    IF Cardinality({s \in Sessions : Entered(s)}) > MaxEntries
    THEN [s \in Sessions |-> IF Sweepable(s) THEN NoEntry ELSE guards[s]]
    ELSE guards

(* object(): an identity no live reference has. *)
Fresh(t) ==
    /\ \A s \in Sessions : Entered(s) => guards[s].token # t
    /\ \A c \in Conns : InTurn(c) => turns[c].token # t

Overtaken(s) ==
    [c \in Conns |->
        IF c \in On(s) /\ turns[c].standing = "current"
        THEN [turns[c] EXCEPT !.standing = "overtaken"]
        ELSE turns[c]]

(* A frame arrives on c, is admitted, and its turn starts; a frame that is not
   admitted is dropped and changes nothing. *)
BeginTurn(c, f, t) ==
    LET s == SessionOf[c] IN
    /\ ~InTurn(c)
    /\ Admits(s, f)
    /\ Fresh(t)
    /\ guards' = [Swept EXCEPT ![s] =
          [fingerprint |-> f, token |-> t, inFlight |-> TRUE, age |-> 0]]
    /\ turns' = [Overtaken(s) EXCEPT ![c] =
          [fingerprint |-> f, token |-> t, age |-> 0, answerAge |-> 0,
           phase |-> IF f \in Media THEN "media" ELSE "answering",
           standing |-> "current"]]
    /\ last' = [last EXCEPT ![s] = Nothing]

-----------------------------------------------------------------------------
(* The turn. *)

(* A voice note or picture has been fetched, stored and transcribed. *)
StartAnswer(c) ==
    /\ InTurn(c) /\ turns[c].phase = "media"
    /\ turns' = [turns EXCEPT ![c].phase = "answering"]
    /\ UNCHANGED <<guards, last>>

(* _run_turn returns, raises or times out; the reply, the webhooks and possibly
   the whole of _run_human_mode are still to come. *)
EndAnswer(c) ==
    /\ InTurn(c) /\ turns[c].phase = "answering"
    /\ turns' = [turns EXCEPT ![c].phase = "after", ![c].answerAge = 0]
    /\ UNCHANGED <<guards, last>>

-----------------------------------------------------------------------------
(* _end_turn, in a finally: reached from every phase. *)

OwnsAny(s, t) == Entered(s)                                 \* a mutant
Owns(s, t) == Entered(s) /\ guards[s].token = t

ReleasedUnstamped(e) == [e EXCEPT !.inFlight = FALSE]          \* a mutant
Released(e) == [e EXCEPT !.inFlight = FALSE, !.age = 0]

EndTurn(c) ==
    LET s == SessionOf[c] IN
    /\ InTurn(c)
    /\ guards' = IF Owns(s, turns[c].token)
                 THEN [guards EXCEPT ![s] = Released(guards[s])]
                 ELSE guards
    /\ turns' = [turns EXCEPT ![c] = NoTurn]
    /\ last' = IF turns[c].standing = "current"
               THEN [last EXCEPT ![s] = [fingerprint |-> turns[c].fingerprint, age |-> 0]]
               ELSE last

(* _end_session, from a turn, another connection or the agent's socket. *)
EndSession(s) ==
    /\ guards' = [guards EXCEPT ![s] = NoEntry]
    /\ turns' = [c \in Conns |->
                    IF c \in On(s) THEN [turns[c] EXCEPT !.standing = "evicted"]
                    ELSE turns[c]]
    /\ last' = [last EXCEPT ![s] = Nothing]

(* The process dies: the table and the sockets go with it. *)
Restart ==
    /\ guards' = [s \in Sessions |-> NoEntry]
    /\ turns' = [c \in Conns |-> NoTurn]
    /\ last' = [s \in Sessions |-> Nothing]

-----------------------------------------------------------------------------
Older(n) == IF n > MaxHold THEN n ELSE n + 1

(* Time passes; wait_for ends a _run_turn after TurnTimeout. *)
Tick ==
    /\ \A c \in Conns : InTurn(c) /\ turns[c].phase = "answering" => turns[c].answerAge < TurnTimeout
    /\ guards' = [s \in Sessions |->
          IF Entered(s) THEN [guards[s] EXCEPT !.age = Older(@)] ELSE guards[s]]
    /\ turns' = [c \in Conns |->
          IF ~InTurn(c) THEN turns[c]
          ELSE [turns[c] EXCEPT !.age = Older(@),
                    !.answerAge = IF turns[c].phase = "answering" THEN @ + 1 ELSE @]]
    /\ last' = [s \in Sessions |->
          IF last[s] # Nothing THEN [last[s] EXCEPT !.age = Older(@)] ELSE last[s]]

Next ==
    \/ \E c \in Conns, f \in Fingerprints, t \in Tokens : BeginTurn(c, f, t)
    \/ \E c \in Conns : StartAnswer(c) \/ EndAnswer(c) \/ EndTurn(c)
    \/ \E s \in Sessions : EndSession(s)
    \/ Restart
    \/ Tick

Spec == Init /\ [][Next]_vars

(* wait_for bounds _run_turn, and time passes. Nothing makes a turn end, a
   customer write or an operator end the session. *)
FairSpec ==
    /\ Spec
    /\ WF_vars(Tick)
    /\ \A c \in Conns : WF_vars(EndAnswer(c))

-----------------------------------------------------------------------------
(* Properties. *)

Begins(c) == ~InTurn(c) /\ turns'[c] # NoTurn

(* A turn starts while another turn of its session is running only if that one
   has been running for longer than MaxHold, or its session was ended: neither
   the table's sweep, nor a slow turn's late _end_turn, nor a turn on another
   connection lets a second one in (_try_begin_turn, Part A, and the token). *)
NoEarlyOverlap ==
    [][\A c \in Conns : Begins(c) =>
          \A d \in On(SessionOf[c]) \ {c} :
              turns[d].standing # "evicted" => turns[d].age > MaxHold]_vars

(* The reply to one text frame is never produced while that to another is: a
   _run_turn is cut off before the guard can be taken over. The exception is a
   frame whose media took so long that its turn outlived MaxHold. *)
OneAnswerAtATime ==
    \A c, d \in Conns :
        (/\ c # d
         /\ InTurn(c) /\ InTurn(d)
         /\ SessionOf[c] = SessionOf[d]
         /\ turns[c].phase = "answering" /\ turns[d].phase = "answering"
         /\ turns[c].standing # "evicted" /\ turns[d].standing # "evicted")
        => \E e \in {c, d} : turns[e].fingerprint \in Media /\ turns[e].age > MaxHold

(* A repeat of the frame answered last, on this or another connection, starts no
   turn within Window of that answer, however many sessions the table holds and
   whatever overtaken turns finish in between (_try_begin_turn, Part B). *)
NoEcho ==
    [][\A c \in Conns : Begins(c) =>
          LET done == last[SessionOf[c]] IN
          ~(/\ done # Nothing
            /\ done.age <= Window
            /\ turns'[c].fingerprint = done.fingerprint)]_vars

(* "must not permanently wedge the session": whatever a turn does, the time comes
   again when a new frame would be let in. *)
NeverWedged == \A s \in Sessions : []<>(\E f \in Fingerprints : Admits(s, f))
=============================================================================
