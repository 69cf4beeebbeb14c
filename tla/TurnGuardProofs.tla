-------------------------- MODULE TurnGuardProofs --------------------------
(* Proofs about TurnGuard, for any number of sessions, connections and
   frames and any timeouts. *)
EXTENDS TurnGuard, TLAPS

(* No two running turns hold the same token. *)
DistinctTokens ==
    \A c, d \in Conns : c # d /\ InTurn(c) /\ InTurn(d) => turns[c].token # turns[d].token

(* A turn no other turn has overtaken and no _end_session has evicted owns the
   entry of its session, which is as old as the turn. *)
OwnsEntry(c) ==
    LET s == SessionOf[c] IN
    /\ Entered(s)
    /\ guards[s].inFlight = TRUE
    /\ guards[s].token = turns[c].token
    /\ guards[s].fingerprint = turns[c].fingerprint
    /\ guards[s].age = turns[c].age

CurrentOwns == \A c \in Conns : InTurn(c) /\ turns[c].standing = "current" => OwnsEntry(c)

(* Every other turn owns nothing: its _end_turn changes no entry. *)
StaleDisowned ==
    \A c \in Conns : InTurn(c) /\ turns[c].standing # "current"
        => ~Owns(SessionOf[c], turns[c].token)

OvertakenIsOld ==
    \A c \in Conns : InTurn(c) /\ turns[c].standing = "overtaken" => turns[c].age > MaxHold

(* A text frame's turn is as old as its _run_turn, which wait_for bounds. *)
AnswerBounded ==
    \A c \in Conns : InTurn(c) =>
        /\ turns[c].phase = "media" => turns[c].fingerprint \in Media
        /\ (turns[c].phase = "answering" /\ turns[c].fingerprint \notin Media) =>
              turns[c].age = turns[c].answerAge
        /\ turns[c].phase = "answering" => turns[c].answerAge <= TurnTimeout
        /\ turns[c].phase = "media" => turns[c].answerAge = 0

(* While the echo window of the last answer is open, the entry remembers it. *)
Remembers(s) ==
    /\ Entered(s)
    /\ guards[s].inFlight = FALSE
    /\ guards[s].fingerprint = last[s].fingerprint
    /\ guards[s].age = last[s].age

LastRemembered ==
    \A s \in Sessions : last[s] # Nothing /\ last[s].age <= Window => Remembers(s)

IInv ==
    /\ TypeOK
    /\ DistinctTokens
    /\ CurrentOwns
    /\ StaleDisowned
    /\ OvertakenIsOld
    /\ AnswerBounded
    /\ LastRemembered

-----------------------------------------------------------------------------
(* Typing. *)

LEMMA MaxHoldType == MaxHold \in Nat /\ TurnTimeout <= MaxHold
BY TimeAssumption DEF MaxHold

LEMMA OlderType ==
    ASSUME NEW n \in Ages
    PROVE  /\ Older(n) \in Ages
           /\ Older(n) >= n
           /\ n <= MaxHold => Older(n) = n + 1
           /\ n > MaxHold => Older(n) = n
BY MaxHoldType DEF Older, Ages

LEMMA AgeFacts ==
    /\ 0 \in Ages
    /\ \A n \in Ages : n < TurnTimeout => n + 1 \in Ages /\ n + 1 <= TurnTimeout
BY MaxHoldType, TimeAssumption DEF Ages

(* The initial state satisfies the invariant (no session has an entry). *)
LEMMA InitInv == Init => IInv
BY DEF Init, IInv, TypeOK, DistinctTokens, CurrentOwns, StaleDisowned, OvertakenIsOld,
       AnswerBounded, LastRemembered, InTurn

LEMMA TurnType ==
    ASSUME TypeOK, NEW c \in Conns, InTurn(c)
    PROVE  turns[c] \in Turns
BY DEF TypeOK, InTurn

LEMMA EntryType ==
    ASSUME TypeOK, NEW s \in Sessions, Entered(s)
    PROVE  guards[s] \in Entries
BY DEF TypeOK, Entered

(* The table after the sweep: an entry is kept as it was or is gone, and it is
   gone only if no turn is in flight and its echo window is over. *)
LEMMA SweptEntries ==
    ASSUME TypeOK
    PROVE  /\ Swept \in [Sessions -> Entries \cup {NoEntry}]
           /\ \A s \in Sessions : Swept[s] = guards[s] \/ (Swept[s] = NoEntry /\ Sweepable(s))
BY DEF Swept, TypeOK

(* Every step keeps the variables in their types. *)
LEMMA TypeStep == ASSUME TypeOK, AnswerBounded, [Next]_vars PROVE TypeOK'
<1>1. ASSUME NEW c \in Conns, NEW f \in Fingerprints, NEW t \in Tokens, BeginTurn(c, f, t)
      PROVE  TypeOK'
  <2> DEFINE s == SessionOf[c]
  <2>0. s \in Sessions
    BY SessionAssumption
  <2>1. guards' \in [Sessions -> Entries \cup {NoEntry}]
    <3>1. [fingerprint |-> f, token |-> t, inFlight |-> TRUE, age |-> 0] \in Entries
      BY MaxHoldType DEF Entries, Ages
    <3>2. QED
      BY <1>1, <2>0, <3>1, SweptEntries DEF BeginTurn
  <2>2. turns' \in [Conns -> Turns \cup {NoTurn}]
    <3>1. Overtaken(s) \in [Conns -> Turns \cup {NoTurn}]
      <4>1. ASSUME NEW d \in Conns, d \in On(s)
            PROVE  [turns[d] EXCEPT !.standing = "overtaken"] \in Turns
        BY <4>1, TurnType DEF On, Turns
      <4>2. QED
        BY <4>1 DEF Overtaken, TypeOK
    <3>2. [fingerprint |-> f, token |-> t, age |-> 0, answerAge |-> 0,
           phase |-> IF f \in Media THEN "media" ELSE "answering",
           standing |-> "current"] \in Turns
      BY MaxHoldType DEF Turns, Ages
    <3>3. QED
      BY <1>1, <3>1, <3>2 DEF BeginTurn
  <2>3. last' \in [Sessions -> Answers \cup {Nothing}]
    BY <1>1 DEF BeginTurn, TypeOK
  <2>4. QED
    BY <2>1, <2>2, <2>3 DEF TypeOK
<1>2. ASSUME NEW c \in Conns, StartAnswer(c) \/ EndAnswer(c)
      PROVE  TypeOK'
  <2>1. turns[c] \in Turns
    BY <1>2, TurnType DEF StartAnswer, EndAnswer
  <2>2. /\ [turns[c] EXCEPT !.phase = "answering"] \in Turns
        /\ [turns[c] EXCEPT !.phase = "after", !.answerAge = 0] \in Turns
    BY <2>1, AgeFacts DEF Turns
  <2>3. QED
    BY <1>2, <2>2 DEF TypeOK, StartAnswer, EndAnswer
<1>3. ASSUME NEW c \in Conns, EndTurn(c)
      PROVE  TypeOK'
  <2> DEFINE s == SessionOf[c]
  <2>0. s \in Sessions /\ turns[c] \in Turns
    BY <1>3, SessionAssumption, TurnType DEF EndTurn
  <2>1. ASSUME Entered(s) PROVE Released(guards[s]) \in Entries
    BY <2>0, <2>1, EntryType, AgeFacts DEF Released, Entries
  <2>2. guards' \in [Sessions -> Entries \cup {NoEntry}]
    BY <1>3, <2>0, <2>1 DEF EndTurn, Owns, TypeOK
  <2>3. [fingerprint |-> turns[c].fingerprint, age |-> 0] \in Answers
    BY <2>0, AgeFacts DEF Turns, Answers
  <2>4. last' \in [Sessions -> Answers \cup {Nothing}]
    BY <1>3, <2>3 DEF EndTurn, TypeOK
  <2>5. turns' \in [Conns -> Turns \cup {NoTurn}]
    BY <1>3 DEF EndTurn, TypeOK
  <2>6. QED
    BY <2>2, <2>4, <2>5 DEF TypeOK
<1>4. ASSUME NEW s \in Sessions, EndSession(s)
      PROVE  TypeOK'
  <2>1. ASSUME NEW c \in On(s)
        PROVE  [turns[c] EXCEPT !.standing = "evicted"] \in Turns
    BY TurnType DEF On, Turns
  <2>2. QED
    BY <1>4, <2>1 DEF EndSession, TypeOK
<1>5. CASE Restart
  BY <1>5 DEF Restart, TypeOK
<1>6. CASE Tick
  <2>1. ASSUME NEW s \in Sessions, Entered(s)
        PROVE  [guards[s] EXCEPT !.age = Older(@)] \in Entries
    BY <2>1, EntryType, OlderType DEF Entries
  <2>2. ASSUME NEW s \in Sessions, last[s] # Nothing
        PROVE  [last[s] EXCEPT !.age = Older(@)] \in Answers
    BY <2>2, OlderType DEF TypeOK, Answers
  <2>3. ASSUME NEW c \in Conns, InTurn(c)
        PROVE  [turns[c] EXCEPT !.age = Older(@),
                  !.answerAge = IF turns[c].phase = "answering" THEN @ + 1 ELSE @] \in Turns
    <3>1. turns[c] \in Turns
      BY <2>3, TurnType
    <3>2. Older(turns[c].age) \in Ages
      BY <3>1, OlderType DEF Turns
    <3>3. turns[c].phase = "answering" => turns[c].answerAge + 1 \in Ages
      BY <1>6, <2>3, <3>1, AgeFacts DEF Tick, Turns
    <3>4. QED
      BY <3>1, <3>2, <3>3 DEF Turns
  <2>4. QED
    BY <1>6, <2>1, <2>2, <2>3 DEF Tick, TypeOK
<1>7. CASE UNCHANGED vars
  BY <1>7 DEF vars, TypeOK
<1>8. QED
  BY <1>1, <1>2, <1>3, <1>4, <1>5, <1>6, <1>7 DEF Next
-----------------------------------------------------------------------------
(* The invariant is kept, action by action. *)

(* Admission: whatever the session's current turn is, it is past MaxHold. *)
LEMMA AdmittedIsOld ==
    ASSUME IInv, NEW s \in Sessions, NEW f, Admits(s, f),
           NEW d \in On(s), turns[d].standing # "evicted"
    PROVE  turns[d].age > MaxHold
<1>0. d \in Conns /\ InTurn(d) /\ SessionOf[d] = s /\ turns[d] \in Turns
  BY TurnType DEF On, IInv
<1>1. CASE turns[d].standing = "current"
  BY <1>0, <1>1 DEF IInv, CurrentOwns, OwnsEntry, Admits, InFlight, HeldTooLong
<1>2. CASE turns[d].standing = "overtaken"
  BY <1>0, <1>2 DEF IInv, OvertakenIsOld
<1>3. QED
  BY <1>0, <1>1, <1>2 DEF Turns

(* What a new turn's start does to the turns. *)
LEMMA BeginTurns ==
    ASSUME IInv, NEW c \in Conns, NEW f \in Fingerprints, NEW t \in Tokens,
           BeginTurn(c, f, t)
    PROVE  /\ InTurn(c)' /\ turns'[c].token = t /\ turns'[c].standing = "current"
           /\ turns'[c].fingerprint = f /\ turns'[c].age = 0 /\ turns'[c].answerAge = 0
           /\ turns'[c].phase = IF f \in Media THEN "media" ELSE "answering"
           /\ \A d \in Conns \ {c} :
                 /\ InTurn(d)' <=> InTurn(d)
                 /\ InTurn(d) =>
                      /\ turns'[d].token = turns[d].token
                      /\ turns'[d].fingerprint = turns[d].fingerprint
                      /\ turns'[d].age = turns[d].age
                      /\ turns'[d].answerAge = turns[d].answerAge
                      /\ turns'[d].phase = turns[d].phase
                      /\ turns'[d].standing =
                            IF SessionOf[d] = SessionOf[c] /\ turns[d].standing = "current"
                            THEN "overtaken" ELSE turns[d].standing
<1> DEFINE new == [fingerprint |-> f, token |-> t, age |-> 0, answerAge |-> 0,
                   phase |-> IF f \in Media THEN "media" ELSE "answering",
                   standing |-> "current"]
<1>1. new # NoTurn
  <2>1. new \in Turns
    BY AgeFacts DEF Turns
  <2>2. QED
    BY <2>1, NoneAssumption
<1>2. turns'[c] = new
  BY DEF BeginTurn, Overtaken
<1>3. \A d \in Conns \ {c} : turns'[d] = Overtaken(SessionOf[c])[d]
  BY DEF BeginTurn, Overtaken
<1>4. ASSUME NEW d \in Conns \ {c}, InTurn(d)
      PROVE  /\ turns[d] \in Turns
             /\ [turns[d] EXCEPT !.standing = "overtaken"] \in Turns
  BY <1>4, TurnType DEF IInv, Turns
<1>5. \A d \in Conns \ {c} : InTurn(d) => turns'[d] # NoTurn
  BY <1>3, <1>4, NoneAssumption DEF Overtaken
<1>6. \A d \in Conns \ {c} : ~InTurn(d) => turns'[d] = NoTurn
  BY <1>3 DEF Overtaken, On, InTurn
<1>7. ASSUME NEW d \in Conns \ {c}, InTurn(d)
      PROVE  turns'[d] = IF SessionOf[d] = SessionOf[c] /\ turns[d].standing = "current"
                         THEN [turns[d] EXCEPT !.standing = "overtaken"] ELSE turns[d]
  BY <1>3, <1>7 DEF Overtaken, On
<1>8. ASSUME NEW d \in Conns \ {c}, InTurn(d)
      PROVE  /\ turns'[d].token = turns[d].token
             /\ turns'[d].fingerprint = turns[d].fingerprint
             /\ turns'[d].age = turns[d].age
             /\ turns'[d].answerAge = turns[d].answerAge
             /\ turns'[d].phase = turns[d].phase
             /\ turns'[d].standing =
                   IF SessionOf[d] = SessionOf[c] /\ turns[d].standing = "current"
                   THEN "overtaken" ELSE turns[d].standing
  BY <1>4, <1>7, <1>8 DEF Turns
<1>9. QED
  BY <1>1, <1>2, <1>5, <1>6, <1>8 DEF InTurn

(* What it does to the table. *)
LEMMA BeginGuards ==
    ASSUME IInv, NEW c \in Conns, NEW f \in Fingerprints, NEW t \in Tokens,
           BeginTurn(c, f, t)
    PROVE  /\ Entered(SessionOf[c])'
           /\ guards'[SessionOf[c]].inFlight = TRUE
           /\ guards'[SessionOf[c]].token = t
           /\ guards'[SessionOf[c]].fingerprint = f
           /\ guards'[SessionOf[c]].age = 0
           /\ \A s \in Sessions \ {SessionOf[c]} :
                 guards'[s] = guards[s] \/ (guards'[s] = NoEntry /\ Sweepable(s))
<1>0. SessionOf[c] \in Sessions
  BY SessionAssumption
<1>1. [fingerprint |-> f, token |-> t, inFlight |-> TRUE, age |-> 0] \in Entries
  BY AgeFacts DEF Entries
<1>2. guards'[SessionOf[c]] = [fingerprint |-> f, token |-> t, inFlight |-> TRUE, age |-> 0]
  BY <1>0, SweptEntries DEF BeginTurn, IInv
<1>3. \A s \in Sessions \ {SessionOf[c]} :
         guards'[s] = guards[s] \/ (guards'[s] = NoEntry /\ Sweepable(s))
  BY <1>0, SweptEntries DEF BeginTurn, IInv
<1>4. guards'[SessionOf[c]] # NoEntry
  BY <1>1, <1>2, NoneAssumption
<1>5. /\ guards'[SessionOf[c]].inFlight = TRUE
      /\ guards'[SessionOf[c]].token = t
      /\ guards'[SessionOf[c]].fingerprint = f
      /\ guards'[SessionOf[c]].age = 0
  BY <1>2
<1>6. QED
  BY <1>3, <1>4, <1>5 DEF Entered

LEMMA BeginInv ==
    ASSUME IInv, NEW c \in Conns, NEW f \in Fingerprints, NEW t \in Tokens,
           BeginTurn(c, f, t)
    PROVE  IInv'
<1> DEFINE s == SessionOf[c]
<1>0. /\ s \in Sessions
      /\ ~InTurn(c) /\ Admits(s, f) /\ Fresh(t)
      /\ last' = [last EXCEPT ![s] = Nothing]
      /\ last \in [Sessions -> Answers \cup {Nothing}]
  BY SessionAssumption DEF BeginTurn, IInv, TypeOK
<1>1. TypeOK'
  BY TypeStep DEF IInv, Next
<1>2. DistinctTokens'
  BY <1>0, BeginTurns DEF IInv, DistinctTokens, Fresh
<1>3. CurrentOwns'
  <2>1. ASSUME NEW d \in Conns, InTurn(d)', turns'[d].standing = "current"
        PROVE  OwnsEntry(d)'
    <3>1. CASE d = c
      <4>1. turns'[c].token = t /\ turns'[c].fingerprint = f /\ turns'[c].age = 0
        BY BeginTurns
      <4>2. /\ Entered(s)'
            /\ guards'[s].inFlight = TRUE /\ guards'[s].token = t
            /\ guards'[s].fingerprint = f /\ guards'[s].age = 0
        BY BeginGuards
      <4>3. QED
        BY <3>1, <4>1, <4>2 DEF OwnsEntry
    <3>2. CASE d # c
      <4>1. /\ InTurn(d) /\ turns[d].standing = "current" /\ SessionOf[d] # s
            /\ turns'[d].token = turns[d].token
            /\ turns'[d].fingerprint = turns[d].fingerprint
            /\ turns'[d].age = turns[d].age
        BY <2>1, <3>2, BeginTurns
      <4>2. OwnsEntry(d)
        BY <4>1 DEF IInv, CurrentOwns
      <4>3. guards'[SessionOf[d]] = guards[SessionOf[d]]
        BY <4>1, <4>2, BeginGuards, SessionAssumption DEF OwnsEntry, Sweepable
      <4>4. Entered(SessionOf[d])'
        BY <4>2, <4>3 DEF OwnsEntry, Entered
      <4>5. QED
        BY <4>1, <4>2, <4>3, <4>4 DEF OwnsEntry
    <3>3. QED
      BY <3>1, <3>2
  <2>2. QED
    BY <2>1 DEF CurrentOwns
<1>4. StaleDisowned'
  <2>1. ASSUME NEW d \in Conns, InTurn(d)', turns'[d].standing # "current"
        PROVE  ~Owns(SessionOf[d], turns[d].token)'
    <3>1. d # c /\ InTurn(d) /\ turns'[d].token = turns[d].token
      BY <2>1, BeginTurns
    <3>2. CASE SessionOf[d] = s
      <4>1. turns[d].token # t /\ guards'[s].token = t
        BY <1>0, <3>1, BeginGuards DEF Fresh
      <4>2. QED
        BY <3>1, <3>2, <4>1 DEF Owns
    <3>3. CASE SessionOf[d] # s
      <4>1. turns[d].standing # "current"
        BY <2>1, <3>1, <3>3, BeginTurns
      <4>2. ~Owns(SessionOf[d], turns[d].token)
        BY <3>1, <4>1 DEF IInv, StaleDisowned
      <4>3. QED
        BY <3>1, <3>3, <4>2, BeginGuards, SessionAssumption DEF Owns, Entered
    <3>4. QED
      BY <3>2, <3>3
  <2>2. QED
    BY <2>1 DEF StaleDisowned
<1>5. OvertakenIsOld'
  <2>1. ASSUME NEW d \in Conns, InTurn(d)', turns'[d].standing = "overtaken"
        PROVE  turns'[d].age > MaxHold
    <3>1. d # c /\ InTurn(d) /\ turns'[d].age = turns[d].age
      BY <2>1, BeginTurns
    <3>2. CASE SessionOf[d] = s /\ turns[d].standing = "current"
      BY <1>0, <3>1, <3>2, AdmittedIsOld DEF On
    <3>3. CASE turns[d].standing = "overtaken"
      BY <3>1, <3>3 DEF IInv, OvertakenIsOld
    <3>4. QED
      BY <2>1, <3>1, <3>2, <3>3, BeginTurns
  <2>2. QED
    BY <2>1 DEF OvertakenIsOld
<1>6. AnswerBounded'
  <2>1. TurnTimeout >= 0
    BY TimeAssumption
  <2>2. QED
    BY <2>1, BeginTurns DEF IInv, AnswerBounded
<1>7. LastRemembered'
  <2>1. ASSUME NEW u \in Sessions, last'[u] # Nothing, last'[u].age <= Window
        PROVE  Remembers(u)'
    <3>1. u # s /\ last'[u] = last[u]
      BY <1>0, <2>1
    <3>2. Remembers(u)
      BY <2>1, <3>1 DEF IInv, LastRemembered
    <3>3. guards[u] \in Entries /\ last[u] \in Answers
      BY <1>0, <2>1, <3>1, <3>2, EntryType DEF IInv, Remembers
    <3>4. ~Sweepable(u)
      BY <2>1, <3>1, <3>2, <3>3, TimeAssumption DEF Remembers, Sweepable, Entries, Answers, Ages
    <3>5. guards'[u] = guards[u]
      BY <3>1, <3>4, BeginGuards
    <3>6. QED
      BY <3>1, <3>2, <3>5 DEF Remembers, Entered
  <2>2. QED
    BY <2>1 DEF LastRemembered
<1>8. QED
  BY <1>1, <1>2, <1>3, <1>4, <1>5, <1>6, <1>7 DEF IInv

LEMMA PhaseInv ==
    ASSUME IInv, NEW c \in Conns, StartAnswer(c) \/ EndAnswer(c)
    PROVE  IInv'
<1>1. TypeOK'
  BY TypeStep DEF IInv, Next
<1>2. turns[c] \in Turns /\ InTurn(c)
  BY TurnType DEF IInv, StartAnswer, EndAnswer
<1>3. /\ turns'[c] # NoTurn
      /\ turns'[c].token = turns[c].token
      /\ turns'[c].fingerprint = turns[c].fingerprint
      /\ turns'[c].age = turns[c].age
      /\ turns'[c].standing = turns[c].standing
      /\ \A d \in Conns \ {c} : turns'[d] = turns[d]
      /\ guards' = guards /\ last' = last
  <2>1. /\ [turns[c] EXCEPT !.phase = "answering"] \in Turns
        /\ [turns[c] EXCEPT !.phase = "after", !.answerAge = 0] \in Turns
    BY <1>2, AgeFacts DEF Turns
  <2>2. turns'[c] # NoTurn
    BY <2>1, NoneAssumption DEF StartAnswer, EndAnswer, IInv, TypeOK
  <2>3. QED
    BY <1>2, <2>2 DEF StartAnswer, EndAnswer, IInv, TypeOK, Turns
<1>4. \A d \in Conns :
         /\ InTurn(d)' <=> InTurn(d)
         /\ InTurn(d) => /\ turns'[d].token = turns[d].token
                         /\ turns'[d].fingerprint = turns[d].fingerprint
                         /\ turns'[d].age = turns[d].age
                         /\ turns'[d].standing = turns[d].standing
  BY <1>2, <1>3 DEF InTurn
<1>5. DistinctTokens'
  BY <1>4 DEF IInv, DistinctTokens
<1>6. CurrentOwns'
  BY <1>3, <1>4 DEF IInv, CurrentOwns, OwnsEntry, Entered
<1>7. StaleDisowned'
  BY <1>3, <1>4 DEF IInv, StaleDisowned, Owns, Entered
<1>8. OvertakenIsOld'
  BY <1>4 DEF IInv, OvertakenIsOld
<1>9. AnswerBounded'
  <2>1. CASE StartAnswer(c)
    <3>1. turns'[c].phase = "answering" /\ turns'[c].answerAge = turns[c].answerAge
          /\ turns[c].phase = "media"
      BY <1>2, <2>1 DEF StartAnswer, IInv, TypeOK, Turns
    <3>2. turns'[c].fingerprint \in Media /\ turns'[c].answerAge <= TurnTimeout
      BY <1>2, <1>3, <3>1, TimeAssumption DEF IInv, AnswerBounded
    <3>3. QED
      BY <1>3, <1>4, <3>1, <3>2 DEF IInv, AnswerBounded
  <2>2. CASE EndAnswer(c)
    <3>1. turns'[c].phase = "after"
      BY <1>2, <2>2 DEF EndAnswer, IInv, TypeOK, Turns
    <3>2. QED
      BY <1>3, <1>4, <3>1 DEF IInv, AnswerBounded
  <2>3. QED
    BY <2>1, <2>2
<1>10. LastRemembered'
  BY <1>3 DEF IInv, LastRemembered, Remembers, Entered
<1>11. QED
  BY <1>1, <1>5, <1>6, <1>7, <1>8, <1>9, <1>10 DEF IInv

LEMMA EndTurnInv ==
    ASSUME IInv, NEW c \in Conns, EndTurn(c)
    PROVE  IInv'
<1> DEFINE s == SessionOf[c]
<1>0. s \in Sessions /\ InTurn(c) /\ turns[c] \in Turns
  BY SessionAssumption, TurnType DEF EndTurn, IInv
<1>1. TypeOK'
  BY TypeStep DEF IInv, Next
<1>2. /\ ~InTurn(c)'
      /\ \A d \in Conns \ {c} : turns'[d] = turns[d] /\ (InTurn(d)' <=> InTurn(d))
  BY DEF EndTurn, InTurn, IInv, TypeOK
<1>3. \A u \in Sessions \ {s} : guards'[u] = guards[u] /\ last'[u] = last[u]
  BY <1>0 DEF EndTurn, IInv, TypeOK
<1>4. CASE turns[c].standing = "current"
  <2>1. OwnsEntry(c)
    BY <1>0, <1>4 DEF IInv, CurrentOwns
  <2>2. guards[s] \in Entries
    BY <1>0, <2>1, EntryType DEF IInv, OwnsEntry
  <2>3. guards'[s] = Released(guards[s])
    BY <1>0, <2>1 DEF EndTurn, Owns, OwnsEntry, IInv, TypeOK
  <2>4. Released(guards[s]) \in Entries
    BY <2>2, AgeFacts DEF Released, Entries
  <2>5. /\ Entered(s)'
        /\ guards'[s].inFlight = FALSE /\ guards'[s].age = 0
        /\ guards'[s].token = guards[s].token
        /\ guards'[s].fingerprint = guards[s].fingerprint
    <3>1. guards'[s] # NoEntry
      BY <2>3, <2>4, NoneAssumption
    <3>2. QED
      BY <2>2, <2>3, <3>1 DEF Released, Entries, Entered
  <2>6. last'[s] = [fingerprint |-> turns[c].fingerprint, age |-> 0]
    BY <1>0, <1>4 DEF EndTurn, IInv, TypeOK
  <2>7. \A d \in Conns \ {c} : InTurn(d) /\ SessionOf[d] = s => turns[d].standing # "current"
    <3>1. ASSUME NEW d \in Conns \ {c}, InTurn(d), SessionOf[d] = s, turns[d].standing = "current"
          PROVE  FALSE
      <4>1. OwnsEntry(d)
        BY <3>1 DEF IInv, CurrentOwns
      <4>2. turns[c].token = turns[d].token
        BY <2>1, <3>1, <4>1 DEF OwnsEntry
      <4>3. QED
        BY <1>0, <3>1, <4>2 DEF IInv, DistinctTokens
    <3>2. QED
      BY <3>1
  <2>8. DistinctTokens'
    BY <1>2 DEF IInv, DistinctTokens
  <2>9. CurrentOwns'
    <3>1. ASSUME NEW d \in Conns, InTurn(d)', turns'[d].standing = "current"
          PROVE  OwnsEntry(d)'
      <4>1. d # c /\ InTurn(d) /\ turns'[d] = turns[d] /\ SessionOf[d] # s
        BY <1>2, <2>7, <3>1
      <4>2. OwnsEntry(d)
        BY <3>1, <4>1 DEF IInv, CurrentOwns
      <4>3. guards'[SessionOf[d]] = guards[SessionOf[d]]
        BY <1>3, <4>1, SessionAssumption
      <4>4. QED
        BY <4>1, <4>2, <4>3 DEF OwnsEntry, Entered
    <3>2. QED
      BY <3>1 DEF CurrentOwns
  <2>10. StaleDisowned'
    <3>1. ASSUME NEW d \in Conns, InTurn(d)', turns'[d].standing # "current"
          PROVE  ~Owns(SessionOf[d], turns[d].token)'
      <4>1. d # c /\ InTurn(d) /\ turns'[d] = turns[d]
        BY <1>2, <3>1
      <4>2. ~Owns(SessionOf[d], turns[d].token)
        BY <3>1, <4>1 DEF IInv, StaleDisowned
      <4>3. CASE SessionOf[d] = s
        BY <2>1, <2>5, <4>1, <4>2, <4>3 DEF Owns, OwnsEntry
      <4>4. CASE SessionOf[d] # s
        <5>1. guards'[SessionOf[d]] = guards[SessionOf[d]]
          BY <1>3, <4>1, <4>4, SessionAssumption
        <5>2. QED
          BY <4>1, <4>2, <5>1 DEF Owns, Entered
      <4>5. QED
        BY <4>3, <4>4
    <3>2. QED
      BY <3>1 DEF StaleDisowned
  <2>11. OvertakenIsOld' /\ AnswerBounded'
    BY <1>2 DEF IInv, OvertakenIsOld, AnswerBounded
  <2>12. LastRemembered'
    <3>1. ASSUME NEW u \in Sessions, last'[u] # Nothing, last'[u].age <= Window
          PROVE  Remembers(u)'
      <4>1. CASE u = s
        BY <2>1, <2>5, <2>6, <4>1 DEF Remembers, OwnsEntry
      <4>2. CASE u # s
        BY <1>3, <3>1, <4>2 DEF IInv, LastRemembered, Remembers, Entered
      <4>3. QED
        BY <4>1, <4>2
    <3>2. QED
      BY <3>1 DEF LastRemembered
  <2>13. QED
    BY <1>1, <2>8, <2>9, <2>10, <2>11, <2>12 DEF IInv
<1>5. CASE turns[c].standing # "current"
  <2>1. guards' = guards /\ last' = last
    BY <1>0, <1>5 DEF EndTurn, IInv, StaleDisowned
  <2>2. DistinctTokens' /\ OvertakenIsOld' /\ AnswerBounded'
    BY <1>2 DEF IInv, DistinctTokens, OvertakenIsOld, AnswerBounded
  <2>3. CurrentOwns'
    BY <1>2, <2>1 DEF IInv, CurrentOwns, OwnsEntry, Entered
  <2>4. StaleDisowned'
    BY <1>2, <2>1 DEF IInv, StaleDisowned, Owns, Entered
  <2>5. LastRemembered'
    BY <2>1 DEF IInv, LastRemembered, Remembers, Entered
  <2>6. QED
    BY <1>1, <2>2, <2>3, <2>4, <2>5 DEF IInv
<1>6. QED
  BY <1>4, <1>5

LEMMA EndSessionInv ==
    ASSUME IInv, NEW s \in Sessions, EndSession(s)
    PROVE  IInv'
<1>1. TypeOK'
  BY TypeStep DEF IInv, Next
<1>2. ASSUME NEW c \in On(s)
      PROVE  /\ turns'[c] # NoTurn
             /\ turns'[c].standing = "evicted"
             /\ turns'[c].token = turns[c].token
             /\ turns'[c].fingerprint = turns[c].fingerprint
             /\ turns'[c].age = turns[c].age
             /\ turns'[c].phase = turns[c].phase
             /\ turns'[c].answerAge = turns[c].answerAge
  <2>1. turns[c] \in Turns /\ c \in Conns
    BY TurnType DEF On, IInv
  <2>2. [turns[c] EXCEPT !.standing = "evicted"] \in Turns
    BY <2>1 DEF Turns
  <2>3. turns'[c] = [turns[c] EXCEPT !.standing = "evicted"]
    BY <2>1 DEF EndSession
  <2>4. QED
    BY <2>1, <2>2, <2>3, NoneAssumption DEF Turns
<1>3. \A c \in Conns : c \notin On(s) => turns'[c] = turns[c]
  BY DEF EndSession
<1>4. \A c \in Conns :
         /\ InTurn(c)' <=> InTurn(c)
         /\ InTurn(c) => /\ turns'[c].token = turns[c].token
                         /\ turns'[c].fingerprint = turns[c].fingerprint
                         /\ turns'[c].age = turns[c].age
                         /\ turns'[c].phase = turns[c].phase
                         /\ turns'[c].answerAge = turns[c].answerAge
                         /\ turns'[c].standing =
                               IF SessionOf[c] = s THEN "evicted" ELSE turns[c].standing
  BY <1>2, <1>3 DEF InTurn, On
<1>5. ~Entered(s)' /\ last'[s] = Nothing
  BY DEF EndSession, Entered, IInv, TypeOK
<1>6. \A u \in Sessions \ {s} : guards'[u] = guards[u] /\ last'[u] = last[u]
  BY DEF EndSession, IInv, TypeOK
<1>7. DistinctTokens' /\ OvertakenIsOld' /\ AnswerBounded'
  BY <1>4 DEF IInv, DistinctTokens, OvertakenIsOld, AnswerBounded
<1>8. CurrentOwns'
  <2>1. ASSUME NEW d \in Conns, InTurn(d)', turns'[d].standing = "current"
        PROVE  OwnsEntry(d)'
    <3>1. SessionOf[d] # s /\ InTurn(d) /\ turns[d].standing = "current"
      BY <1>4, <2>1
    <3>2. OwnsEntry(d)
      BY <3>1 DEF IInv, CurrentOwns
    <3>3. guards'[SessionOf[d]] = guards[SessionOf[d]]
      BY <1>6, <3>1, SessionAssumption
    <3>4. QED
      BY <1>4, <3>1, <3>2, <3>3 DEF OwnsEntry, Entered
  <2>2. QED
    BY <2>1 DEF CurrentOwns
<1>9. StaleDisowned'
  <2>1. ASSUME NEW d \in Conns, InTurn(d)', turns'[d].standing # "current"
        PROVE  ~Owns(SessionOf[d], turns[d].token)'
    <3>1. CASE SessionOf[d] = s
      BY <1>5, <3>1 DEF Owns
    <3>2. CASE SessionOf[d] # s
      <4>1. ~Owns(SessionOf[d], turns[d].token)
        BY <1>4, <2>1, <3>2 DEF IInv, StaleDisowned
      <4>2. guards'[SessionOf[d]] = guards[SessionOf[d]]
        BY <1>6, <3>2, SessionAssumption
      <4>3. QED
        BY <1>4, <2>1, <4>1, <4>2 DEF Owns, Entered
    <3>3. QED
      BY <3>1, <3>2
  <2>2. QED
    BY <2>1 DEF StaleDisowned
<1>10. LastRemembered'
  BY <1>5, <1>6 DEF IInv, LastRemembered, Remembers, Entered
<1>11. QED
  BY <1>1, <1>7, <1>8, <1>9, <1>10 DEF IInv

LEMMA RestartInv == ASSUME IInv, Restart PROVE IInv'
<1>1. TypeOK'
  BY TypeStep DEF IInv, Next
<1>2. QED
  BY <1>1 DEF Restart, IInv, DistinctTokens, CurrentOwns, StaleDisowned, OvertakenIsOld,
              AnswerBounded, LastRemembered, InTurn

LEMMA TickInv == ASSUME IInv, Tick PROVE IInv'
<1>1. TypeOK'
  BY TypeStep DEF IInv, Next
<1>2. ASSUME NEW c \in Conns, InTurn(c)
      PROVE  /\ turns'[c] # NoTurn
             /\ turns'[c].token = turns[c].token
             /\ turns'[c].fingerprint = turns[c].fingerprint
             /\ turns'[c].standing = turns[c].standing
             /\ turns'[c].phase = turns[c].phase
             /\ turns'[c].age = Older(turns[c].age)
             /\ turns'[c].answerAge =
                   IF turns[c].phase = "answering" THEN turns[c].answerAge + 1
                                                   ELSE turns[c].answerAge
  <2>1. turns[c] \in Turns
    BY <1>2, TurnType DEF IInv
  <2>2. turns'[c] = [turns[c] EXCEPT !.age = Older(@),
                       !.answerAge = IF turns[c].phase = "answering" THEN @ + 1 ELSE @]
    BY <1>2 DEF Tick
  <2>3. /\ turns'[c].token = turns[c].token
        /\ turns'[c].fingerprint = turns[c].fingerprint
        /\ turns'[c].standing = turns[c].standing
        /\ turns'[c].phase = turns[c].phase
        /\ turns'[c].age = Older(turns[c].age)
        /\ turns'[c].answerAge =
              IF turns[c].phase = "answering" THEN turns[c].answerAge + 1
                                              ELSE turns[c].answerAge
    BY <2>1, <2>2 DEF Turns
  <2>4. turns'[c] \in Turns
    <3>1. Older(turns[c].age) \in Ages
      BY <2>1, OlderType DEF Turns
    <3>2. turns[c].phase = "answering" => turns[c].answerAge + 1 \in Ages
      BY <1>2, <2>1, AgeFacts DEF Tick, Turns
    <3>3. QED
      BY <2>1, <2>2, <3>1, <3>2 DEF Turns
  <2>5. QED
    BY <2>3, <2>4, NoneAssumption
<1>3. \A c \in Conns : ~InTurn(c) => ~InTurn(c)'
  BY DEF Tick, InTurn
<1>4. ASSUME NEW s \in Sessions, Entered(s)
      PROVE  /\ Entered(s)'
             /\ guards'[s].token = guards[s].token
             /\ guards'[s].fingerprint = guards[s].fingerprint
             /\ guards'[s].inFlight = guards[s].inFlight
             /\ guards'[s].age = Older(guards[s].age)
  <2>1. guards[s] \in Entries
    BY <1>4, EntryType DEF IInv
  <2>2. guards'[s] = [guards[s] EXCEPT !.age = Older(@)]
    BY <1>4 DEF Tick
  <2>3. [guards[s] EXCEPT !.age = Older(@)] \in Entries
    BY <2>1, OlderType DEF Entries
  <2>4. QED
    BY <2>1, <2>2, <2>3, NoneAssumption DEF Entries, Entered
<1>5. \A s \in Sessions : ~Entered(s) => ~Entered(s)'
  BY DEF Tick, Entered
<1>6. DistinctTokens'
  BY <1>2, <1>3 DEF IInv, DistinctTokens, InTurn
<1>7. CurrentOwns'
  <2>1. ASSUME NEW c \in Conns, InTurn(c)', turns'[c].standing = "current"
        PROVE  OwnsEntry(c)'
    <3>1. InTurn(c) /\ turns[c].standing = "current"
      BY <1>2, <1>3, <2>1
    <3>2. OwnsEntry(c) /\ SessionOf[c] \in Sessions
      BY <3>1, SessionAssumption DEF IInv, CurrentOwns
    <3>3. Entered(SessionOf[c])
      BY <3>2 DEF OwnsEntry
    <3>4. QED
      BY <1>2, <1>4, <3>1, <3>2, <3>3 DEF OwnsEntry
  <2>2. QED
    BY <2>1 DEF CurrentOwns
<1>8. StaleDisowned'
  BY <1>2, <1>3, <1>4, <1>5, SessionAssumption DEF IInv, StaleDisowned, Owns
<1>9. OvertakenIsOld'
  <2>1. ASSUME NEW c \in Conns, InTurn(c)', turns'[c].standing = "overtaken"
        PROVE  turns'[c].age > MaxHold
    <3>1. InTurn(c) /\ turns[c].standing = "overtaken" /\ turns'[c].age = Older(turns[c].age)
      BY <1>2, <1>3, <2>1
    <3>2. turns[c].age > MaxHold /\ turns[c].age \in Ages
      BY <3>1, TurnType DEF IInv, OvertakenIsOld, Turns
    <3>3. QED
      BY <3>1, <3>2, OlderType
  <2>2. QED
    BY <2>1 DEF OvertakenIsOld
<1>10. AnswerBounded'
  <2>1. ASSUME NEW c \in Conns, InTurn(c)'
        PROVE  /\ turns'[c].phase = "media" => turns'[c].fingerprint \in Media
               /\ (turns'[c].phase = "answering" /\ turns'[c].fingerprint \notin Media) =>
                     turns'[c].age = turns'[c].answerAge
               /\ turns'[c].phase = "answering" => turns'[c].answerAge <= TurnTimeout
               /\ turns'[c].phase = "media" => turns'[c].answerAge = 0
    <3>1. InTurn(c) /\ turns[c] \in Turns
      BY <1>3, <2>1, TurnType DEF IInv
    <3>2. CASE turns[c].phase = "answering"
      <4>1. turns[c].answerAge < TurnTimeout /\ turns[c].answerAge \in Ages /\ turns[c].age \in Ages
        BY <3>1, <3>2 DEF Tick, Turns
      <4>2. turns[c].answerAge + 1 <= TurnTimeout /\ turns[c].answerAge <= MaxHold
        BY <4>1, MaxHoldType, TimeAssumption DEF Ages
      <4>3. turns[c].fingerprint \notin Media => turns[c].age = turns[c].answerAge
        BY <3>1, <3>2 DEF IInv, AnswerBounded
      <4>4. turns[c].fingerprint \notin Media => Older(turns[c].age) = turns[c].answerAge + 1
        BY <4>1, <4>2, <4>3, OlderType
      <4>5. QED
        BY <1>2, <3>1, <3>2, <4>2, <4>4
    <3>3. CASE turns[c].phase # "answering"
      BY <1>2, <3>1, <3>3 DEF IInv, AnswerBounded
    <3>4. QED
      BY <3>2, <3>3
  <2>2. QED
    BY <2>1 DEF AnswerBounded
<1>11. LastRemembered'
  <2>1. ASSUME NEW s \in Sessions, last'[s] # Nothing, last'[s].age <= Window
        PROVE  Remembers(s)'
    <3>1. last[s] # Nothing
      BY <2>1 DEF Tick
    <3>2. last[s] \in Answers
      BY <3>1 DEF IInv, TypeOK
    <3>3. last'[s].fingerprint = last[s].fingerprint /\ last'[s].age = Older(last[s].age)
      BY <3>1, <3>2 DEF Tick, Answers
    <3>4. last[s].age <= Window
      BY <2>1, <3>2, <3>3, OlderType, TimeAssumption DEF Answers, Ages
    <3>5. Remembers(s)
      BY <3>1, <3>4 DEF IInv, LastRemembered
    <3>6. QED
      BY <1>4, <3>3, <3>5 DEF Remembers
  <2>2. QED
    BY <2>1 DEF LastRemembered
<1>12. QED
  BY <1>1, <1>6, <1>7, <1>8, <1>9, <1>10, <1>11 DEF IInv

LEMMA StepInv == ASSUME IInv, [Next]_vars PROVE IInv'
<1>1. CASE Next
  BY <1>1, BeginInv, PhaseInv, EndTurnInv, EndSessionInv, RestartInv, TickInv DEF Next
<1>2. CASE UNCHANGED vars
  BY <1>2 DEF vars, IInv, TypeOK, DistinctTokens, CurrentOwns, OwnsEntry, StaleDisowned, Owns,
              OvertakenIsOld, AnswerBounded, LastRemembered, Remembers, Entered, InTurn
<1>3. QED
  BY <1>1, <1>2

(* The inductive invariant holds in every reachable state. *)
THEOREM InvariantHolds == Spec => []IInv
BY InitInv, StepInv, PTL DEF Spec

-----------------------------------------------------------------------------
(* The properties. *)

(* TypeOK: every variable keeps its type. *)
THEOREM TypeCorrect == Spec => []TypeOK
BY InvariantHolds, PTL DEF IInv

(* A connection that was not in a turn and now is has begun one. *)
LEMMA OnlyBeginTurnBegins ==
    ASSUME TypeOK, [Next]_vars, NEW c \in Conns, Begins(c)
    PROVE  \E f \in Fingerprints, t \in Tokens : BeginTurn(c, f, t)
<1>1. turns'[c] # turns[c] /\ turns[c] = NoTurn /\ Next
  BY DEF Begins, InTurn, vars
<1>2. ASSUME NEW d \in Conns, StartAnswer(d) \/ EndAnswer(d) \/ EndTurn(d)
      PROVE  FALSE
  BY <1>1, <1>2 DEF StartAnswer, EndAnswer, EndTurn, InTurn, TypeOK, Begins
<1>3. ASSUME NEW s \in Sessions, EndSession(s) PROVE FALSE
  BY <1>1, <1>3 DEF EndSession, On, InTurn
<1>4. ~Restart
  BY <1>1 DEF Restart, Begins
<1>5. ~Tick
  BY <1>1 DEF Tick, InTurn
<1>6. ASSUME NEW d \in Conns, NEW f \in Fingerprints, NEW t \in Tokens,
             BeginTurn(d, f, t), d # c
      PROVE  FALSE
  BY <1>1, <1>6 DEF BeginTurn, Overtaken, On, InTurn
<1>7. QED
  BY <1>1, <1>2, <1>3, <1>4, <1>5, <1>6 DEF Next

(* NoEarlyOverlap: a second turn of a session is let in only when the running
   one is past MaxHold or the session was ended. *)
THEOREM NoEarlyOverlapHolds == Spec => NoEarlyOverlap
<1>1. ASSUME IInv, [Next]_vars, NEW c \in Conns, Begins(c),
             NEW d \in On(SessionOf[c]) \ {c}, turns[d].standing # "evicted"
      PROVE  turns[d].age > MaxHold
  <2>1. PICK f \in Fingerprints, t \in Tokens : BeginTurn(c, f, t)
    BY <1>1, OnlyBeginTurnBegins DEF IInv
  <2>2. Admits(SessionOf[c], f)
    BY <2>1 DEF BeginTurn
  <2>3. QED
    BY <1>1, <2>2, AdmittedIsOld, SessionAssumption
<1>2. IInv /\ [Next]_vars =>
        [\A c \in Conns : Begins(c) =>
            \A d \in On(SessionOf[c]) \ {c} :
                turns[d].standing # "evicted" => turns[d].age > MaxHold]_vars
  BY <1>1
<1>3. QED
  BY <1>2, InvariantHolds, PTL DEF Spec, NoEarlyOverlap

(* NoEcho: the frame answered last starts no second turn within its window. *)
THEOREM NoEchoHolds == Spec => NoEcho
<1>1. ASSUME IInv, [Next]_vars, NEW c \in Conns, Begins(c),
             last[SessionOf[c]] # Nothing, last[SessionOf[c]].age <= Window,
             turns'[c].fingerprint = last[SessionOf[c]].fingerprint
      PROVE  FALSE
  <2>1. PICK f \in Fingerprints, t \in Tokens : BeginTurn(c, f, t)
    BY <1>1, OnlyBeginTurnBegins DEF IInv
  <2>2. Admits(SessionOf[c], f) /\ turns'[c].fingerprint = f
    BY <1>1, <2>1, BeginTurns DEF BeginTurn
  <2>3. Remembers(SessionOf[c])
    BY <1>1, SessionAssumption DEF IInv, LastRemembered
  <2>4. QED
    BY <1>1, <2>2, <2>3 DEF Admits, IsEcho, Remembers
<1>2. IInv /\ [Next]_vars =>
        [\A c \in Conns : Begins(c) =>
            LET done == last[SessionOf[c]] IN
            ~(/\ done # Nothing
              /\ done.age <= Window
              /\ turns'[c].fingerprint = done.fingerprint)]_vars
  BY <1>1
<1>3. QED
  BY <1>2, InvariantHolds, PTL DEF Spec, NoEcho

(* OneAnswerAtATime: a _run_turn is cut off before the guard can be taken over,
   so two replies to text frames are never in production together. *)
THEOREM OneAnswerAtATimeHolds == Spec => []OneAnswerAtATime
<1>1. ASSUME IInv, NEW c \in Conns, InTurn(c), turns[c].phase = "answering",
             turns[c].standing # "evicted", turns[c].standing # "current"
      PROVE  turns[c].fingerprint \in Media /\ turns[c].age > MaxHold
  <2>1. turns[c] \in Turns
    BY <1>1, TurnType DEF IInv
  <2>2. turns[c].age > MaxHold
    BY <1>1, <2>1 DEF Turns, IInv, OvertakenIsOld
  <2>3. turns[c].answerAge <= TurnTimeout /\ turns[c].answerAge \in Ages
    BY <1>1, <2>1 DEF IInv, AnswerBounded, Turns
  <2>4. turns[c].answerAge # turns[c].age
    BY <2>2, <2>3, MaxHoldType, TimeAssumption DEF Ages
  <2>5. QED
    BY <1>1, <2>2, <2>4 DEF IInv, AnswerBounded
<1>2. ASSUME IInv, NEW c \in Conns, NEW d \in Conns, c # d, InTurn(c), InTurn(d),
             SessionOf[c] = SessionOf[d],
             turns[c].standing = "current", turns[d].standing = "current"
      PROVE  FALSE
  <2>1. OwnsEntry(c) /\ OwnsEntry(d)
    BY <1>2 DEF IInv, CurrentOwns
  <2>2. turns[c].token = turns[d].token
    BY <1>2, <2>1 DEF OwnsEntry
  <2>3. QED
    BY <1>2, <2>2 DEF IInv, DistinctTokens
<1>3. IInv => OneAnswerAtATime
  BY <1>1, <1>2 DEF OneAnswerAtATime
<1>4. QED
  BY <1>3, InvariantHolds, PTL
=============================================================================
