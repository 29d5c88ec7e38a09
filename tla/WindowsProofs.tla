--------------------------- MODULE WindowsProofs ---------------------------
(***************************************************************************)
(* What is proved of the state that windows share: the font preference,    *)
(* the list of recent documents and the files on their way to a window,    *)
(* for any number of windows, documents, files and changes.                *)
(***************************************************************************)
EXTENDS FontPreferences, RecentDocuments, PendingOpen,
        SequenceTheorems, FiniteSetTheorems, WellFoundedInduction, TLAPS

-----------------------------------------------------------------------------
(***************************************************************************)
(* The font preference.  A revision names one state, a window never goes   *)
(* back and hears of every change, and a failure brings back no older      *)
(* choice.                                                                 *)
(*                                                                         *)
(* The invariant says that nothing that has been told is ahead of the      *)
(* native snapshot, so that a changed snapshot has a revision of its own,  *)
(* and that a request that still counts is for the last wish.              *)
(***************************************************************************)
Actions == FontActions \cup {NoAction}
Request == [action : Actions, at : {"sent", "answered", "failed"}, fresh : BOOLEAN, value : FontSnapshots]
ChannelsTyped ==
  /\ requests \in [Views -> SUBSET Request] /\ news \in [Views -> Seq(FontSnapshots)]
  /\ wish \in [Views -> Actions] /\ broadcast \in Int /\ broadcast <= native.revision

\* Nothing that has been told is ahead of the native snapshot.
NoneAhead == \A t \in Told : t.revision <= native.revision
\* What a window has not heard of is the last of the events on their way to it.
NewsIsComing ==
  \A v \in Views : IF news[v] = <<>> THEN snapshot[v].revision >= broadcast
                   ELSE news[v][Len(news[v])].revision >= broadcast
\* A request that still counts is for the last wish of its window.
WishesCount ==
  \A v \in Views : \A q \in requests[v] : q.fresh /\ q.action # NoAction => q.action = wish[v]

FontsInv == FontsTypeOK /\ ChannelsTyped /\ NoneAhead /\ OneStatePerRevision /\ NewsIsComing /\ WishesCount

\* What has been told, one way at a time
Counts(q, t) == q.at = "answered" /\ q.fresh /\ q.value = t
Keeps(v, t) == snapshot[v] = t /\ t.error \in {"none", "invalid"} /\ t.revision >= 0
ToldWays ==
  \A t : t \in Told <=> \/ t = native
                        \/ \E v \in Views : \E i \in DOMAIN news[v] : news[v][i] = t
                        \/ \E v \in Views : \E q \in requests[v] : Counts(q, t)
                        \/ \E v \in Views : Keeps(v, t)
LEMMA ToldIs == ToldWays
<1> SUFFICES ASSUME NEW t
             PROVE  t \in Told <=> \/ t = native
                                   \/ \E v \in Views : \E i \in DOMAIN news[v] : news[v][i] = t
                                   \/ \E v \in Views : \E q \in requests[v] : Counts(q, t)
                                   \/ \E v \in Views : Keeps(v, t)
  BY DEF ToldWays
<1>1. t \in UNION {{news[v][i] : i \in DOMAIN news[v]} : v \in Views}
        <=> \E v \in Views : \E i \in DOMAIN news[v] : news[v][i] = t
  OBVIOUS
<1>2. t \in UNION {{q.value : q \in {r \in requests[v] : r.at = "answered" /\ r.fresh}} : v \in Views}
        <=> \E v \in Views : \E q \in requests[v] : Counts(q, t)
  BY DEF Counts
<1>3. t \in {s \in {snapshot[v] : v \in Views} : s.error \in {"none", "invalid"} /\ s.revision >= 0}
        <=> \E v \in Views : Keeps(v, t)
  BY DEF Keeps
<1> DEFINE A == UNION {{news[v][i] : i \in DOMAIN news[v]} : v \in Views}
           B == UNION {{q.value : q \in {r \in requests[v] : r.at = "answered" /\ r.fresh}} : v \in Views}
           C == {s \in {snapshot[v] : v \in Views} : s.error \in {"none", "invalid"} /\ s.revision >= 0}
<1>4. Told = {native} \cup A \cup B \cup C
  BY Zenon DEF Told
<1>5. /\ t \in A <=> \E v \in Views : \E i \in DOMAIN news[v] : news[v][i] = t
      /\ t \in B <=> \E v \in Views : \E q \in requests[v] : Counts(q, t)
      /\ t \in C <=> \E v \in Views : Keeps(v, t)
  BY <1>1, <1>2, <1>3, Zenon
<1>6. t \in Told <=> t = native \/ t \in A \/ t \in B \/ t \in C
  <2> HIDE DEF A, B, C
  <2> QED BY <1>4
<1> HIDE DEF A, B, C
<1> QED BY <1>5, <1>6, Zenon

LEMMA ToldIsNext == ToldWays'
BY ToldIs, PTL

LEMMA ToldAreSnapshots == FontsTypeOK /\ ChannelsTyped => Told \subseteq FontSnapshots
<1> SUFFICES ASSUME FontsTypeOK, ChannelsTyped, NEW t \in Told PROVE t \in FontSnapshots
  OBVIOUS
<1>1. CASE t = native
  BY <1>1 DEF FontsTypeOK
<1>2. CASE \E v \in Views : \E i \in DOMAIN news[v] : news[v][i] = t
  BY <1>2 DEF ChannelsTyped
<1>3. CASE \E v \in Views : \E q \in requests[v] : Counts(q, t)
  <2>1. PICK v \in Views : \E q \in requests[v] : Counts(q, t)
    BY <1>3
  <2>3. PICK q \in requests[v] : Counts(q, t)
    BY <2>1
  <2>2. q \in Request
    BY <2>3 DEF ChannelsTyped
  <2> QED BY <2>3, <2>2 DEF Counts, Request
<1>4. CASE \E v \in Views : Keeps(v, t)
  BY <1>4 DEF Keeps, FontsTypeOK
<1> QED BY <1>1, <1>2, <1>3, <1>4, ToldIs DEF ToldWays

\* What is told next is either told already or of a revision of its own.
LEMMA RevisionsKeep ==
  ASSUME FontsInv, Told' \subseteq Told \cup {native'}, native' \in FontSnapshots,
         native' = native \/ native'.revision > native.revision
  PROVE  NoneAhead' /\ OneStatePerRevision'
<1>1. native \in Told /\ Told \subseteq FontSnapshots /\ native \in FontSnapshots
  BY ToldIs, ToldAreSnapshots DEF ToldWays, FontsInv, FontsTypeOK
<1>2. \A t \in FontSnapshots : t.revision \in Int
  BY DEF FontSnapshots
<1>3. \A t \in Told' : \/ t = native'
                       \/ t \in Told /\ t \in FontSnapshots /\ t.revision \in Int /\ t.revision <= native.revision
  BY <1>1, <1>2 DEF FontsInv, NoneAhead
<1>4. native.revision \in Int /\ native'.revision \in Int
  BY <1>1, <1>2
<1>5. NoneAhead'
  BY <1>3, <1>4 DEF NoneAhead
<1>6. ASSUME NEW s \in Told', NEW t \in Told', s.revision = t.revision PROVE s = t
  <2>1. s \in Told /\ t \in Told => s = t
    BY <1>6 DEF OneStatePerRevision, FontsInv
  <2>2. CASE native' = native
    BY <1>1, <1>3, <2>1, <2>2
  <2>3. CASE native'.revision > native.revision
    <3>1. s = native' \/ (s \in Told /\ s.revision \in Int /\ s.revision < native'.revision)
      BY <1>3, <1>4, <2>3
    <3>2. t = native' \/ (t \in Told /\ t.revision \in Int /\ t.revision < native'.revision)
      BY <1>3, <1>4, <2>3
    <3> QED BY <1>4, <1>6, <2>1, <3>1, <3>2
  <2> QED BY <2>2, <2>3
<1>7. OneStatePerRevision'
  BY <1>6 DEF OneStatePerRevision
<1> QED BY <1>5, <1>7

(***************************************************************************)
(* The operators of the native service and of a window.                    *)
(***************************************************************************)
LEMMA UnknownIs ==
  /\ Unknown \in FontSnapshots /\ Unknown.revision = -1 /\ Unknown.error = "none"
  /\ Unknown.choice = "unset" /\ ~Unknown.persisted
BY DEF Unknown, FontSnapshots, FontChoices

LEMMA FontsInitial == InitFonts => FontsInv
<1> SUFFICES ASSUME InitFonts PROVE FontsInv
  OBVIOUS
<1>1. /\ native \in FontSnapshots /\ native.revision = 0 /\ native.choice = "unset" /\ ~native.persisted
  <2>1. native = [Unknown EXCEPT !.revision = 0]
    BY Zenon DEF InitFonts
  <2>2. native = [choice |-> "unset", persisted |-> FALSE, dismissed |-> FALSE, error |-> "none", revision |-> 0]
    BY <2>1 DEF Unknown
  <2>3. native \in FontSnapshots
    BY <2>2 DEF FontSnapshots
  <2> QED BY <2>2, <2>3
<1>2. /\ \A v \in Views : snapshot[v] = Unknown /\ news[v] = <<>> /\ requests[v] = {}
      /\ broadcast = -1
      /\ snapshot \in [Views -> FontSnapshots] /\ temporary \in [Views -> Actions]
      /\ news \in [Views -> Seq(FontSnapshots)] /\ requests \in [Views -> SUBSET Request]
      /\ wish \in [Views -> Actions]
  BY UnknownIs DEF InitFonts, Actions
<1>3. FontsTypeOK /\ ChannelsTyped
  BY <1>1, <1>2, UnknownIs DEF InitFonts, FontsTypeOK, ChannelsTyped, Actions, FontChoices
<1>4. \A t \in Told : t = native
  BY <1>2, UnknownIs, ToldIs DEF Keeps, ToldWays
<1>5. NoneAhead /\ OneStatePerRevision
  BY <1>1, <1>4 DEF NoneAhead, OneStatePerRevision
<1>6. NewsIsComing /\ WishesCount
  BY <1>2, UnknownIs DEF NewsIsComing, WishesCount
<1> QED BY <1>3, <1>5, <1>6 DEF FontsInv

\* Snapshots with changed fields
LEMMA SnapshotIs ==
  ASSUME NEW s \in FontSnapshots
  PROVE  s = [choice |-> s.choice, persisted |-> s.persisted, dismissed |-> s.dismissed,
              error |-> s.error, revision |-> s.revision] /\ s.revision \in Int
BY DEF FontSnapshots

Errors == {"none", "invalid", "restore", "save"}
LEMMA RestoredSnapshots ==
  ASSUME NEW s \in FontSnapshots
  PROVE  /\ [s EXCEPT !.choice = "unset", !.persisted = FALSE, !.error = "restore"] \in FontSnapshots
         /\ [s EXCEPT !.choice = "unset", !.persisted = FALSE, !.error = "restore"].revision = s.revision
         /\ [s EXCEPT !.choice = "unset", !.persisted = FALSE, !.error = "restore"].error = "restore"
<1>1. [s EXCEPT !.choice = "unset", !.persisted = FALSE, !.error = "restore"] \in FontSnapshots
  BY DEF FontSnapshots
<1> QED BY <1>1, SnapshotIs

LEMMA DismissedSnapshots ==
  ASSUME NEW s \in FontSnapshots
  PROVE  /\ [s EXCEPT !.dismissed = TRUE, !.revision = @ + 1] \in FontSnapshots
         /\ [s EXCEPT !.dismissed = TRUE, !.revision = @ + 1].revision = s.revision + 1
         /\ [s EXCEPT !.dismissed = TRUE, !.revision = @ + 1].choice = s.choice
         /\ [s EXCEPT !.dismissed = TRUE, !.revision = @ + 1].persisted = s.persisted
<1>1. \A r \in Int, b \in BOOLEAN : [s EXCEPT !.dismissed = b, !.revision = r] \in FontSnapshots
  BY DEF FontSnapshots
<1>2. s.revision + 1 \in Int
  BY SnapshotIs
<1>3. [s EXCEPT !.dismissed = TRUE, !.revision = @ + 1] \in FontSnapshots
  BY <1>1, <1>2
<1> QED BY <1>3, SnapshotIs

LEMMA FailedSnapshots ==
  ASSUME NEW s \in FontSnapshots
  PROVE  /\ [s EXCEPT !.error = "save"] \in FontSnapshots
         /\ [s EXCEPT !.error = "save"].revision = s.revision /\ [s EXCEPT !.error = "save"].error = "save"
<1>1. [s EXCEPT !.error = "save"] \in FontSnapshots
  BY DEF FontSnapshots
<1> QED BY <1>1, SnapshotIs

\* read_preference and refresh: a state that differs has a revision of its own.
LEMMA RefreshedIs ==
  ASSUME FontsTypeOK
  PROVE  /\ Refreshed \in FontSnapshots /\ (Refreshed.persisted <=> Refreshed.choice \in FontChoices)
         /\ Refreshed = native \/ Refreshed.revision = native.revision + 1
<1>1. /\ OnDisk.choice \in FontChoices \cup {"unset"} /\ OnDisk.persisted \in BOOLEAN
      /\ OnDisk.error \in {"none", "invalid"} /\ (OnDisk.persisted <=> OnDisk.choice \in FontChoices)
  <2>1. /\ OnDisk.choice = IF fontFile \in FontChoices THEN fontFile ELSE "unset"
        /\ OnDisk.error = IF fontFile = "bad" THEN "invalid" ELSE "none"
    BY DEF OnDisk
  <2>2. OnDisk.persisted = (fontFile \in FontChoices)
    BY Zenon DEF OnDisk
  <2>3. "unset" \notin FontChoices
    BY DEF FontChoices
  <2>4. OnDisk.persisted \in BOOLEAN
    <3>1. CASE fontFile \in FontChoices
      BY <2>2, <3>1
    <3>2. CASE fontFile \notin FontChoices
      BY <2>2, <3>2
    <3> QED BY <3>1, <3>2
  <2>5. OnDisk.choice \in FontChoices \cup {"unset"} /\ OnDisk.error \in {"none", "invalid"}
    BY <2>1
  <2>6. OnDisk.choice \in FontChoices <=> fontFile \in FontChoices
    BY <2>1, <2>3
  <2> QED BY <2>2, <2>4, <2>5, <2>6, Zenon
<1> DEFINE c == OnDisk.choice  p == OnDisk.persisted  e == OnDisk.error
           n == [choice |-> c, persisted |-> p, error |-> e,
                 dismissed |-> native.dismissed, revision |-> native.revision + 1]
<1>2. Refreshed = native \/ Refreshed = n
  BY DEF Refreshed
<1>3. n \in FontSnapshots /\ n.revision = native.revision + 1 /\ n.choice = c /\ n.persisted = p
  <2> HIDE DEF c, p, e
  <2>1. c \in FontChoices \cup {"unset"} /\ p \in BOOLEAN /\ e \in Errors
    BY <1>1 DEF c, p, e, Errors
  <2>2. native \in FontSnapshots
    BY DEF FontsTypeOK
  <2>3. native.dismissed \in BOOLEAN /\ native.revision + 1 \in Int
    BY <2>2 DEF FontSnapshots
  <2>4. n \in FontSnapshots
    BY <2>1, <2>3 DEF FontSnapshots, Errors
  <2>5. n.revision = native.revision + 1 /\ n.choice = c /\ n.persisted = p
    OBVIOUS
  <2> QED BY <2>4, <2>5
<1>5. native \in FontSnapshots /\ (native.persisted <=> native.choice \in FontChoices)
  BY DEF FontsTypeOK
<1> HIDE DEF n, c, p, e
<1>6. p <=> c \in FontChoices
  BY <1>1 DEF c, p
<1>7. Refreshed.persisted <=> Refreshed.choice \in FontChoices
  BY <1>2, <1>3, <1>5, <1>6
<1> QED BY <1>2, <1>3, <1>5, <1>7

LEMMA SetToIs ==
  ASSUME FontsTypeOK, NEW a \in FontActions
  PROVE  /\ SetTo(a) \in FontSnapshots /\ SetTo(a).revision > native.revision
         /\ SetTo(a).persisted <=> SetTo(a).choice \in FontChoices
<1> DEFINE r == Refreshed
<1>1. r \in FontSnapshots /\ r.revision \in Int /\ r.revision >= native.revision
      /\ native.revision \in Int /\ (r.persisted <=> r.choice \in FontChoices)
  BY RefreshedIs DEF FontsTypeOK, FontSnapshots
<1>2. SetTo(a) = IF a = "dismiss" THEN [r EXCEPT !.dismissed = TRUE, !.revision = @ + 1]
                 ELSE [choice |-> a, persisted |-> TRUE, dismissed |-> FALSE, error |-> "none",
                       revision |-> r.revision + 1]
  BY DEF SetTo
<1> HIDE DEF r
<1>3. CASE a = "dismiss"
  <2> DEFINE d == [r EXCEPT !.dismissed = TRUE, !.revision = @ + 1]
  <2>1. d \in FontSnapshots /\ d.revision = r.revision + 1 /\ d.persisted = r.persisted /\ d.choice = r.choice
    BY <1>1, DismissedSnapshots
  <2>2. SetTo(a) = d
    BY <1>2, <1>3
  <2> HIDE DEF d
  <2> QED BY <1>1, <2>1, <2>2
<1>4. CASE a \in FontChoices
  <2>1. a # "dismiss"
    BY <1>4 DEF FontChoices
  <2> DEFINE s == [choice |-> a, persisted |-> TRUE, dismissed |-> FALSE, error |-> "none",
                   revision |-> r.revision + 1]
  <2>2. s \in FontSnapshots /\ s.revision = r.revision + 1 /\ s.persisted /\ s.choice = a
    BY <1>1, <1>4 DEF FontSnapshots
  <2>3. SetTo(a) = s
    BY <1>2, <2>1
  <2> HIDE DEF s
  <2> QED BY <1>1, <1>4, <2>2, <2>3
<1> QED BY <1>3, <1>4 DEF FontActions

\* An operation is overtaken by a later one.
LEMMA StaleIs ==
  ASSUME NEW qs \in SUBSET Request
  PROVE  Stale(qs) \in SUBSET Request /\ \A r \in Stale(qs) : ~r.fresh
<1>1. \A q \in Request : /\ [q EXCEPT !.fresh = FALSE, !.value = Unknown] \in Request
                         /\ ~[q EXCEPT !.fresh = FALSE, !.value = Unknown].fresh
  BY UnknownIs DEF Request
<1> QED BY <1>1 DEF Stale

LEMMA AsksIs ==
  ASSUME NEW a \in Actions
  PROVE  Asks(a) \in Request /\ Asks(a).at = "sent" /\ Asks(a).action = a
BY UnknownIs DEF Asks, Request

(***************************************************************************)
(* A step of a window: its requests, its copy and what it has heard.       *)
(***************************************************************************)
LEMMA WindowKeeps ==
  ASSUME FontsInv, NEW v \in Views,
         NEW s \in SUBSET Request, requests' = [requests EXCEPT ![v] = s],
         \A r \in s : r.fresh => r \in requests[v] \/ r.at = "sent",
         \A r \in s : r.fresh /\ r.action # NoAction => r.action = wish'[v],
         NEW c \in FontSnapshots, snapshot' = [snapshot EXCEPT ![v] = c],
         c.revision >= snapshot[v].revision,
         \/ c \in Told \/ c = snapshot[v]
         \/ c.error \notin {"none", "invalid"} /\ c.revision = snapshot[v].revision,
         temporary' \in [Views -> Actions], wish' \in [Views -> Actions],
         \A u \in Views : u # v => wish'[u] = wish[u],
         \/ news' = news
         \/ news[v] # <<>> /\ news' = [news EXCEPT ![v] = Tail(@)] /\ c.revision >= news[v][1].revision,
         UNCHANGED <<fontFile, native, broadcast>>
  PROVE  FontsInv'
<1> USE DEF FontsInv
<1>1. /\ requests \in [Views -> SUBSET Request] /\ news \in [Views -> Seq(FontSnapshots)]
      /\ snapshot \in [Views -> FontSnapshots] /\ native \in FontSnapshots
      /\ \A x \in FontSnapshots : x.revision \in Int
  BY DEF ChannelsTyped, FontsTypeOK, FontSnapshots
<1>2. /\ requests'[v] = s /\ \A u \in Views : u # v => requests'[u] = requests[u]
      /\ snapshot'[v] = c /\ \A u \in Views : u # v => snapshot'[u] = snapshot[u]
      /\ \A u \in Views : u # v => news'[u] = news[u]
  BY <1>1
<1>3. /\ news'[v] \in Seq(FontSnapshots)
      /\ \A i \in DOMAIN news'[v] : \E j \in DOMAIN news[v] : news'[v][i] = news[v][j]
      /\ news'[v] # <<>> => news[v] # <<>> /\ news'[v][Len(news'[v])] = news[v][Len(news[v])]
      /\ news'[v] = <<>> /\ news[v] # <<>> => c.revision >= news[v][Len(news[v])].revision
  <2>1. CASE news' = news
    BY <1>1, <2>1
  <2>2. CASE news[v] # <<>> /\ news' = [news EXCEPT ![v] = Tail(@)] /\ c.revision >= news[v][1].revision
    <3> DEFINE n == news[v]
    <3>1. n \in Seq(FontSnapshots) /\ n # <<>> /\ news'[v] = Tail(n)
      BY <1>1, <2>2
    <3> HIDE DEF n
    <3>2. /\ Tail(n) \in Seq(FontSnapshots) /\ Len(Tail(n)) = Len(n) - 1 /\ Len(n) \in Nat \ {0}
          /\ \A i \in 1..Len(n) - 1 : Tail(n)[i] = n[i + 1] /\ i + 1 \in 1..Len(n)
          /\ Tail(n) = <<>> <=> Len(n) = 1
      <4>1. Tail(n) \in Seq(FontSnapshots) /\ Len(Tail(n)) = Len(n) - 1 /\ Len(n) \in Nat /\ Len(n) # 0
        BY <3>1
      <4>2. \A i \in 1..Len(n) - 1 : Tail(n)[i] = n[i + 1]
        BY <3>1, <4>1
      <4>3. Tail(n) = <<>> <=> Len(Tail(n)) = 0
        BY <4>1, EmptySeq
      <4> QED BY <4>1, <4>2, <4>3
    <3>3. DOMAIN n = 1..Len(n) /\ DOMAIN Tail(n) = 1..Len(n) - 1
      BY <3>1, <3>2
    <3>4. \A i \in DOMAIN Tail(n) : \E j \in DOMAIN n : Tail(n)[i] = n[j]
      BY <3>2, <3>3
    <3>5. Tail(n) # <<>> => Tail(n)[Len(Tail(n))] = n[Len(n)]
      BY <3>2
    <3> QED BY <2>2, <3>1, <3>2, <3>4, <3>5 DEF n
  <2> QED BY <2>1, <2>2
<1>4. snapshot' \in [Views -> FontSnapshots] /\ requests' \in [Views -> SUBSET Request]
      /\ news' \in [Views -> Seq(FontSnapshots)]
  BY <1>1, <1>3
<1>5. c.revision <= native.revision
  BY DEF NoneAhead, FontsTypeOK
<1>6. FontsTypeOK'
  BY <1>2, <1>4, <1>5 DEF FontsTypeOK, Actions
<1>7. ChannelsTyped'
  BY <1>4 DEF ChannelsTyped
<1>8. Told' \subseteq Told
  <2> SUFFICES ASSUME NEW t \in Told' PROVE t \in Told
    OBVIOUS
  <2>1. CASE t = native'
    BY <2>1, ToldIs DEF ToldWays
  <2>2. ASSUME NEW u \in Views, NEW i \in DOMAIN news'[u], news'[u][i] = t PROVE t \in Told
    <3>1. \E j \in DOMAIN news[u] : news[u][j] = t
      BY <1>2, <1>3, <2>2
    <3> QED BY <3>1, ToldIs DEF ToldWays
  <2>3. ASSUME NEW u \in Views, NEW q \in requests'[u], Counts(q, t) PROVE t \in Told
    <3>1. q \in requests[u]
      BY <1>2, <2>3 DEF Counts
    <3> QED BY <2>3, <3>1, ToldIs DEF ToldWays
  <2>4. ASSUME NEW u \in Views, Keeps(u, t)' PROVE t \in Told
    <3>1. CASE u # v
      <4>1. Keeps(u, t)
        BY <1>2, <2>4, <3>1 DEF Keeps
      <4> QED BY <4>1, ToldIs DEF ToldWays
    <3>2. CASE u = v
      <4>1. c = t /\ t.error \in {"none", "invalid"} /\ t.revision >= 0
        BY <1>2, <2>4, <3>2 DEF Keeps
      <4>2. t \in Told \/ Keeps(v, t)
        BY <4>1 DEF Keeps
      <4> QED BY <4>2, ToldIs DEF ToldWays
    <3> QED BY <3>1, <3>2
  <2>5. \/ t = native' \/ \E u \in Views : \E i \in DOMAIN news'[u] : news'[u][i] = t
        \/ \E u \in Views : \E q \in requests'[u] : Counts(q, t)
        \/ \E u \in Views : Keeps(u, t)'
    BY ToldIsNext DEF ToldWays, Counts
  <2> QED BY <2>1, <2>2, <2>3, <2>4, <2>5
<1>9. NoneAhead' /\ OneStatePerRevision'
  BY <1>1, <1>8, RevisionsKeep
<1>10. NewsIsComing'
  <2> SUFFICES ASSUME NEW u \in Views
               PROVE  IF news'[u] = <<>> THEN snapshot'[u].revision >= broadcast
                      ELSE news'[u][Len(news'[u])].revision >= broadcast
    BY DEF NewsIsComing
  <2>1. CASE u # v
    BY <1>2, <2>1 DEF NewsIsComing
  <2>2. CASE u = v
    <3>1. broadcast \in Int /\ c.revision \in Int /\ snapshot[v].revision \in Int
      BY <1>1 DEF ChannelsTyped
    <3>2. news[v] # <<>> => news[v][Len(news[v])].revision \in Int
      BY <1>1
    <3> QED BY <1>2, <1>3, <2>2, <3>1, <3>2 DEF NewsIsComing
  <2> QED BY <2>1, <2>2
<1>11. WishesCount'
  BY <1>2 DEF WishesCount
<1> QED BY <1>6, <1>7, <1>9, <1>10, <1>11

(***************************************************************************)
(* A step of the native service: its snapshot, an answer and the events.   *)
(***************************************************************************)
LEMMA ServiceKeeps ==
  ASSUME FontsInv, fontFile' \in FontChoices \cup {"absent", "bad"},
         native' \in FontSnapshots, native'.persisted <=> native'.choice \in FontChoices,
         native' = native \/ native'.revision > native.revision,
         requests' \in [Views -> SUBSET Request],
         \A v \in Views : \A a \in requests'[v] :
           \/ a \in requests[v]
           \/ /\ \A t : Counts(a, t) => t = native'
              /\ \E q \in requests[v] : a.action = q.action /\ (a.fresh => q.fresh),
         \/ news' = news /\ broadcast' = broadcast
         \/ news' = [u \in Views |-> Append(news[u], native')] /\ broadcast' = native'.revision,
         UNCHANGED <<snapshot, temporary, wish>>
  PROVE  FontsInv'
<1> USE DEF FontsInv
<1>1. /\ news \in [Views -> Seq(FontSnapshots)] /\ snapshot \in [Views -> FontSnapshots]
      /\ native \in FontSnapshots /\ broadcast \in Int /\ broadcast <= native.revision
      /\ \A x \in FontSnapshots : x.revision \in Int
  BY DEF ChannelsTyped, FontsTypeOK, FontSnapshots
<1>2. native'.revision >= native.revision /\ native.revision \in Int /\ native'.revision \in Int
  BY <1>1
<1>3. FontsTypeOK'
  BY <1>1, <1>2 DEF FontsTypeOK
<1>4. \A u \in Views : LET m == Append(news[u], native') IN
        /\ m \in Seq(FontSnapshots) /\ m # <<>> /\ m[Len(m)] = native'
        /\ \A i \in DOMAIN m : m[i] = native' \/ \E j \in DOMAIN news[u] : m[i] = news[u][j]
  <2> SUFFICES ASSUME NEW n \in Seq(FontSnapshots), NEW x \in FontSnapshots
               PROVE  LET m == Append(n, x) IN
                      /\ m \in Seq(FontSnapshots) /\ m # <<>> /\ m[Len(m)] = x
                      /\ \A i \in DOMAIN m : m[i] = x \/ \E j \in DOMAIN n : m[i] = n[j]
    BY <1>1
  <2>1. /\ Append(n, x) \in Seq(FontSnapshots) /\ Len(Append(n, x)) = Len(n) + 1 /\ Len(n) \in Nat
        /\ DOMAIN Append(n, x) = 1..Len(n) + 1 /\ DOMAIN n = 1..Len(n)
    OBVIOUS
  <2>2. Append(n, x)[Len(n) + 1] = x /\ \A i \in 1..Len(n) : Append(n, x)[i] = n[i]
    OBVIOUS
  <2>3. Append(n, x) # <<>>
    BY <2>1
  <2>4. \A i \in 1..Len(n) + 1 : i = Len(n) + 1 \/ i \in 1..Len(n)
    BY <2>1
  <2> QED BY <2>1, <2>2, <2>3, <2>4
<1>5. ChannelsTyped'
  <2>1. news' \in [Views -> Seq(FontSnapshots)]
    BY <1>1, <1>4
  <2>2. broadcast' \in Int /\ broadcast' <= native'.revision
    BY <1>1, <1>2
  <2> QED BY <2>1, <2>2 DEF ChannelsTyped
<1>6. Told' \subseteq Told \cup {native'}
  <2> SUFFICES ASSUME NEW t \in Told', t # native' PROVE t \in Told
    OBVIOUS
  <2>1. ASSUME NEW u \in Views, NEW i \in DOMAIN news'[u], news'[u][i] = t PROVE t \in Told
    <3>1. \E j \in DOMAIN news[u] : news[u][j] = t
      BY <1>1, <1>4, <2>1
    <3> QED BY <3>1, ToldIs DEF ToldWays
  <2>2. ASSUME NEW u \in Views, NEW q \in requests'[u], Counts(q, t) PROVE t \in Told
    <3>1. q \in requests[u]
      BY <2>2
    <3> QED BY <2>2, <3>1, ToldIs DEF ToldWays
  <2>3. ASSUME NEW u \in Views, Keeps(u, t)' PROVE t \in Told
    <3>1. Keeps(u, t)
      BY <2>3 DEF Keeps
    <3> QED BY <3>1, ToldIs DEF ToldWays
  <2>4. \/ t = native' \/ \E u \in Views : \E i \in DOMAIN news'[u] : news'[u][i] = t
        \/ \E u \in Views : \E q \in requests'[u] : Counts(q, t)
        \/ \E u \in Views : Keeps(u, t)'
    BY ToldIsNext DEF ToldWays, Counts
  <2> QED BY <2>1, <2>2, <2>3, <2>4
<1>7. NoneAhead' /\ OneStatePerRevision'
  BY <1>6, RevisionsKeep
<1>8. NewsIsComing'
  <2>1. CASE news' = news /\ broadcast' = broadcast
    BY <2>1 DEF NewsIsComing
  <2>2. CASE news' = [u \in Views |-> Append(news[u], native')] /\ broadcast' = native'.revision
    <3>1. \A u \in Views : news'[u] # <<>> /\ news'[u][Len(news'[u])] = native'
      BY <1>4, <2>2
    <3> QED BY <1>2, <2>2, <3>1 DEF NewsIsComing
  <2> QED BY <2>1, <2>2
<1>9. WishesCount'
  <2> SUFFICES ASSUME NEW v \in Views, NEW a \in requests'[v], a.fresh, a.action # NoAction
               PROVE  a.action = wish[v]
    BY DEF WishesCount
  <2>1. CASE a \in requests[v]
    BY <2>1 DEF WishesCount
  <2>2. CASE a \notin requests[v]
    <3>1. PICK q \in requests[v] : a.action = q.action /\ (a.fresh => q.fresh)
      BY <2>2
    <3> QED BY <3>1 DEF WishesCount
  <2> QED BY <2>1, <2>2
<1> QED BY <1>3, <1>5, <1>7, <1>8, <1>9

(***************************************************************************)
(* The actions.                                                            *)
(***************************************************************************)
\* What every request and every snapshot of a window is
LEMMA WindowIs ==
  ASSUME FontsInv, NEW v \in Views
  PROVE  /\ requests[v] \in SUBSET Request /\ requests \in [Views -> SUBSET Request]
         /\ snapshot[v] \in FontSnapshots /\ snapshot \in [Views -> FontSnapshots]
         /\ temporary \in [Views -> Actions] /\ wish \in [Views -> Actions]
         /\ \A s \in FontSnapshots : s.revision \in Int
         /\ Told \subseteq FontSnapshots
         /\ \A q \in requests[v] : q.at = "answered" /\ q.fresh => q.value \in Told
<1>1. \A q \in requests[v] : q.at = "answered" /\ q.fresh => q.value \in Told
  BY ToldIs DEF ToldWays, Counts
<1> QED
  BY <1>1, ToldAreSnapshots DEF FontsInv, FontsTypeOK, ChannelsTyped, Actions, FontSnapshots

LEMMA FileChangesKeeps == ASSUME FontsInv, NEW to \in {"absent", "bad"}, FileChanges(to) PROVE FontsInv'
<1>1. UNCHANGED <<native, broadcast, snapshot, temporary, requests, news, wish>> /\ fontFile' = to
  BY DEF FileChanges, window
<1>2. native \in FontSnapshots /\ (native.persisted <=> native.choice \in FontChoices)
      /\ requests \in [Views -> SUBSET Request]
  BY DEF FontsInv, FontsTypeOK, ChannelsTyped
<1> QED BY <1>1, <1>2, ServiceKeeps

\* The answer of a command
LEMMA AnswerIs ==
  ASSUME FontsInv, NEW v \in Views, NEW q \in requests[v], NEW at \in {"answered", "failed"},
         NEW value \in FontSnapshots, Answer(v, q, at, value)
  PROVE  /\ requests' \in [Views -> SUBSET Request]
         /\ \A u \in Views : \A a \in requests'[u] :
              \/ a \in requests[u]
              \/ /\ \A t : Counts(a, t) => at = "answered" /\ t = value
                 /\ \E p \in requests[u] : a.action = p.action /\ (a.fresh => p.fresh)
<1> DEFINE w == IF q.fresh THEN value ELSE Unknown
           a == [q EXCEPT !.at = at, !.value = w]
<1>1. q \in Request /\ requests[v] \in SUBSET Request
  BY WindowIs
<1>2. w \in FontSnapshots /\ (q.fresh => w = value)
  BY UnknownIs
<1>3. requests' = [requests EXCEPT ![v] = (requests[v] \ {q}) \cup {a}]
  BY DEF Answer
<1> HIDE DEF w
<1>4. a \in Request /\ a.action = q.action /\ (a.fresh = q.fresh) /\ a.at = at /\ a.value = w
  BY <1>1, <1>2 DEF Request
<1> HIDE DEF a
<1>5. requests' \in [Views -> SUBSET Request] /\ requests'[v] = (requests[v] \ {q}) \cup {a}
      /\ \A u \in Views : u # v => requests'[u] = requests[u]
  BY <1>1, <1>3, <1>4, WindowIs
<1>6. \A t : Counts(a, t) => at = "answered" /\ t = value
  BY <1>2, <1>4 DEF Counts
<1>7. a.action = q.action /\ (a.fresh => q.fresh)
  BY <1>4
<1> QED BY <1>5, <1>6, <1>7

LEMMA GetPreferencesKeeps ==
  ASSUME FontsInv, NEW v \in Views, NEW q \in requests[v], GetPreferences(v, q) PROVE FontsInv'
<1>1. /\ fontFile' = fontFile /\ fontFile \in FontChoices \cup {"absent", "bad"}
      /\ UNCHANGED <<snapshot, temporary, wish>> /\ news' = news /\ broadcast' = broadcast
  BY DEF GetPreferences, FontsInv, FontsTypeOK
<1>2. native \in FontSnapshots /\ (native.persisted <=> native.choice \in FontChoices)
      /\ native.revision \in Int
  BY DEF FontsInv, FontsTypeOK, FontSnapshots
<1>3. CASE native' = Refreshed /\ Answer(v, q, "answered", Refreshed)
  <2>1. /\ Refreshed \in FontSnapshots /\ (Refreshed.persisted <=> Refreshed.choice \in FontChoices)
        /\ Refreshed = native \/ Refreshed.revision > native.revision
    BY <1>2, RefreshedIs DEF FontsInv
  <2> HIDE DEF FontsInv
  <2>2. /\ requests' \in [Views -> SUBSET Request]
        /\ \A u \in Views : \A a \in requests'[u] :
             \/ a \in requests[u]
             \/ /\ \A t : Counts(a, t) => t = native'
                /\ \E p \in requests[u] : a.action = p.action /\ (a.fresh => p.fresh)
    BY <1>3, <2>1, AnswerIs
  <2> QED BY <1>1, <1>3, <2>1, <2>2, ServiceKeeps
<1>4. CASE Answer(v, q, "failed", Unknown) /\ native' = native
  <2>1. /\ requests' \in [Views -> SUBSET Request]
        /\ \A u \in Views : \A a \in requests'[u] :
             \/ a \in requests[u]
             \/ /\ \A t : Counts(a, t) => t = native'
                /\ \E p \in requests[u] : a.action = p.action /\ (a.fresh => p.fresh)
    BY <1>4, UnknownIs, AnswerIs
  <2> QED BY <1>1, <1>2, <1>4, <2>1, ServiceKeeps
<1> QED BY <1>3, <1>4 DEF GetPreferences

LEMMA SetPreferencesKeeps ==
  ASSUME FontsInv, NEW v \in Views, NEW q \in requests[v], SetPreferences(v, q) PROVE FontsInv'
<1>1. /\ UNCHANGED <<snapshot, temporary, wish>> /\ q.action \in FontActions
  BY WindowIs DEF SetPreferences, Request, Actions
<1>2. native \in FontSnapshots /\ native.revision \in Int /\ fontFile \in FontChoices \cup {"absent", "bad"}
  BY DEF FontsInv, FontsTypeOK, FontSnapshots
<1>3. CASE /\ native' = SetTo(q.action)
           /\ fontFile' = IF q.action = "dismiss" THEN fontFile ELSE q.action
           /\ Answer(v, q, "answered", native') /\ broadcast' = native'.revision
           /\ news' = [u \in Views |-> Append(news[u], native')]
  <2>1. /\ native' \in FontSnapshots /\ (native'.persisted <=> native'.choice \in FontChoices)
        /\ native'.revision > native.revision
    BY <1>1, <1>3, SetToIs DEF FontsInv
  <2>2. fontFile' \in FontChoices \cup {"absent", "bad"}
    BY <1>1, <1>2, <1>3 DEF FontActions
  <2>3. /\ requests' \in [Views -> SUBSET Request]
        /\ \A u \in Views : \A a \in requests'[u] :
             \/ a \in requests[u]
             \/ /\ \A t : Counts(a, t) => t = native'
                /\ \E p \in requests[u] : a.action = p.action /\ (a.fresh => p.fresh)
    BY <1>3, <2>1, AnswerIs
  <2> QED BY <1>1, <1>3, <2>1, <2>2, <2>3, ServiceKeeps
<1>4. CASE /\ native' \in {native, Refreshed} /\ Answer(v, q, "failed", Unknown)
           /\ UNCHANGED <<fontFile, broadcast, news>>
  <2>1. /\ Refreshed \in FontSnapshots /\ (Refreshed.persisted <=> Refreshed.choice \in FontChoices)
        /\ Refreshed = native \/ Refreshed.revision > native.revision
    BY <1>2, RefreshedIs DEF FontsInv
  <2>2. /\ requests' \in [Views -> SUBSET Request]
        /\ \A u \in Views : \A a \in requests'[u] :
             \/ a \in requests[u]
             \/ /\ \A t : Counts(a, t) => t = native'
                /\ \E p \in requests[u] : a.action = p.action /\ (a.fresh => p.fresh)
    BY <1>4, UnknownIs, AnswerIs
  <2>3. /\ native' \in FontSnapshots /\ (native'.persisted <=> native'.choice \in FontChoices)
        /\ native' = native \/ native'.revision > native.revision
    BY <1>2, <1>4, <2>1 DEF FontsInv, FontsTypeOK
  <2>4. fontFile' \in FontChoices \cup {"absent", "bad"}
    BY <1>2, <1>4
  <2> QED BY <1>1, <1>4, <2>2, <2>3, <2>4, ServiceKeeps
<1> QED BY <1>3, <1>4 DEF SetPreferences

LEMMA RefreshKeeps == ASSUME FontsInv, NEW v \in Views, Refresh(v) PROVE FontsInv'
<1> DEFINE a == Asks(NoAction)
           s == requests[v] \cup {a}
<1>1. /\ requests' = [requests EXCEPT ![v] = s]
      /\ UNCHANGED <<fontFile, native, broadcast, snapshot, temporary, news, wish>>
  BY DEF Refresh
<1>2. a \in Request /\ a.at = "sent" /\ a.action = NoAction
  BY AsksIs DEF Actions
<1>3. snapshot' = [snapshot EXCEPT ![v] = snapshot[v]]
  BY <1>1, WindowIs
<1> HIDE DEF a
<1>4. /\ s \in SUBSET Request /\ \A r \in s : r.fresh => r \in requests[v] \/ r.at = "sent"
      /\ \A r \in s : r.fresh /\ r.action # NoAction => r.action = wish[v]
  BY <1>2, WindowIs DEF FontsInv, WishesCount
<1>5. snapshot[v] \in FontSnapshots /\ snapshot[v].revision >= snapshot[v].revision
      /\ temporary \in [Views -> Actions] /\ wish \in [Views -> Actions]
  BY WindowIs
<1> HIDE DEF s
<1> QED BY <1>1, <1>3, <1>4, <1>5, WindowKeeps

LEMMA SaveKeeps == ASSUME FontsInv, NEW v \in Views, NEW a \in FontActions, Save(v, a) PROVE FontsInv'
<1> DEFINE n == Asks(a)
           o == Stale(requests[v])
           s == o \cup {n}
<1>1. /\ requests' = [requests EXCEPT ![v] = s] /\ wish' = [wish EXCEPT ![v] = a]
      /\ UNCHANGED <<fontFile, native, broadcast, snapshot, temporary, news>>
  BY DEF Save
<1>2. a \in Actions /\ n \in Request /\ n.at = "sent" /\ n.action = a
  BY AsksIs DEF Actions
<1>3. o \in SUBSET Request /\ \A r \in o : ~r.fresh
  BY WindowIs, StaleIs
<1>4. snapshot' = [snapshot EXCEPT ![v] = snapshot[v]]
  BY <1>1, WindowIs
<1>5. wish' \in [Views -> Actions] /\ wish'[v] = a /\ \A u \in Views : u # v => wish'[u] = wish[u]
  BY <1>1, <1>2, WindowIs
<1> HIDE DEF n, o
<1>6. /\ s \in SUBSET Request /\ \A r \in s : r.fresh => r \in requests[v] \/ r.at = "sent"
      /\ \A r \in s : r.fresh /\ r.action # NoAction => r.action = wish'[v]
  BY <1>2, <1>3, <1>5
<1>7. snapshot[v] \in FontSnapshots /\ snapshot[v].revision >= snapshot[v].revision
      /\ temporary' \in [Views -> Actions]
  BY <1>1, WindowIs
<1> HIDE DEF s
<1> QED BY <1>1, <1>4, <1>5, <1>6, <1>7, WindowKeeps

\* acceptFontPreferences of an answer or an event
LEMMA TakeOverKeeps ==
  ASSUME FontsInv, NEW v \in Views, NEW value \in Told, NEW left \in SUBSET requests[v],
         TakeOver(v, value, left),
         \/ news' = news
         \/ news[v] # <<>> /\ news' = [news EXCEPT ![v] = Tail(@)] /\ value = news[v][1],
         UNCHANGED <<fontFile, native, broadcast, wish>>
  PROVE  FontsInv'
<1>1. /\ left \in SUBSET Request /\ value \in FontSnapshots
      /\ value.revision \in Int /\ snapshot[v].revision \in Int
  BY WindowIs
<1>2. \A r \in left : r.fresh /\ r.action # NoAction => r.action = wish[v]
  BY DEF FontsInv, WishesCount
<1>3. CASE IsNews(v, value)
  <2> DEFINE s == Stale(left)
  <2>1. /\ snapshot' = [snapshot EXCEPT ![v] = value] /\ requests' = [requests EXCEPT ![v] = s]
        /\ temporary' = [temporary EXCEPT ![v] =
                           IF value.revision > snapshot[v].revision THEN NoAction ELSE @]
    BY <1>3 DEF TakeOver
  <2>2. s \in SUBSET Request /\ \A r \in s : ~r.fresh
    BY <1>1, StaleIs
  <2>3. temporary' \in [Views -> Actions] /\ wish' \in [Views -> Actions]
    BY <2>1, WindowIs DEF Actions
  <2>4. value.revision >= snapshot[v].revision
    BY <1>3 DEF IsNews
  <2>5. /\ \A r \in s : r.fresh => r \in requests[v] \/ r.at = "sent"
        /\ \A r \in s : r.fresh /\ r.action # NoAction => r.action = wish'[v]
    BY <2>2
  <2>6. value = news[v][1] => value.revision >= news[v][1].revision
    BY <1>1
  <2>7. \A u \in Views : u # v => wish'[u] = wish[u]
    OBVIOUS
  <2> HIDE DEF s
  <2> QED BY <1>1, <2>1, <2>2, <2>3, <2>4, <2>5, <2>6, <2>7, WindowKeeps
<1>4. CASE ~IsNews(v, value)
  <2>1. requests' = [requests EXCEPT ![v] = left] /\ UNCHANGED <<snapshot, temporary>>
    BY <1>4 DEF TakeOver
  <2>2. snapshot[v].revision >= value.revision
    BY <1>1, <1>4 DEF IsNews
  <2>3. /\ snapshot' = [snapshot EXCEPT ![v] = snapshot[v]] /\ snapshot[v] \in FontSnapshots
        /\ temporary' \in [Views -> Actions] /\ wish' \in [Views -> Actions]
        /\ snapshot[v].revision >= snapshot[v].revision
    BY <1>1, <2>1, WindowIs
  <2> QED BY <1>1, <1>2, <2>1, <2>2, <2>3, WindowKeeps
<1> QED BY <1>3, <1>4

\* An answer or a failure that does not count leaves the copy as it is.
LEMMA IgnoreKeeps ==
  ASSUME FontsInv, NEW v \in Views, NEW q \in requests[v], Ignore(v, q),
         UNCHANGED <<fontFile, native, broadcast, news, wish>>
  PROVE  FontsInv'
<1> DEFINE s == requests[v] \ {q}
<1>1. requests' = [requests EXCEPT ![v] = s] /\ UNCHANGED <<snapshot, temporary>>
  BY DEF Ignore, Left
<1>2. /\ s \in SUBSET Request /\ \A r \in s : r \in requests[v]
      /\ \A r \in s : r.fresh /\ r.action # NoAction => r.action = wish[v]
  BY WindowIs DEF FontsInv, WishesCount
<1>3. /\ snapshot' = [snapshot EXCEPT ![v] = snapshot[v]] /\ snapshot[v] \in FontSnapshots
      /\ temporary' \in [Views -> Actions] /\ wish' \in [Views -> Actions]
      /\ snapshot[v].revision >= snapshot[v].revision
  BY <1>1, WindowIs
<1> HIDE DEF s
<1> QED BY <1>1, <1>2, <1>3, WindowKeeps

LEMMA GetReturnsKeeps ==
  ASSUME FontsInv, NEW v \in Views, NEW q \in requests[v], GetReturns(v, q) PROVE FontsInv'
<1>1. UNCHANGED <<fontFile, native, broadcast, news, wish>> /\ q.at = "answered"
  BY DEF GetReturns
<1>2. CASE q.fresh
  <2>1. q.value \in Told /\ Left(v, q) \in SUBSET requests[v] /\ TakeOver(v, q.value, Left(v, q))
    BY <1>1, <1>2, WindowIs DEF GetReturns, Left
  <2> QED BY <1>1, <2>1, TakeOverKeeps
<1>3. CASE ~q.fresh
  <2>1. Ignore(v, q)
    BY <1>3 DEF GetReturns
  <2> QED BY <1>1, <2>1, IgnoreKeeps
<1> QED BY <1>2, <1>3

LEMMA SaveReturnsKeeps ==
  ASSUME FontsInv, NEW v \in Views, NEW q \in requests[v], SaveReturns(v, q) PROVE FontsInv'
<1>1. UNCHANGED <<fontFile, native, broadcast, news, wish>> /\ q.at = "answered"
  BY DEF SaveReturns
<1>2. CASE q.fresh /\ q.value.revision >= snapshot[v].revision
  <2> DEFINE s == requests[v] \ {q}
  <2>1. /\ snapshot' = [snapshot EXCEPT ![v] = q.value] /\ requests' = [requests EXCEPT ![v] = s]
        /\ temporary' = [temporary EXCEPT ![v] = NoAction]
    BY <1>2 DEF SaveReturns, Left
  <2>2. /\ s \in SUBSET Request /\ \A r \in s : r \in requests[v]
        /\ \A r \in s : r.fresh /\ r.action # NoAction => r.action = wish[v]
    BY WindowIs DEF FontsInv, WishesCount
  <2>3. q.value \in Told /\ q.value \in FontSnapshots
    BY <1>1, <1>2, WindowIs
  <2>4. temporary' \in [Views -> Actions] /\ wish' \in [Views -> Actions]
    BY <1>1, <2>1, WindowIs DEF Actions
  <2> HIDE DEF s
  <2> QED BY <1>1, <1>2, <2>1, <2>2, <2>3, <2>4, WindowKeeps
<1>3. CASE ~(q.fresh /\ q.value.revision >= snapshot[v].revision)
  <2>1. Ignore(v, q)
    BY <1>3 DEF SaveReturns
  <2> QED BY <1>1, <2>1, IgnoreKeeps
<1> QED BY <1>2, <1>3

LEMMA RequestFailsKeeps ==
  ASSUME FontsInv, NEW v \in Views, NEW q \in requests[v], RequestFails(v, q) PROVE FontsInv'
<1> DEFINE s == requests[v] \ {q}
<1>1. UNCHANGED <<fontFile, native, broadcast, news, wish>> /\ requests' = [requests EXCEPT ![v] = s]
  BY DEF RequestFails, Left
<1>2. /\ s \in SUBSET Request /\ \A r \in s : r \in requests[v]
      /\ \A r \in s : r.fresh /\ r.action # NoAction => r.action = wish[v]
  BY WindowIs DEF FontsInv, WishesCount
<1>3. q \in Request /\ q.action \in Actions /\ snapshot[v] \in FontSnapshots
      /\ snapshot[v].revision \in Int /\ snapshot[v].revision >= snapshot[v].revision
      /\ wish' \in [Views -> Actions]
  BY <1>1, WindowIs DEF Request
<1> HIDE DEF s
<1>4. CASE ~q.fresh
  <2>1. UNCHANGED <<snapshot, temporary>>
    BY <1>4 DEF RequestFails, FailureCounts
  <2>2. snapshot' = [snapshot EXCEPT ![v] = snapshot[v]] /\ temporary' \in [Views -> Actions]
    BY <2>1, WindowIs
  <2> QED BY <1>1, <1>2, <1>3, <2>2, WindowKeeps
<1>5. CASE q.fresh /\ q.action = NoAction
  <2> DEFINE c == [snapshot[v] EXCEPT !.choice = "unset", !.persisted = FALSE, !.error = "restore"]
  <2>1. snapshot' = [snapshot EXCEPT ![v] = c] /\ temporary' = [temporary EXCEPT ![v] = NoAction]
    BY <1>5 DEF RequestFails, FailureCounts
  <2>2. c \in FontSnapshots /\ c.revision = snapshot[v].revision /\ c.error = "restore"
    BY <1>3, RestoredSnapshots
  <2>3. temporary' \in [Views -> Actions]
    BY <2>1, WindowIs DEF Actions
  <2> HIDE DEF c
  <2>4. c.revision >= snapshot[v].revision /\ c.error \notin {"none", "invalid"}
    BY <1>3, <2>2
  <2> QED BY <1>1, <1>2, <1>3, <2>1, <2>2, <2>3, <2>4, WindowKeeps
<1>6. CASE q.fresh /\ q.action # NoAction
  <2> DEFINE c == [snapshot[v] EXCEPT !.error = "save"]
  <2>1. snapshot' = [snapshot EXCEPT ![v] = c] /\ temporary' = [temporary EXCEPT ![v] = q.action]
    BY <1>6 DEF RequestFails, FailureCounts
  <2>2. c \in FontSnapshots /\ c.revision = snapshot[v].revision /\ c.error = "save"
    BY <1>3, FailedSnapshots
  <2>3. temporary' \in [Views -> Actions]
    BY <1>3, <2>1, WindowIs
  <2> HIDE DEF c
  <2>4. c.revision >= snapshot[v].revision /\ c.error \notin {"none", "invalid"}
    BY <1>3, <2>2
  <2> QED BY <1>1, <1>2, <1>3, <2>1, <2>2, <2>3, <2>4, WindowKeeps
<1> QED BY <1>4, <1>5, <1>6

LEMMA ChangeArrivesKeeps == ASSUME FontsInv, NEW v \in Views, ChangeArrives(v) PROVE FontsInv'
<1>1. /\ news[v] # <<>> /\ news' = [news EXCEPT ![v] = Tail(@)]
      /\ TakeOver(v, Head(news[v]), requests[v])
      /\ UNCHANGED <<fontFile, native, broadcast, wish>>
  BY DEF ChangeArrives, Hear
<1>2. news[v] \in Seq(FontSnapshots)
  BY DEF FontsInv, ChannelsTyped
<1>3. Head(news[v]) = news[v][1] /\ 1 \in DOMAIN news[v]
  BY <1>1, <1>2
<1>4. Head(news[v]) \in Told
  BY <1>3, ToldIs DEF ToldWays
<1> QED BY <1>1, <1>3, <1>4, TakeOverKeeps

LEMMA FontsInductive == ASSUME FontsInv, [NextFonts]_fonts PROVE FontsInv'
<1>1. CASE UNCHANGED fonts
  <2>1. /\ UNCHANGED <<fontFile, native, broadcast, snapshot, temporary, requests, news, wish>>
    BY <1>1 DEF fonts, window
  <2>2. native \in FontSnapshots /\ (native.persisted <=> native.choice \in FontChoices)
        /\ requests \in [Views -> SUBSET Request] /\ fontFile \in FontChoices \cup {"absent", "bad"}
    BY DEF FontsInv, FontsTypeOK, ChannelsTyped
  <2> QED BY <2>1, <2>2, ServiceKeeps
<1>2. CASE \E to \in {"absent", "bad"} : FileChanges(to)
  BY <1>2, FileChangesKeeps
<1>3. ASSUME NEW v \in Views, \/ Refresh(v) \/ ChangeArrives(v)
                              \/ \E a \in FontActions : Save(v, a)
      PROVE FontsInv'
  BY <1>3, RefreshKeeps, ChangeArrivesKeeps, SaveKeeps
<1>4. ASSUME NEW v \in Views, NEW q \in requests[v],
             \/ GetPreferences(v, q) \/ SetPreferences(v, q)
             \/ GetReturns(v, q) \/ SaveReturns(v, q) \/ RequestFails(v, q)
      PROVE FontsInv'
  BY <1>4, GetPreferencesKeeps, SetPreferencesKeeps, GetReturnsKeeps, SaveReturnsKeeps, RequestFailsKeeps
<1> QED BY <1>1, <1>2, <1>3, <1>4 DEF NextFonts

LEMMA FontsHold == FontsSpec => []FontsInv
BY FontsInitial, FontsInductive, PTL DEF FontsSpec

\* Every variable keeps its type, and no window is ahead of the native snapshot.
THEOREM FontsTypes == FontsSpec => []FontsTypeOK
<1>1. FontsInv => FontsTypeOK
  BY DEF FontsInv
<1> QED BY <1>1, FontsHold, PTL

\* Of all snapshots that are told, on their way or kept, those with one revision are the same
\* (set_choice, dismiss and refresh count a revision for every change).
THEOREM RevisionsNameStates == FontsSpec => []OneStatePerRevision
<1>1. FontsInv => OneStatePerRevision
  BY DEF FontsInv
<1> QED BY <1>1, FontsHold, PTL

\* A window without events on their way knows of the last change that was told, however many
\* answers it has left out (acceptFontPreferences).
THEOREM ChangesAreHeard == FontsSpec => []HeardAll
<1>1. FontsInv => HeardAll
  BY DEF FontsInv, NewsIsComing, HeardAll
<1> QED BY <1>1, FontsHold, PTL

\* The two together: windows that have heard all agree on the font preference.
THEOREM FontsAreAgreed == FontsSpec => []FontsAgree
<1> QED BY RevisionsNameStates, ChangesAreHeard, PTL DEF FontsAgree

(***************************************************************************)
(* What a step never does.                                                 *)
(***************************************************************************)
\* The copy of a window is never replaced by an older one (acceptFontPreferences).
THEOREM NeverGoesBack == FontsSpec => NeverBack
<1> DEFINE Step == \A v \in Views : snapshot'[v].revision >= snapshot[v].revision
<1>1. ASSUME FontsInv, [NextFonts]_fonts PROVE [Step]_fonts
  <2> SUFFICES ASSUME NextFonts, NEW u \in Views PROVE snapshot'[u].revision >= snapshot[u].revision
    BY <1>1
  <2>1. snapshot \in [Views -> FontSnapshots] /\ \A s \in FontSnapshots : s.revision \in Int
    BY <1>1, WindowIs
  <2>2. CASE UNCHANGED snapshot
    BY <2>1, <2>2
  <2>3. ASSUME NEW v \in Views, NEW x, NEW left, TakeOver(v, x, left)
        PROVE  snapshot'[u].revision >= snapshot[u].revision
    BY <2>1, <2>3 DEF TakeOver, IsNews
  <2>4. ASSUME NEW v \in Views, NEW q \in requests[v], GetReturns(v, q)
        PROVE  snapshot'[u].revision >= snapshot[u].revision
    BY <2>2, <2>3, <2>4 DEF GetReturns, Ignore
  <2>5. ASSUME NEW v \in Views, NEW q \in requests[v], SaveReturns(v, q)
        PROVE  snapshot'[u].revision >= snapshot[u].revision
    BY <2>1, <2>2, <2>5 DEF SaveReturns, Ignore
  <2>6. ASSUME NEW v \in Views, NEW q \in requests[v], RequestFails(v, q)
        PROVE  snapshot'[u].revision >= snapshot[u].revision
    <3> DEFINE c == [snapshot[v] EXCEPT !.choice = "unset", !.persisted = FALSE, !.error = "restore"]
               d == [snapshot[v] EXCEPT !.error = "save"]
    <3>1. \/ UNCHANGED snapshot
          \/ snapshot' = [snapshot EXCEPT ![v] = c] \/ snapshot' = [snapshot EXCEPT ![v] = d]
      BY <2>6 DEF RequestFails, FailureCounts
    <3>2. c.revision = snapshot[v].revision /\ d.revision = snapshot[v].revision
      BY <2>1, RestoredSnapshots, FailedSnapshots
    <3> HIDE DEF c, d
    <3>3. snapshot'[u].revision = snapshot[u].revision
      BY <2>1, <3>1, <3>2
    <3> QED BY <2>1, <3>3
  <2>7. ASSUME NEW v \in Views, ChangeArrives(v) PROVE snapshot'[u].revision >= snapshot[u].revision
    BY <2>3, <2>7 DEF ChangeArrives, Hear
  <2>8. \/ UNCHANGED snapshot
        \/ \E v \in Views : \/ ChangeArrives(v)
                            \/ \E q \in requests[v] : GetReturns(v, q) \/ SaveReturns(v, q) \/ RequestFails(v, q)
    BY DEF NextFonts, FileChanges, Refresh, Save, GetPreferences, SetPreferences, window
  <2> QED BY <2>2, <2>4, <2>5, <2>6, <2>7, <2>8
<1> QED BY <1>1, FontsHold, PTL DEF FontsSpec, NeverBack

\* A failed save brings up the last wish of its window and no older one (saveFontPreference).
THEOREM OnlyTheLastWish == FontsSpec => LastWishOnly
<1> DEFINE Step == \A v \in Views : temporary'[v] \in {NoAction, temporary[v], wish[v]}
<1>1. ASSUME FontsInv, [NextFonts]_fonts PROVE [Step]_fonts
  <2> SUFFICES ASSUME NextFonts, NEW u \in Views PROVE temporary'[u] \in {NoAction, temporary[u], wish[u]}
    BY <1>1
  <2>1. temporary \in [Views -> Actions]
    BY <1>1, WindowIs
  <2>2. CASE UNCHANGED temporary
    BY <2>2
  <2>3. ASSUME NEW v \in Views, NEW x, NEW left, TakeOver(v, x, left)
        PROVE  temporary'[u] \in {NoAction, temporary[u]}
    BY <2>1, <2>3 DEF TakeOver
  <2>4. ASSUME NEW v \in Views, NEW q \in requests[v], GetReturns(v, q)
        PROVE  temporary'[u] \in {NoAction, temporary[u]}
    BY <2>3, <2>4 DEF GetReturns, Ignore
  <2>5. ASSUME NEW v \in Views, NEW q \in requests[v], SaveReturns(v, q)
        PROVE  temporary'[u] \in {NoAction, temporary[u]}
    BY <2>1, <2>5 DEF SaveReturns, Ignore
  <2>6. ASSUME NEW v \in Views, NEW q \in requests[v], RequestFails(v, q)
        PROVE  temporary'[u] \in {NoAction, temporary[u], wish[u]}
    <3>1. \/ UNCHANGED temporary \/ temporary' = [temporary EXCEPT ![v] = NoAction]
          \/ q.fresh /\ q.action # NoAction /\ temporary' = [temporary EXCEPT ![v] = q.action]
      BY <2>6 DEF RequestFails, FailureCounts
    <3>2. q.fresh /\ q.action # NoAction => q.action = wish[v]
      BY <1>1 DEF FontsInv, WishesCount
    <3> QED BY <2>1, <3>1, <3>2
  <2>7. ASSUME NEW v \in Views, ChangeArrives(v) PROVE temporary'[u] \in {NoAction, temporary[u]}
    BY <2>3, <2>7 DEF ChangeArrives, Hear
  <2>8. \/ UNCHANGED temporary
        \/ \E v \in Views : \/ ChangeArrives(v)
                            \/ \E q \in requests[v] : GetReturns(v, q) \/ SaveReturns(v, q) \/ RequestFails(v, q)
    BY DEF NextFonts, FileChanges, Refresh, Save, GetPreferences, SetPreferences, window
  <2> QED BY <2>2, <2>4, <2>5, <2>6, <2>7, <2>8
<1> QED BY <1>1, FontsHold, PTL DEF FontsSpec, LastWishOnly

-----------------------------------------------------------------------------
(***************************************************************************)
(* Recent documents.  The list is the history of what was recorded with    *)
(* some entries left out.  Only, which retain and filter are, is reasoned  *)
(* about by its value at each place: were there a place where a fact       *)
(* fails, there would be a least one.                                      *)
(***************************************************************************)
LEMMA Least ==
  ASSUME NEW T, T \subseteq Nat, T # {}
  PROVE  \E n \in T : \A m \in T : n <= m
<1>1. PICK x \in T : \A y \in T : ~(<<y, x>> \in OpToRel(<, Nat))
  BY ONLY T \subseteq Nat, T # {}, WFMin, NatLessThanWellFounded
<1>2. ASSUME NEW y \in T PROVE x <= y
  <2>1. x \in Nat /\ y \in Nat
    OBVIOUS
  <2>2. CASE y < x
    <3>1. <<y, x>> \in OpToRel(<, Nat)
      BY <2>1, <2>2 DEF OpToRel
    <3> QED BY <1>1, <3>1
  <2> QED BY <2>1, <2>2
<1> QED BY <1>2

\* The elements of the first n of s that are in S, and how they are found: f is the filter, and
\* its value at n lists the elements at the places g.
FilterTo(f, s, S, m) ==
  f = [n \in 0..m |->
         IF n = 0 THEN <<>> ELSE IF s[n] \in S THEN Append(f[n - 1], s[n]) ELSE f[n - 1]]

LEMMA OnlyIs ==
  ASSUME NEW s, NEW S
  PROVE  Only(s, S) = (CHOOSE f : FilterTo(f, s, S, Len(s)))[Len(s)]
BY DEF Only, FilterTo

Longer(f, s, S, n) ==
  [m \in 0..n |-> IF m = n THEN IF s[n] \in S THEN Append(f[n - 1], s[n]) ELSE f[n - 1] ELSE f[m]]

LEMMA FilterExists ==
  ASSUME NEW s, NEW S, NEW m \in Nat
  PROVE  \E f : FilterTo(f, s, S, m)
<1> DEFINE T == {n \in Nat : ~\E f : FilterTo(f, s, S, n)}
<1>1. T \subseteq Nat
  OBVIOUS
<1>2. CASE T # {}
  <2> HIDE DEF T
  <2>1. PICK n \in T : \A k \in T : n <= k
    BY ONLY <1>1, <1>2, Least
  <2> USE DEF T
  <2>2. n \in Nat /\ ~\E f : FilterTo(f, s, S, n)
    OBVIOUS
  <2>3. CASE n = 0
    <3> DEFINE f == [k \in 0..0 |-> <<>>]
    <3>1. f = [k \in 0..0 |->
         IF k = 0 THEN <<>> ELSE IF s[k] \in S THEN Append(f[k - 1], s[k]) ELSE f[k - 1]]
      OBVIOUS
    <3> HIDE DEF f
    <3>2. FilterTo(f, s, S, n)
      BY <2>3, <3>1 DEF FilterTo
    <3> QED BY <2>2, <3>2
  <2>4. CASE n # 0
    <3>1. n - 1 \in Nat /\ n - 1 \notin T
      BY <2>1, <2>2, <2>4
    <3>2. PICK f : FilterTo(f, s, S, n - 1)
      BY <3>1
    <3>3. /\ f = [k \in 0..(n - 1) |->
           IF k = 0 THEN <<>> ELSE IF s[k] \in S THEN Append(f[k - 1], s[k]) ELSE f[k - 1]]
      BY <3>2 DEF FilterTo
    <3> DEFINE g == Longer(f, s, S, n)
    <3>4. \A k \in 0..n : g[k] = IF k = 0 THEN <<>> ELSE IF s[k] \in S THEN Append(g[k - 1], s[k]) ELSE g[k - 1]
      <4> SUFFICES ASSUME NEW k \in 0..n
                   PROVE g[k] = IF k = 0 THEN <<>> ELSE IF s[k] \in S THEN Append(g[k - 1], s[k]) ELSE g[k - 1]
        OBVIOUS
      <4>1. CASE k = n
        BY <2>2, <2>4, <3>1, <4>1 DEF Longer
      <4>2. CASE k # n /\ k # 0
        <5>1. g[k] = f[k] /\ g[k - 1] = f[k - 1]
          BY <2>2, <4>2 DEF Longer
        <5>2. k \in 0..(n - 1)
          BY <2>2, <4>2
        <5> HIDE DEF g
        <5> QED BY <3>3, <4>2, <5>1, <5>2
      <4>3. CASE k # n /\ k = 0
        <5>1. g[k] = f[k] 
          BY <2>2, <4>3 DEF Longer
        <5>2. k \in 0..(n - 1)
          BY <2>2, <4>3
        <5> HIDE DEF g
        <5> QED BY <3>3, <4>3, <5>1, <5>2
      <4> QED BY <4>1, <4>2, <4>3
    <3>5. g = [k \in 0..n |-> g[k]]
      BY DEF Longer
    <3> HIDE DEF g
    <3>6. g = [k \in 0..n |->
         IF k = 0 THEN <<>> ELSE IF s[k] \in S THEN Append(g[k - 1], s[k]) ELSE g[k - 1]]
      BY <3>4, <3>5
    <3> HIDE DEF T
    <3>7. FilterTo(g, s, S, n)
      BY <3>6 DEF FilterTo
    <3> QED BY <2>2, <3>7
  <2> QED BY <2>3, <2>4
<1> QED BY <1>2

Ascending(g, n) == \A i, j \in 1..n : i < j => g[i] < g[j]
\* t is what the first n of s have of S, at the places g
Picks(t, g, s, S, n) ==
  /\ Len(t) <= n /\ g \in [1..Len(t) -> 1..n] /\ Ascending(g, Len(t))
  /\ \A i \in 1..Len(t) : t[i] = s[g[i]] /\ t[i] \in S
  /\ \A k \in 1..n : s[k] \in S => \E i \in 1..Len(t) : g[i] = k

LEMMA PickMore ==
  ASSUME NEW D, NEW s \in Seq(D), NEW S, NEW n \in Nat, n + 1 <= Len(s), NEW t \in Seq(D), NEW g,
         Picks(t, g, s, S, n), NEW u, u = IF s[n + 1] \in S THEN Append(t, s[n + 1]) ELSE t
  PROVE  u \in Seq(D) /\ \E h : Picks(u, h, s, S, n + 1)
<1>1. CASE s[n + 1] \notin S
  <2>1. u = t
    BY <1>1
  <2>2. g \in [1..Len(t) -> 1..(n + 1)] /\ Len(t) <= n + 1
    BY DEF Picks
  <2>3. \A k \in 1..(n + 1) : s[k] \in S => \E i \in 1..Len(t) : g[i] = k
    BY <1>1 DEF Picks
  <2>4. Picks(t, g, s, S, n + 1)
    BY <2>2, <2>3 DEF Picks
  <2> QED BY <2>1, <2>4
<1>2. CASE s[n + 1] \in S
  <2>0. Len(t) \in Nat /\ Len(t) <= n /\ g \in [1..Len(t) -> 1..n]
    BY DEF Picks
  <2> DEFINE h == [i \in 1..(Len(t) + 1) |-> IF i = Len(t) + 1 THEN n + 1 ELSE g[i]]
  <2>1. s[n + 1] \in D
    OBVIOUS
  <2>2. /\ u \in Seq(D) /\ Len(u) = Len(t) + 1 /\ u[Len(t) + 1] = s[n + 1]
        /\ \A i \in 1..Len(t) : u[i] = t[i]
    BY <1>2, <2>1
  <2>3. /\ h[Len(t) + 1] = n + 1 /\ \A i \in 1..Len(t) : h[i] = g[i] /\ g[i] \in 1..n
    BY <2>0
  <2>4. h \in [1..(Len(t) + 1) -> 1..(n + 1)]
    BY <2>0
  <2> HIDE DEF h
  <2>5. Ascending(h, Len(t) + 1)
    <3> SUFFICES ASSUME NEW i \in 1..(Len(t) + 1), NEW j \in 1..(Len(t) + 1), i < j PROVE h[i] < h[j]
      BY DEF Ascending
    <3>1. i \in 1..Len(t)
      BY <2>0
    <3>2. CASE j = Len(t) + 1
      BY <2>0, <2>3, <3>1, <3>2
    <3>3. CASE j \in 1..Len(t)
      <4>1. g[i] < g[j]
        BY <3>1, <3>3 DEF Picks, Ascending
      <4> QED BY <2>3, <3>1, <3>3, <4>1
    <3>4. j = Len(t) + 1 \/ j \in 1..Len(t)
      BY <2>0
    <3> QED BY <3>2, <3>3, <3>4
  <2>6. \A i \in 1..Len(u) : u[i] = s[h[i]] /\ u[i] \in S
    BY <1>2, <2>2, <2>3 DEF Picks
  <2>7. \A k \in 1..(n + 1) : s[k] \in S => \E i \in 1..Len(u) : h[i] = k
    <3> SUFFICES ASSUME NEW k \in 1..(n + 1), s[k] \in S PROVE \E i \in 1..Len(u) : h[i] = k
      OBVIOUS
    <3>1. CASE k = n + 1
      BY <2>2, <2>3, <3>1
    <3>2. CASE k \in 1..n
      <4>1. PICK i \in 1..Len(t) : g[i] = k
        BY <3>2 DEF Picks
      <4>2. i \in 1..Len(u) /\ h[i] = k
        BY <2>0, <2>2, <2>3, <4>1
      <4> QED BY <4>2
    <3> QED BY <3>1, <3>2
  <2>8. h \in [1..Len(u) -> 1..(n + 1)] /\ Ascending(h, Len(u)) /\ Len(u) <= n + 1
    BY <2>0, <2>2, <2>4, <2>5
  <2>9. Picks(u, h, s, S, n + 1)
    BY <2>6, <2>7, <2>8 DEF Picks
  <2> QED BY <2>2, <2>9
<1> QED BY <1>1, <1>2

LEMMA OnlyKeeps ==
  ASSUME NEW D, NEW s \in Seq(D), NEW S
  PROVE  Only(s, S) \in Seq(D) /\ \E g : Picks(Only(s, S), g, s, S, Len(s))
<1>1. PICK f : FilterTo(f, s, S, Len(s)) /\ Only(s, S) = f[Len(s)]
  <2> DEFINE F == CHOOSE f : FilterTo(f, s, S, Len(s))
  <2>1. FilterTo(F, s, S, Len(s))
    BY FilterExists
  <2>2. Only(s, S) = F[Len(s)]
    BY OnlyIs
  <2> HIDE DEF F
  <2> QED BY <2>1, <2>2
<1>2. \A n \in 0..Len(s) : f[n] =
         IF n = 0 THEN <<>> ELSE IF s[n] \in S THEN Append(f[n - 1], s[n]) ELSE f[n - 1]
  BY <1>1 DEF FilterTo
<1> DEFINE Good(n) == f[n] \in Seq(D) /\ \E g : Picks(f[n], g, s, S, n)
           T == {n \in 0..Len(s) : ~Good(n)}
<1>3. T \subseteq Nat
  OBVIOUS
<1>4. ASSUME T # {} PROVE FALSE
  <2> HIDE DEF T
  <2>1. PICK n \in T : \A k \in T : n <= k
    BY ONLY <1>3, <1>4, Least
  <2>2. n \in 0..Len(s) /\ ~Good(n)
    BY DEF T
  <2>3. CASE n = 0
    <3>1. f[0] = <<>>
      BY <1>2
    <3>2. Picks(<<>>, <<>>, s, S, 0)
      BY DEF Picks, Ascending
    <3> QED BY <2>2, <2>3, <3>1, <3>2
  <2>4. CASE n # 0
    <3> DEFINE m == n - 1
    <3>1. m \in 0..Len(s) /\ m + 1 = n /\ m \in Nat
      BY <2>2, <2>4
    <3>2. m \notin T
      BY <2>1, <2>2, <3>1
    <3>3. Good(m)
      BY <3>1, <3>2 DEF T
    <3>4. f[n] = IF s[m + 1] \in S THEN Append(f[m], s[m + 1]) ELSE f[m]
      BY <1>2, <2>2, <2>4, <3>1
    <3> HIDE DEF m
    <3>5. PICK g : Picks(f[m], g, s, S, m)
      BY <3>3
    <3>6. f[m] \in Seq(D) /\ m + 1 <= Len(s)
      BY <2>2, <3>1, <3>3
    <3>7. f[n] \in Seq(D) /\ \E h : Picks(f[n], h, s, S, m + 1)
      BY <3>1, <3>4, <3>5, <3>6, PickMore
    <3> QED BY <2>2, <3>1, <3>7
  <2> QED BY <2>3, <2>4
<1>5. Good(Len(s))
  <2>1. Len(s) \in 0..Len(s)
    OBVIOUS
  <2> HIDE DEF Good
  <2> QED BY <1>4, <2>1 DEF T
<1> QED BY <1>1, <1>5

\* b is at the place of a or after it
Before(s, a, b) == \E k, m \in 1..Len(s) : k <= m /\ s[k] = a /\ s[m] = b

\* A filter keeps the order of what it keeps, and nothing twice.
LEMMA OnlyFacts ==
  ASSUME NEW D, NEW s \in Seq(D), NEW S, NEW t, t = Only(s, S)
  PROVE  /\ t \in Seq(D) /\ Len(t) <= Len(s) /\ (Distinct(s) => Distinct(t))
         /\ Range(t) = Range(s) \cap S
         /\ \A a, b : Before(t, a, b) <=> Before(s, a, b) /\ a \in S /\ b \in S
<1>1. t \in Seq(D) /\ \E h : Picks(t, h, s, S, Len(s))
  BY OnlyKeeps
<1>2. PICK g : Picks(t, g, s, S, Len(s))
  BY <1>1
<1>3. /\ Len(t) \in Nat /\ Len(s) \in Nat /\ Len(t) <= Len(s)
      /\ \A i \in 1..Len(t) : g[i] \in 1..Len(s) /\ t[i] = s[g[i]] /\ t[i] \in S
      /\ \A k \in 1..Len(s) : s[k] \in S => \E i \in 1..Len(t) : g[i] = k
      /\ \A i, j \in 1..Len(t) : i < j => g[i] < g[j]
  BY <1>1, <1>2 DEF Picks, Ascending
<1>4. Distinct(s) => Distinct(t)
  BY <1>3 DEF Distinct
<1>5. ASSUME NEW a, NEW b, Before(t, a, b) PROVE Before(s, a, b) /\ a \in S /\ b \in S
  <2>1. PICK k \in 1..Len(t), m \in 1..Len(t) : k <= m /\ t[k] = a /\ t[m] = b
    BY <1>5 DEF Before
  <2>2. g[k] \in 1..Len(s) /\ g[m] \in 1..Len(s) /\ g[k] <= g[m]
    BY <1>3, <2>1
  <2> QED BY <1>3, <2>1, <2>2 DEF Before
<1>6. ASSUME NEW a \in S, NEW b \in S, Before(s, a, b) PROVE Before(t, a, b)
  <2>1. PICK k \in 1..Len(s), m \in 1..Len(s) : k <= m /\ s[k] = a /\ s[m] = b
    BY <1>6 DEF Before
  <2>2. PICK i \in 1..Len(t) : g[i] = k
    BY <1>3, <2>1
  <2>3. PICK j \in 1..Len(t) : g[j] = m
    BY <1>3, <2>1
  <2>4. i <= j
    <3>1. CASE j < i
      <4>1. g[j] < g[i]
        BY <1>3, <3>1
      <4> QED BY <2>1, <2>2, <2>3, <4>1
    <3> QED BY <3>1
  <2>5. t[i] = a /\ t[j] = b
    BY <1>3, <2>1, <2>2, <2>3
  <2> QED BY <2>4, <2>5 DEF Before
<1>7. \A a : (\E i \in 1..Len(t) : t[i] = a) <=> (\E k \in 1..Len(s) : s[k] = a) /\ a \in S
  BY <1>3
<1>8. Range(t) = Range(s) \cap S
  <2>1. DOMAIN t = 1..Len(t) /\ DOMAIN s = 1..Len(s)
    BY <1>1
  <2> QED BY <1>7, <2>1 DEF Range
<1> QED BY <1>1, <1>3, <1>4, <1>5, <1>6, <1>8

LEMMA FirstFacts ==
  ASSUME NEW D, NEW s \in Seq(D), NEW n \in Nat, NEW t, t = FirstOf(s, n)
  PROVE  /\ t \in Seq(D) /\ Len(t) <= Len(s) /\ Len(t) <= n /\ (Distinct(s) => Distinct(t))
         /\ \A i \in 1..Len(t) : i \in 1..Len(s) /\ t[i] = s[i]
         /\ \A a, b : Before(t, a, b) => Before(s, a, b)
         /\ t = s \/ Len(t) = n
<1>1. /\ t \in Seq(D) /\ Len(t) <= Len(s) /\ Len(t) <= n /\ Len(t) \in Nat /\ Len(s) \in Nat
      /\ \A i \in 1..Len(t) : i \in 1..Len(s) /\ t[i] = s[i]
      /\ t = s \/ Len(t) = n
  <2>1. CASE Len(s) > n
    <3>1. t = SubSeq(s, 1, n)
      BY <2>1 DEF FirstOf
    <3> QED BY <2>1, <3>1
  <2>2. CASE ~(Len(s) > n)
    BY <2>2 DEF FirstOf
  <2> QED BY <2>1, <2>2
<1>2. Distinct(s) => Distinct(t)
  BY <1>1 DEF Distinct
<1>3. \A a, b : Before(t, a, b) => Before(s, a, b)
  BY <1>1 DEF Before
<1> QED BY <1>1, <1>2, <1>3

Headed(d, s) == <<d>> \o s
\* A new head is before everything; the rest is as it was.
LEMMA HeadFacts ==
  ASSUME NEW D, NEW s \in Seq(D), NEW d \in D, NEW t, t = Headed(d, s)
  PROVE  /\ t \in Seq(D)
         /\ (Distinct(s) /\ d \notin Range(s) => Distinct(t))
         /\ \A a, b : Before(t, a, b) <=> \/ Before(s, a, b)
                                          \/ a = d /\ (b = d \/ Before(s, b, b))
<1>1. /\ t \in Seq(D) /\ Len(t) = Len(s) + 1 /\ t[1] = d /\ Len(s) \in Nat
      /\ \A i \in 1..Len(s) : i + 1 \in 1..Len(t) /\ t[i + 1] = s[i]
      /\ \A i \in 1..Len(t) : i = 1 \/ (i - 1 \in 1..Len(s) /\ t[i] = s[i - 1])
  BY DEF Headed
<1>2. ASSUME Distinct(s), d \notin Range(s) PROVE Distinct(t)
  <2> SUFFICES ASSUME NEW i \in 1..Len(t), NEW j \in 1..Len(t), i < j PROVE t[i] # t[j]
    BY DEF Distinct
  <2>1. j - 1 \in 1..Len(s) /\ t[j] = s[j - 1]
    BY <1>1
  <2>2. CASE i = 1
    BY <1>1, <1>2, <2>1, <2>2 DEF Range
  <2>3. CASE i # 1
    <3>1. i - 1 \in 1..Len(s) /\ t[i] = s[i - 1] /\ i - 1 < j - 1
      BY <1>1, <2>1, <2>3
    <3> QED BY <1>2, <2>1, <3>1 DEF Distinct
  <2> QED BY <2>2, <2>3
<1>3. ASSUME NEW a, NEW b, Before(t, a, b)
      PROVE Before(s, a, b) \/ (a = d /\ (b = d \/ Before(s, b, b)))
  <2>1. PICK k \in 1..Len(t), m \in 1..Len(t) : k <= m /\ t[k] = a /\ t[m] = b
    BY <1>3 DEF Before
  <2>2. CASE m = 1
    BY <1>1, <2>1, <2>2
  <2>3. CASE m # 1 /\ k = 1
    <3>1. m - 1 \in 1..Len(s) /\ s[m - 1] = b /\ a = d
      BY <1>1, <2>1, <2>3
    <3> QED BY <3>1 DEF Before
  <2>4. CASE m # 1 /\ k # 1
    <3>1. m - 1 \in 1..Len(s) /\ s[m - 1] = b /\ k - 1 \in 1..Len(s) /\ s[k - 1] = a /\ k - 1 <= m - 1
      BY <1>1, <2>1, <2>4
    <3> QED BY <3>1 DEF Before
  <2> QED BY <2>2, <2>3, <2>4
<1>4. ASSUME NEW a, NEW b, Before(s, a, b) PROVE Before(t, a, b)
  <2>1. PICK k \in 1..Len(s), m \in 1..Len(s) : k <= m /\ s[k] = a /\ s[m] = b
    BY <1>4 DEF Before
  <2>2. k + 1 \in 1..Len(t) /\ m + 1 \in 1..Len(t) /\ k + 1 <= m + 1 /\ t[k + 1] = a /\ t[m + 1] = b
    BY <1>1, <2>1
  <2> QED BY <2>2 DEF Before
<1>5. ASSUME NEW b, b = d \/ Before(s, b, b) PROVE Before(t, d, b)
  <2>1. 1 \in 1..Len(t)
    BY <1>1
  <2>2. CASE b = d
    <3>1. t[1] = d /\ t[1] = b /\ 1 <= 1
      BY <1>1, <2>2
    <3> QED BY <2>1, <3>1 DEF Before
  <2>3. CASE Before(s, b, b)
    <3>1. PICK k \in 1..Len(s) : s[k] = b
      BY <2>3 DEF Before
    <3>2. k + 1 \in 1..Len(t) /\ 1 <= k + 1 /\ t[k + 1] = b
      BY <1>1, <3>1
    <3> QED BY <1>1, <2>1, <3>2 DEF Before
  <2> QED BY <1>5, <2>2, <2>3
<1> QED BY <1>1, <1>2, <1>3, <1>4, <1>5

LEMMA InRange ==
  ASSUME NEW D, NEW s \in Seq(D)
  PROVE  /\ \A a : a \in Range(s) <=> Before(s, a, a)
         /\ \A a, b : Before(s, a, b) => a \in Range(s) /\ b \in Range(s)
         /\ Range(s) \subseteq D
<1>1. DOMAIN s = 1..Len(s) /\ \A i \in 1..Len(s) : s[i] \in D
  OBVIOUS
<1> QED BY <1>1 DEF Range, Before

(***************************************************************************)
(* The invariant of the list: the file keeps the order of all that was     *)
(* recorded, and an id belongs to one list and, in it, to one document.    *)
(***************************************************************************)
StoreInv ==
  /\ store \in Seq(Documents) /\ Distinct(store) /\ Len(store) <= MaxRecent
  /\ onDisk \subseteq Documents /\ order \in Seq(Documents)
  /\ \A a, b : Before(store, a, b) => Before(order, a, b)
  /\ readable \in BOOLEAN /\ (~readable => store = <<>>)
Commands == {"none", "record", "remove", "clear", "list", "failed"}
OfList(e, n) == \E g \in 1..n, i \in Nat : e.id = <<g, i>>
PageInv ==
  /\ listed \in Nat /\ paths \subseteq shown /\ removals \subseteq shown
  /\ \A e \in shown : e.path \in Documents /\ OfList(e, listed)
  /\ \A e, f \in shown : e.id = f.id => e.path = f.path
  /\ \A a \in lists : a.documents \in Seq(Documents)
RecentInv == StoreInv /\ PageInv /\ lastCommand \in Commands

LEMMA ListingFacts ==
  ASSUME StoreInv
  PROVE  /\ Listing \in Seq(Documents) /\ Distinct(Listing)
         /\ \A a, b : Before(Listing, a, b) <=> Before(store, a, b) /\ a \in onDisk /\ b \in onDisk
<1> DEFINE t == Only(store, onDisk)
<1>1. /\ t \in Seq(Documents) /\ Len(t) <= Len(store) /\ (Distinct(store) => Distinct(t))
      /\ \A a, b : Before(t, a, b) <=> Before(store, a, b) /\ a \in onDisk /\ b \in onDisk
  <2>1. store \in Seq(Documents)
    BY DEF StoreInv
  <2> QED BY <2>1, OnlyFacts
<1>2. Len(t) <= MaxRecent /\ MaxRecent \in Nat /\ Distinct(t)
  BY <1>1, RecentAssumption DEF StoreInv
<1>3. Listing = t
  BY <1>1, <1>2 DEF Listing, FirstOf
<1> HIDE DEF t
<1> QED BY <1>1, <1>2, <1>3

\* What is left without a document
LEMMA WithoutFacts ==
  ASSUME NEW D, NEW s \in Seq(D), NEW d, NEW t, t = Without(s, d)
  PROVE  /\ t \in Seq(D) /\ Len(t) <= Len(s) /\ (Distinct(s) => Distinct(t))
         /\ \A a, b : Before(t, a, b) <=> Before(s, a, b) /\ a # d /\ b # d
<1>1. t = Only(s, Range(s) \ {d})
  BY DEF Without
<1>2. /\ t \in Seq(D) /\ Len(t) <= Len(s) /\ (Distinct(s) => Distinct(t))
      /\ \A a, b : Before(t, a, b) <=> Before(s, a, b) /\ a \in Range(s) \ {d} /\ b \in Range(s) \ {d}
  BY ONLY <1>1, s \in Seq(D), OnlyFacts
<1>3. \A a, b : Before(s, a, b) => a \in Range(s) /\ b \in Range(s)
  BY ONLY s \in Seq(D), InRange
<1> QED BY <1>2, <1>3

\* record_document_at: the file as it is written
LEMMA RecordedFacts ==
  ASSUME StoreInv, NEW d \in Documents, d \in onDisk, NEW t, t = WithLatest(d)
  PROVE  /\ t \in Seq(Documents) /\ Distinct(t) /\ Len(t) <= MaxRecent
         /\ \A a, b : Before(t, a, b) => \/ a = d /\ (b = d \/ Before(store, b, b))
                                         \/ Before(store, a, b) /\ a # d /\ b # d
         /\ \A a : Before(t, a, a) => a \in onDisk
         /\ \A a \in onDisk : Before(store, a, a) /\ ~Before(t, a, a) => Len(t) = MaxRecent
<1>1. PICK l : l = Listing
  OBVIOUS
<1>2. /\ l \in Seq(Documents) /\ Distinct(l)
      /\ \A a, b : Before(l, a, b) <=> Before(store, a, b) /\ a \in onDisk /\ b \in onDisk
  BY <1>1, ListingFacts
<1>3. PICK w : w = Without(l, d)
  OBVIOUS
<1>4. /\ w \in Seq(Documents) /\ (Distinct(l) => Distinct(w))
      /\ \A a, b : Before(w, a, b) <=> Before(l, a, b) /\ a # d /\ b # d
  BY ONLY <1>2, <1>3, WithoutFacts
<1>5. PICK h : h = Headed(d, w)
  OBVIOUS
<1>6. d \notin Range(w)
  <2>1. \A a : a \in Range(w) <=> Before(w, a, a)
    BY ONLY <1>4, InRange
  <2> QED BY <1>4, <2>1
<1>7. /\ h \in Seq(Documents) /\ (Distinct(w) /\ d \notin Range(w) => Distinct(h))
      /\ \A a, b : Before(h, a, b) <=> \/ Before(w, a, b)
                                       \/ a = d /\ (b = d \/ Before(w, b, b))
  <2>1. w \in Seq(Documents)
    BY <1>4
  <2>2. d \in Documents
    OBVIOUS
  <2> QED BY ONLY <2>1, <2>2, <1>5, HeadFacts
<1>8. t = FirstOf(h, MaxRecent)
  BY <1>1, <1>3, <1>5 DEF WithLatest, Headed
<1>9. /\ t \in Seq(Documents) /\ Len(t) <= MaxRecent /\ (Distinct(h) => Distinct(t))
      /\ \A a, b : Before(t, a, b) => Before(h, a, b)
      /\ t = h \/ Len(t) = MaxRecent
  <2>1. MaxRecent \in Nat
    BY RecentAssumption
  <2> QED BY ONLY <2>1, <1>7, <1>8, FirstFacts
<1>10. \A a, b : Before(t, a, b) => \/ a = d /\ (b = d \/ Before(store, b, b))
                                    \/ Before(store, a, b) /\ a # d /\ b # d
  BY <1>2, <1>4, <1>7, <1>9
<1>11. \A a : Before(t, a, a) => a \in onDisk
  BY <1>2, <1>4, <1>7, <1>9
<1>12. \A a \in onDisk : Before(store, a, a) /\ ~Before(t, a, a) => Len(t) = MaxRecent
  BY <1>2, <1>4, <1>7, <1>9
<1> QED BY <1>2, <1>4, <1>6, <1>7, <1>9, <1>10, <1>11, <1>12

\* What a command that fails does to the file: nothing, or it is cut.
FileFails == UNCHANGED <<store, readable>> \/ (store' = <<>> /\ readable' \in BOOLEAN)

LEMMA FailedStore ==
  ASSUME StoreInv, FileFails, order' = order, onDisk' = onDisk
  PROVE  StoreInv'
<1>1. CASE UNCHANGED <<store, readable>>
  BY <1>1 DEF StoreInv
<1>2. CASE store' = <<>> /\ readable' \in BOOLEAN
  BY <1>2, RecentAssumption DEF StoreInv, Distinct, Before
<1> QED BY <1>1, <1>2 DEF FileFails

LEMMA RecordKeeps == ASSUME RecentInv, NEW d \in Documents, Record(d) PROVE RecentInv'
<1>1. StoreInv /\ PageInv /\ d \in onDisk /\ (StoreUnreadable \/ WriteStore(WithLatest(d), "record"))
      /\ UNCHANGED <<onDisk, lists, listed, paths, shown, removals>>
      /\ order' = IF lastCommand' # "failed" THEN <<d>> \o Without(order, d) ELSE order
  BY DEF RecentInv, Record, Done, page
<1>2. PageInv'
  BY <1>1 DEF PageInv
<1>3. CASE lastCommand' = "record" /\ store' = WithLatest(d) /\ readable' = TRUE
  <2>1. PICK t : t = WithLatest(d)
    OBVIOUS
  <2>2. /\ t \in Seq(Documents) /\ Distinct(t) /\ Len(t) <= MaxRecent
        /\ \A a, b : Before(t, a, b) => \/ a = d /\ (b = d \/ Before(store, b, b))
                                        \/ Before(store, a, b) /\ a # d /\ b # d
    BY <1>1, <2>1, RecordedFacts
  <2>3. PICK o : o = Without(order, d)
    OBVIOUS
  <2>4. order \in Seq(Documents) /\ onDisk \subseteq Documents
        /\ \A a, b : Before(store, a, b) => Before(order, a, b)
    BY <1>1 DEF StoreInv
  <2>5. /\ o \in Seq(Documents)
        /\ \A a, b : Before(o, a, b) <=> Before(order, a, b) /\ a # d /\ b # d
    BY ONLY <2>3, <2>4, WithoutFacts
  <2>6. PICK n : n = Headed(d, o)
    OBVIOUS
  <2>7. /\ n \in Seq(Documents)
        /\ \A a, b : Before(n, a, b) <=> \/ Before(o, a, b)
                                         \/ a = d /\ (b = d \/ Before(o, b, b))
    <3>1. o \in Seq(Documents)
      BY <2>5
    <3>2. d \in Documents
      OBVIOUS
    <3> QED BY ONLY <3>1, <3>2, <2>6, HeadFacts
  <2>8. order' = n /\ store' = t
    BY <1>1, <1>3, <2>1, <2>3, <2>6 DEF Headed
  <2>9. \A a, b : Before(t, a, b) => Before(n, a, b)
    BY <2>2, <2>4, <2>5, <2>7
  <2>10. StoreInv'
    BY <1>1, <1>3, <2>2, <2>4, <2>7, <2>8, <2>9 DEF StoreInv
  <2> QED BY <1>2, <1>3, <2>10 DEF RecentInv, Commands
<1>4. CASE lastCommand' = "failed" /\ FileFails
  <2>1. order' = order
    BY <1>1, <1>4
  <2>2. StoreInv'
    BY <1>1, <1>4, <2>1, FailedStore
  <2> QED BY <1>2, <1>4, <2>2 DEF RecentInv, Commands
<1> QED BY <1>1, <1>3, <1>4 DEF WriteStore, StoreUnreadable, FileFails

LEMMA ClearKeeps == ASSUME RecentInv, Clear PROVE RecentInv'
<1>1. StoreInv /\ PageInv /\ WriteStore(<<>>, "clear")
      /\ UNCHANGED <<onDisk, lists, listed, shown, removals>> /\ paths' \in {paths, {}}
      /\ order' = IF lastCommand' # "failed" THEN <<>> ELSE order
  BY DEF RecentInv, Clear, Done
<1>2. PageInv'
  BY <1>1 DEF PageInv
<1>3. CASE lastCommand' = "clear" /\ store' = <<>> /\ readable' = TRUE
  <2>1. order' = <<>>
    BY <1>1, <1>3
  <2>2. StoreInv'
    BY <1>1, <1>3, <2>1, RecentAssumption DEF StoreInv, Distinct, Before
  <2> QED BY <1>2, <1>3, <2>2 DEF RecentInv, Commands
<1>4. CASE lastCommand' = "failed" /\ FileFails
  <2>1. order' = order
    BY <1>1, <1>4
  <2> QED BY <1>1, <1>2, <1>4, <2>1, FailedStore DEF RecentInv, Commands
<1> QED BY <1>1, <1>3, <1>4 DEF WriteStore, StoreUnreadable, FileFails

LEMMA RemoveShownKeeps == ASSUME RecentInv, NEW e \in shown, RemoveShown(e) PROVE RecentInv'
<1>1. PICK p \in paths : /\ RemoveDocument(p.path)
                         /\ order' = IF lastCommand' # "failed" THEN Without(order, p.path) ELSE order
                         /\ removals' \in {removals, removals \cup {p}}
  BY DEF RemoveShown, Done
<1>2. StoreInv /\ PageInv /\ UNCHANGED <<onDisk, lists, listed, paths, shown>>
  BY DEF RecentInv, RemoveShown
<1>3. PageInv'
  BY <1>1, <1>2 DEF PageInv
<1>4. PICK d : d = p.path
  OBVIOUS
<1>5. CASE lastCommand' = "remove" /\ readable' = TRUE /\ store' \in {store, WithRemoved(d)}
                                   /\ (store' = store => d \notin Range(store))
  <2>1. PICK o : o = Without(order, d)
    OBVIOUS
  <2>2. /\ store \in Seq(Documents) /\ order \in Seq(Documents)
        /\ \A a, b : Before(store, a, b) => Before(order, a, b)
        /\ Distinct(store) /\ Len(store) <= MaxRecent
    BY <1>2 DEF StoreInv
  <2>3. /\ o \in Seq(Documents)
        /\ \A a, b : Before(o, a, b) <=> Before(order, a, b) /\ a # d /\ b # d
    BY ONLY <2>1, <2>2, WithoutFacts
  <2>4. order' = o
    BY <1>1, <1>4, <1>5, <2>1
  <2>5. PICK s : s = store'
    OBVIOUS
  <2>6. /\ s \in Seq(Documents) /\ Distinct(s) /\ Len(s) <= MaxRecent
        /\ \A a, b : Before(s, a, b) => Before(store, a, b) /\ a # d /\ b # d
    <3>1. CASE store' = store
      <4>1. \A a, b : Before(store, a, b) => a \in Range(store) /\ b \in Range(store)
        BY ONLY <2>2, InRange
      <4> QED BY <1>5, <2>2, <2>5, <3>1, <4>1
    <3>2. CASE store' # store
      <4>1. s = Without(store, d)
        BY <1>5, <2>5, <3>2 DEF WithRemoved
      <4>2. /\ s \in Seq(Documents) /\ Len(s) <= Len(store) /\ (Distinct(store) => Distinct(s))
            /\ \A a, b : Before(s, a, b) <=> Before(store, a, b) /\ a # d /\ b # d
        BY ONLY <2>2, <4>1, WithoutFacts
      <4> QED BY <2>2, <4>2, RecentAssumption
    <3> QED BY <3>1, <3>2
  <2>7. \A a, b : Before(s, a, b) => Before(o, a, b)
    BY <2>2, <2>3, <2>6
  <2>8. StoreInv'
    BY <1>2, <1>5, <2>3, <2>4, <2>5, <2>6, <2>7 DEF StoreInv
  <2> QED BY <1>3, <1>5, <2>8 DEF RecentInv, Commands
<1>6. CASE lastCommand' = "failed" /\ FileFails
  <2>1. order' = order
    BY <1>1, <1>6
  <2> QED BY <1>2, <1>3, <1>6, <2>1, FailedStore DEF RecentInv, Commands
<1>7. \/ lastCommand' = "remove" /\ readable' = TRUE /\ store' = WithRemoved(d) /\ d \in Range(store)
      \/ lastCommand' = "failed" /\ FileFails
      \/ lastCommand' = "remove" /\ readable' = TRUE /\ store' = store /\ d \notin Range(store)
  BY <1>1, <1>2, <1>4 DEF RemoveDocument, WriteStore, StoreUnreadable, FileFails, StoreInv
<1>8. WithRemoved(d) = store => d \notin Range(store)
  <2>1. store \in Seq(Documents) /\ WithRemoved(d) = Without(store, d)
    BY <1>2 DEF StoreInv, WithRemoved
  <2>2. \A a, b : Before(Without(store, d), a, b) <=> Before(store, a, b) /\ a # d /\ b # d
    BY ONLY <2>1, WithoutFacts
  <2>3. \A a : a \in Range(store) <=> Before(store, a, a)
    BY ONLY <2>1, InRange
  <2> QED BY <2>1, <2>2, <2>3
<1> QED BY <1>5, <1>6, <1>7, <1>8

LEMMA ShowListKeeps == ASSUME RecentInv, NEW a \in lists, ShowList(a) PROVE RecentInv'
<1>1. /\ lists' = lists \ {a} /\ listed' = listed + 1
      /\ paths' = {[id |-> Id(listed', i), path |-> a.documents[i]] : i \in 1..Len(a.documents)}
      /\ shown' = shown \cup paths'
      /\ UNCHANGED <<store, readable, onDisk, order, lastCommand, removals>>
  BY DEF ShowList, file
<1>2. /\ StoreInv /\ PageInv /\ lastCommand \in Commands /\ listed \in Nat /\ a.documents \in Seq(Documents)
  BY DEF RecentInv, PageInv
<1>3. StoreInv' /\ lastCommand' \in Commands
  BY <1>1, <1>2 DEF StoreInv
<1>4. \A e \in paths' : \E i \in 1..Len(a.documents) : e.id = <<listed + 1, i>> /\ e.path = a.documents[i]
  BY <1>1 DEF Id
<1>5. \A e \in paths' : /\ e.path \in Documents /\ OfList(e, listed + 1)
                        /\ \A f \in paths' : e.id = f.id => e.path = f.path
                        /\ \A f \in shown : e.id # f.id
  <2> SUFFICES ASSUME NEW e \in paths'
               PROVE  /\ e.path \in Documents /\ OfList(e, listed + 1)
                      /\ \A f \in paths' : e.id = f.id => e.path = f.path
                      /\ \A f \in shown : e.id # f.id
    OBVIOUS
  <2>1. PICK i \in 1..Len(a.documents) : e.id = <<listed + 1, i>> /\ e.path = a.documents[i]
    BY <1>4
  <2>2. i \in Nat /\ e.path \in Documents
    BY <1>2, <2>1
  <2>3. OfList(e, listed + 1)
    BY <1>2, <2>1, <2>2 DEF OfList
  <2>4. ASSUME NEW f \in paths', e.id = f.id PROVE e.path = f.path
    <3>1. PICK j \in 1..Len(a.documents) : f.id = <<listed + 1, j>> /\ f.path = a.documents[j]
      BY <1>4
    <3> QED BY <2>1, <2>4, <3>1
  <2>5. ASSUME NEW f \in shown PROVE e.id # f.id
    <3>1. PICK g \in 1..listed, j \in Nat : f.id = <<g, j>>
      BY <1>2 DEF PageInv, OfList
    <3>2. g # listed + 1
      BY <1>2
    <3> QED BY <2>1, <3>1, <3>2
  <2> QED BY <2>2, <2>3, <2>4, <2>5
<1>6. \A e \in shown : e.path \in Documents /\ OfList(e, listed + 1)
  BY <1>2 DEF PageInv, OfList
<1>7. \A e, f \in shown' : e.id = f.id => e.path = f.path
  BY <1>1, <1>2, <1>5 DEF PageInv
<1>8. /\ listed' \in Nat /\ paths' \subseteq shown' /\ removals' \subseteq shown'
      /\ \A e \in shown' : e.path \in Documents /\ OfList(e, listed')
      /\ \A b \in lists' : b.documents \in Seq(Documents)
  BY <1>1, <1>2, <1>5, <1>6 DEF PageInv
<1>9. PageInv'
  BY <1>7, <1>8 DEF PageInv
<1> QED BY <1>3, <1>9 DEF RecentInv

LEMMA RecentInductive == ASSUME RecentInv, [NextRecent]_recent PROVE RecentInv'
<1>0. StoreInv /\ PageInv /\ lastCommand \in Commands
  BY DEF RecentInv
<1>1. CASE UNCHANGED recent
  BY <1>0, <1>1 DEF recent, file, page, RecentInv, StoreInv, PageInv
<1>2. ASSUME NEW d \in Documents, FileComesOrGoes(d) PROVE RecentInv'
  <2>1. /\ onDisk' = (onDisk \ {d}) \cup ({d} \ onDisk) /\ lastCommand' = "none"
        /\ UNCHANGED <<store, readable, order, lists, listed, paths, shown, removals>>
    BY <1>2 DEF FileComesOrGoes, page
  <2>2. StoreInv' /\ PageInv'
    BY <1>0, <2>1 DEF StoreInv, PageInv
  <2> QED BY <2>1, <2>2 DEF RecentInv, Commands
<1>3. CASE ListDocuments
  <2>1. /\ \/ lists' = lists \cup {[number |-> asked', documents |-> Listing]} /\ lastCommand' = "list"
           \/ lists' = lists /\ lastCommand' = "failed"
        /\ UNCHANGED <<store, readable, onDisk, order, listed, paths, shown, removals>>
    BY <1>3 DEF ListDocuments, StoreUnreadable
  <2>2. Listing \in Seq(Documents)
    BY <1>0, ListingFacts
  <2>3. StoreInv' /\ PageInv'
    BY <1>0, <2>1, <2>2 DEF StoreInv, PageInv
  <2> QED BY <2>1, <2>3 DEF RecentInv, Commands
<1>4. ASSUME NEW p \in removals, IdRemoved(p) PROVE RecentInv'
  <2>1. /\ removals' = removals \ {p} /\ paths' = {q \in paths : q.id # p.id}
        /\ UNCHANGED <<store, readable, onDisk, order, lastCommand, lists, listed, shown>>
    BY <1>4 DEF IdRemoved, file
  <2>2. StoreInv' /\ PageInv'
    BY <1>0, <2>1 DEF StoreInv, PageInv
  <2> QED BY <1>0, <2>1, <2>2 DEF RecentInv
<1> QED BY <1>1, <1>2, <1>3, <1>4, RecordKeeps, ClearKeeps, RemoveShownKeeps, ShowListKeeps DEF NextRecent

LEMMA RecentInitially == InitRecent => RecentInv
BY RecentAssumption DEF InitRecent, RecentInv, StoreInv, PageInv, Commands, Distinct, Before

LEMMA RecentHolds == RecentSpec => []RecentInv
BY RecentInitially, RecentInductive, PTL DEF RecentSpec

\* What list_documents_at reads is a list of supported documents, and the page's ids are those
\* of lists it asked for.
THEOREM RecentTypes == RecentSpec => []RecentTypeOK
<1>1. RecentInv => RecentTypeOK
  BY DEF RecentInv, StoreInv, PageInv, Commands, RecentTypeOK
<1> QED BY <1>1, RecentHolds, PTL

\* The documents of recent-documents.json are ones that were recorded, none twice and the latest
\* first (record_document_at), and no more than MAX_RECENT_DOCUMENTS.
THEOREM RecentListIsTrue == RecentSpec => []ListIsTrue
<1>1. RecentInv => IdsAreTrue
  BY DEF RecentInv, PageInv, IdsAreTrue
<1>2. ASSUME RecentInv PROVE LatestFirst
  <2> SUFFICES ASSUME NEW i \in 1..Len(store), NEW j \in 1..Len(store), i <= j
               PROVE \E k, m \in 1..Len(order) : k <= m /\ order[k] = store[i] /\ order[m] = store[j]
    BY DEF LatestFirst
  <2>1. Before(store, store[i], store[j])
    BY DEF Before
  <2>2. Before(order, store[i], store[j])
    BY <1>2, <2>1 DEF RecentInv, StoreInv
  <2> QED BY <2>2 DEF Before
<1> QED BY <1>1, <1>2, RecentHolds, PTL DEF ListIsTrue

\* A document leaves the list only by remove_document_at, by a clear, because it has gone from
\* the disk or is the oldest of a full list when another is recorded, or by a write that failed.
THEOREM LossesAreExplained == RecentSpec => LossIsExplained
<1> DEFINE Step == \A d \in Range(store) \ Range(store') :
                     \/ lastCommand' = "failed" \/ d \notin Range(order')
                     \/ /\ lastCommand' = "record"
                        /\ d \in onDisk => Len(store') = MaxRecent /\ Range(store') \subseteq onDisk
<1>1. ASSUME RecentInv, [NextRecent]_recent PROVE [Step]_recent
  <2>0. StoreInv /\ RecentInv'
    BY <1>1, RecentInductive DEF RecentInv
  <2>1. /\ store \in Seq(Documents) /\ store' \in Seq(Documents) /\ order \in Seq(Documents)
        /\ onDisk \subseteq Documents
    BY <2>0 DEF RecentInv, StoreInv
  <2>2. /\ \A a : a \in Range(store) <=> Before(store, a, a)
    BY ONLY <2>1, InRange
  <2>3. PICK t : t = store'
    OBVIOUS
  <2>4. \A a : a \in Range(t) <=> Before(t, a, a)
    BY ONLY <2>1, <2>3, InRange
  <2> SUFFICES ASSUME NextRecent, store' # store, lastCommand' # "failed",
                      NEW d \in Range(store), d \notin Range(store')
               PROVE  \/ d \notin Range(order')
                      \/ /\ lastCommand' = "record"
                         /\ d \in onDisk => Len(store') = MaxRecent /\ Range(store') \subseteq onDisk
    BY <1>1
  <2>5. ASSUME NEW e \in Documents, Record(e)
        PROVE  lastCommand' = "record" /\ (d \in onDisk => Len(store') = MaxRecent /\ Range(store') \subseteq onDisk)
    <3>1. t = WithLatest(e) /\ lastCommand' = "record" /\ e \in onDisk
      BY <2>3, <2>5 DEF Record, WriteStore, StoreUnreadable
    <3>2. /\ \A a : Before(t, a, a) => a \in onDisk
          /\ \A a \in onDisk : Before(store, a, a) /\ ~Before(t, a, a) => Len(t) = MaxRecent
      BY ONLY <2>0, <2>5, <3>1, RecordedFacts
    <3> QED BY <2>2, <2>3, <2>4, <3>1, <3>2
  <2>6. CASE Clear
    <3>1. order' = <<>>
      BY <2>6 DEF Clear, Done
    <3> QED BY <3>1 DEF Range
  <2>7. ASSUME NEW e \in shown, RemoveShown(e) PROVE d \notin Range(order')
    <3>1. PICK p \in paths : RemoveDocument(p.path) /\ order' = Without(order, p.path)
      BY <2>7 DEF RemoveShown, Done
    <3>2. t = Without(store, p.path)
      BY <2>3, <3>1 DEF RemoveDocument, WriteStore, WithRemoved, StoreUnreadable
    <3>3. \A a, b : Before(t, a, b) <=> Before(store, a, b) /\ a # p.path /\ b # p.path
      BY ONLY <2>1, <3>2, WithoutFacts
    <3>4. d = p.path
      BY <2>2, <2>3, <2>4, <3>3
    <3>5. PICK o : o = Without(order, p.path)
      OBVIOUS
    <3>6. o \in Seq(Documents) /\ \A a, b : Before(o, a, b) <=> Before(order, a, b) /\ a # p.path /\ b # p.path
      BY ONLY <2>1, <3>5, WithoutFacts
    <3>7. \A a : a \in Range(o) <=> Before(o, a, a)
      BY ONLY <3>6, InRange
    <3> QED BY <3>1, <3>4, <3>5, <3>6, <3>7
  <2>8. ASSUME NEW a \in lists, ShowList(a) PROVE FALSE
    BY <2>8 DEF ShowList, file
  <2>9. ASSUME NEW p \in removals, IdRemoved(p) PROVE FALSE
    BY <2>9 DEF IdRemoved, file
  <2> QED BY <2>5, <2>6, <2>7, <2>8, <2>9 DEF NextRecent, FileComesOrGoes, ListDocuments, StoreUnreadable
<1> QED BY <1>1, RecentHolds, PTL DEF RecentSpec, LossIsExplained

-----------------------------------------------------------------------------
(***************************************************************************)
(* Files on their way to a window.  The invariant says what each list has: *)
(* files the program was started with are in the order of their numbers,   *)
(* a window's queue and an event have one file, and a file that was        *)
(* dropped is never where one of a start is.                               *)
(***************************************************************************)
Started == (1..arrived) \ dropped
InOrder(s) == Len(s) <= 1 \/ \A i \in DOMAIN s : s[i] = i
WindowStates == {"unborn", "creating", "loading", "listening", "ready", "closed"}
CallIsFit(c) ==
  /\ c \in CallType /\ c.payload \in Seq(dropped) /\ Len(c.payload) <= 1
  /\ c.answer \in Seq(Started) /\ InOrder(c.answer)
  /\ ~c.handled => c.answer = <<>>
  /\ c.dead => ~c.handled /\ c.payload = <<>>
ThreadIsFit(t) ==
  /\ t.paths \in Seq(Started) /\ t.window \in Others \cup {NoWindow}
  /\ t.window # NoWindow => view[t.window] # "unborn"
CallsFit ==
  /\ calls \in [Labels -> Seq(CallType)]
  /\ \A l \in Labels : \A i \in DOMAIN calls[l] : CallIsFit(calls[l][i])
ListsInv ==
  /\ globalQueue \in Seq(Started) /\ InOrder(globalQueue)
  /\ windowQueue \in [Labels -> Seq(Started)] /\ \A l \in Labels : Len(windowQueue[l]) <= 1
  /\ \A t \in launches : ThreadIsFit(t)
  /\ events \in [Labels -> Seq(Seq(dropped))]
  /\ \A l \in Labels : \A i \in DOMAIN events[l] : Len(events[l][i]) = 1
  /\ CallsFit
  /\ openings \in [Labels -> Seq(1..arrived)]
HistoryInv ==
  /\ superseded \subseteq (1..arrived) \X (1..arrived) /\ lost \subseteq Files
  /\ home \in [Files -> Labels \cup {NoWindow}] /\ \A f \in Files : home[f] # NoWindow => f <= arrived
  /\ dropped \subseteq 1..arrived /\ arrived \in 0..MaxFiles /\ reloads \in 0..MaxReloads
WindowsInv ==
  /\ view \in [Labels -> WindowStates]
  /\ \A l \in attached : l \in Labels /\ view[l] \notin {"unborn", "creating"}
Unique == \A f \in Files : \A p, q \in PathPlaces(f) : p = q
FilesInv == /\ ListsInv /\ HistoryInv /\ WindowsInv
            /\ Unique /\ OwnWindow /\ NoQueueLeft /\ GivesWayToLater

\* The places of a file, one kind at a time
Waits(f, p) == \E j \in In(f, globalQueue) : p = <<"global", NoWindow, 0, j>>
Queued(f, p) == \E l \in Labels : \E j \in In(f, windowQueue[l]) : p = <<"queue", l, 0, j>>
WasOpened(f, p) == \E l \in Labels : \E j \in In(f, openings[l]) : p = <<"opened", l, 0, j>>
Sent(f, p) ==
  \E l \in Labels : \E i \in DOMAIN events[l] : \E j \in In(f, events[l][i]) : p = <<"event", l, i, j>>
Called(f, p) ==
  \E l \in Labels : \E i \in DOMAIN calls[l] : \E j \in In(f, Paths(calls[l][i])) : p = <<"call", l, i, j>>
Launched(f, p) ==
  \E t \in launches : \E j \in In(f, t.paths) :
    /\ j > 1 \/ t.window = NoWindow
    /\ p = <<"thread", t, 0, j>>
Placed(f, p) == Waits(f, p) \/ Queued(f, p) \/ WasOpened(f, p) \/ Sent(f, p) \/ Called(f, p) \/ Launched(f, p)
PlacesAre == \A f, p : p \in PathPlaces(f) <=> Placed(f, p)

LEMMA PlacesKnown == PlacesAre
<1> SUFFICES ASSUME NEW f, NEW p PROVE p \in PathPlaces(f) <=> Placed(f, p)
  BY DEF PlacesAre
<1> DEFINE G == {"global"} \X {NoWindow} \X {0} \X In(f, globalQueue)
           Q(l) == {"queue"} \X {l} \X {0} \X In(f, windowQueue[l])
           O(l) == {"opened"} \X {l} \X {0} \X In(f, openings[l])
           E(l) == UNION {{"event"} \X {l} \X {i} \X In(f, events[l][i]) : i \in DOMAIN events[l]}
           C(l) == UNION {{"call"} \X {l} \X {i} \X In(f, Paths(calls[l][i])) : i \in DOMAIN calls[l]}
           L == UNION {OfWindow(f, l) : l \in Labels}
           T == UNION {OfThread(f, t) : t \in launches}
<1>1. PathPlaces(f) = G \cup L \cup T
  BY Zenon DEF PathPlaces
<1>2. p \in G <=> Waits(f, p)
  BY DEF Waits
<1>3. \A l : p \in Q(l) <=> \E j \in In(f, windowQueue[l]) : p = <<"queue", l, 0, j>>
  OBVIOUS
<1>4. \A l : p \in O(l) <=> \E j \in In(f, openings[l]) : p = <<"opened", l, 0, j>>
  OBVIOUS
<1>5. \A l : p \in E(l) <=> \E i \in DOMAIN events[l] : \E j \in In(f, events[l][i]) : p = <<"event", l, i, j>>
  OBVIOUS
<1>6. \A l : p \in C(l) <=> \E i \in DOMAIN calls[l] : \E j \in In(f, Paths(calls[l][i])) : p = <<"call", l, i, j>>
  OBVIOUS
<1>7. p \in T <=> Launched(f, p)
  BY DEF Launched, OfThread
<1>8. p \in L <=> Queued(f, p) \/ WasOpened(f, p) \/ Sent(f, p) \/ Called(f, p)
  <2>1. \A l : OfWindow(f, l) = Q(l) \cup O(l) \cup E(l) \cup C(l)
    BY Zenon DEF OfWindow
  <2>2. p \in L <=> \E l \in Labels : p \in Q(l) \/ p \in O(l) \/ p \in E(l) \/ p \in C(l)
    <3> HIDE DEF Q, O, E, C
    <3> QED BY <2>1
  <2> HIDE DEF Q, O, E, C, L
  <2> QED BY <2>2, <1>3, <1>4, <1>5, <1>6 DEF Queued, WasOpened, Sent, Called
<1> HIDE DEF G, L, T
<1> QED BY <1>1, <1>2, <1>7, <1>8 DEF Placed

LEMMA PlacesNext == PlacesAre'
BY PlacesKnown, PTL

\* How the places of a file change in a step: each is the move of one it had.
Own == {"queue", "call", "opened"}
Moved(old, new, m) ==
  \A p \in new : \E o \in old : p = m[o] /\ (o[1] \in Own => p[1] \in Own /\ p[2] = o[2])

LEMMA MovesKeep ==
  ASSUME Unique, OwnWindow, UNCHANGED home,
         \A f \in Files : \/ PathPlaces(f)' \subseteq PathPlaces(f)
                          \/ \E m : Moved(PathPlaces(f), PathPlaces(f)', m)
                          \/ home[f] = NoWindow /\ \A p, q \in PathPlaces(f)' : p = q
  PROVE  Unique' /\ OwnWindow'
<1> SUFFICES ASSUME NEW f \in Files
             PROVE  /\ \A p, q \in PathPlaces(f)' : p = q
                    /\ home[f] # NoWindow =>
                         \A p \in PathPlaces(f)' : p[1] \in {"queue", "call", "opened"} /\ p[2] = home[f]
  BY DEF Unique, OwnWindow
<1>1. PICK old : old = PathPlaces(f)
  OBVIOUS
<1>2. PICK new : new = PathPlaces(f)'
  OBVIOUS
<1>3. /\ \A p, q \in old : p = q
      /\ home[f] # NoWindow => \A p \in old : p[1] \in {"queue", "call", "opened"} /\ p[2] = home[f]
  BY <1>1 DEF Unique, OwnWindow
<1>4. \/ new \subseteq old
      \/ \E m : Moved(old, new, m)
      \/ home[f] = NoWindow /\ \A p, q \in new : p = q
  BY <1>1, <1>2
<1>5. /\ \A p, q \in new : p = q
      /\ home[f] # NoWindow => \A p \in new : p[1] \in {"queue", "call", "opened"} /\ p[2] = home[f]
  <2>1. CASE new \subseteq old
    BY <1>3, <2>1
  <2>2. ASSUME NEW m, Moved(old, new, m)
        PROVE  /\ \A p, q \in new : p = q
               /\ home[f] # NoWindow => \A p \in new : p[1] \in {"queue", "call", "opened"} /\ p[2] = home[f]
    BY <1>3, <2>2 DEF Moved, Own
  <2> QED BY <1>4, <2>1, <2>2
<1> QED BY <1>2, <1>5

\* Nothing is anywhere but where it was.
LEMMA PlacesStay ==
  ASSUME windowQueue' = windowQueue \/ (\E l : windowQueue' = [windowQueue EXCEPT ![l] = <<>>]),
         windowQueue \in [Labels -> Seq(Started)],
         globalQueue' = globalQueue, openings' = openings, NEW f,
         \A p : Sent(f, p)' => Sent(f, p), \A p : Called(f, p)' => Called(f, p),
         \A p : Launched(f, p)' => Launched(f, p)
  PROVE  PathPlaces(f)' \subseteq PathPlaces(f)
<1> SUFFICES ASSUME NEW p, p \in PathPlaces(f)' PROVE p \in PathPlaces(f)
  OBVIOUS
<1>1. Placed(f, p)'
  BY PlacesNext DEF PlacesAre
<1>2. Queued(f, p)' => Queued(f, p)
  BY DEF Queued, In
<1>3. (Waits(f, p)' => Waits(f, p)) /\ (WasOpened(f, p)' => WasOpened(f, p))
  BY DEF Waits, WasOpened
<1>4. Placed(f, p)
  BY <1>1, <1>2, <1>3 DEF Placed
<1> QED BY <1>4, PlacesKnown DEF PlacesAre

LEMMA SeqGrows == ASSUME NEW A, NEW B, A \subseteq B PROVE Seq(A) \subseteq Seq(B)
OBVIOUS

LEMMA NotIn == ASSUME NEW A, NEW s \in Seq(A), NEW f, f \notin A PROVE In(f, s) = {}
BY DEF In

LEMMA StartedGrows ==
  ASSUME HistoryInv, arrived' \in Nat, arrived <= arrived', dropped \subseteq dropped',
         dropped' \subseteq dropped \cup ((arrived + 1)..arrived')
  PROVE  /\ Seq(Started) \subseteq Seq(Started') /\ Seq(dropped) \subseteq Seq(dropped')
         /\ Seq(1..arrived) \subseteq Seq(1..arrived')
         /\ Seq(Seq(dropped)) \subseteq Seq(Seq(dropped'))
         /\ \A c : CallIsFit(c) => CallIsFit(c)'
<1>1. Started \subseteq Started' /\ 1..arrived \subseteq 1..arrived'
  BY DEF HistoryInv, Started
<1>2. /\ Seq(Started) \subseteq Seq(Started') /\ Seq(dropped) \subseteq Seq(dropped')
      /\ Seq(1..arrived) \subseteq Seq(1..arrived')
  BY <1>1, SeqGrows
<1>3. Seq(Seq(dropped)) \subseteq Seq(Seq(dropped'))
  BY <1>2, SeqGrows
<1>4. ASSUME NEW c, CallIsFit(c) PROVE CallIsFit(c)'
  BY <1>2, <1>4 DEF CallIsFit
<1> QED BY <1>2, <1>3, <1>4

\* A file that has not come yet is nowhere.
LEMMA FreshIsNowhere ==
  ASSUME ListsInv, HistoryInv, NEW f \in Files, f > arrived
  PROVE  PathPlaces(f) = {} /\ home[f] = NoWindow
<1>1. arrived \in Nat /\ dropped \subseteq 1..arrived /\ f \in Nat
  BY PendingOpenAssumption DEF HistoryInv, Files
<1>2. f \notin 1..arrived /\ f \notin Started /\ f \notin dropped
  BY <1>1 DEF Started
<1>3. In(f, globalQueue) = {} /\ \A l \in Labels : In(f, windowQueue[l]) = {} /\ In(f, openings[l]) = {}
  BY <1>2, NotIn DEF ListsInv
<1>4. \A l \in Labels : \A i \in DOMAIN events[l] : In(f, events[l][i]) = {}
  <2> SUFFICES ASSUME NEW l \in Labels, NEW i \in DOMAIN events[l] PROVE In(f, events[l][i]) = {}
    OBVIOUS
  <2>1. events[l][i] \in Seq(dropped)
    BY DEF ListsInv
  <2> QED BY <1>2, <2>1, NotIn
<1>5. \A l \in Labels : \A i \in DOMAIN calls[l] : In(f, Paths(calls[l][i])) = {}
  <2> SUFFICES ASSUME NEW l \in Labels, NEW i \in DOMAIN calls[l] PROVE In(f, Paths(calls[l][i])) = {}
    OBVIOUS
  <2>1. calls[l][i].payload \in Seq(dropped) /\ calls[l][i].answer \in Seq(Started)
    BY DEF ListsInv, CallsFit, CallIsFit
  <2>2. dropped \subseteq 1..arrived /\ Started \subseteq 1..arrived
    BY <1>1 DEF Started
  <2>3. calls[l][i].payload \in Seq(1..arrived) /\ calls[l][i].answer \in Seq(1..arrived)
    BY <2>1, <2>2, SeqGrows
  <2>4. Paths(calls[l][i]) \in Seq(1..arrived)
    BY <2>3 DEF Paths
  <2> QED BY <1>2, <2>4, NotIn
<1>6. \A t \in launches : In(f, t.paths) = {}
  BY <1>2, NotIn DEF ListsInv, ThreadIsFit
<1>7. \A p : p \notin PathPlaces(f)
  BY <1>3, <1>4, <1>5, <1>6, PlacesKnown
    DEF PlacesAre, Placed, Waits, Queued, WasOpened, Sent, Called, Launched
<1>8. home[f] = NoWindow
  BY <1>1 DEF HistoryInv
<1> QED BY <1>7, <1>8

LEMMA SecondInstanceKeeps == ASSUME FilesInv, SecondInstance PROVE FilesInv'
<1>1. PICK n \in 1..2 : /\ arrived + n <= MaxFiles /\ arrived' = arrived + n
                        /\ launches' = launches \cup {[paths |-> NewFiles(n), window |-> NoWindow]}
  BY DEF SecondInstance
<1>2. UNCHANGED <<globalQueue, windowQueue, view, attached, events, calls, openings, superseded, lost,
                  home, dropped, reloads>>
  BY DEF SecondInstance, queues, pages
<1>3. ListsInv /\ HistoryInv /\ WindowsInv
  BY DEF FilesInv
<1>4. arrived \in Nat /\ dropped \subseteq 1..arrived /\ MaxFiles \in Nat /\ arrived' \in Nat /\ arrived <= arrived'
  BY <1>1, <1>3, PendingOpenAssumption DEF HistoryInv
<1>5. /\ Seq(Started) \subseteq Seq(Started') /\ Seq(1..arrived) \subseteq Seq(1..arrived')
      /\ \A c : CallIsFit(c) => CallIsFit(c)'
  BY <1>2, <1>3, <1>4, StartedGrows
<1>6. NewFiles(n) \in Seq(Started') /\ \A i \in 1..n : NewFiles(n)[i] = arrived + i
  <2>1. \A i \in 1..n : arrived + i \in Started'
    BY <1>1, <1>2, <1>4 DEF Started
  <2> QED BY <2>1 DEF NewFiles
<1>7. \A t \in launches' : ThreadIsFit(t)'
  <2> SUFFICES ASSUME NEW t \in launches' PROVE ThreadIsFit(t)'
    OBVIOUS
  <2>1. CASE t \in launches
    <3>1. ThreadIsFit(t)
      BY <1>3, <2>1 DEF ListsInv
    <3> QED BY <1>2, <1>5, <3>1 DEF ThreadIsFit
  <2>2. CASE t = [paths |-> NewFiles(n), window |-> NoWindow]
    BY <1>6, <2>2 DEF ThreadIsFit
  <2> QED BY <1>1, <2>1, <2>2
<1>8. ListsInv'
  <2>1. CallsFit'
    BY <1>2, <1>3, <1>5 DEF ListsInv, CallsFit
  <2> QED BY <1>2, <1>3, <1>5, <1>7, <2>1 DEF ListsInv
<1>9. HistoryInv' /\ WindowsInv'
  <2>1. \A f \in Files : home[f] # NoWindow => f <= arrived'
    BY <1>3, <1>4 DEF HistoryInv, Files
  <2>2. arrived' \in 0..MaxFiles /\ dropped \subseteq 1..arrived'
    BY <1>1, <1>4
  <2>3. superseded \subseteq (1..arrived') \X (1..arrived')
    <3>1. superseded \subseteq (1..arrived) \X (1..arrived) /\ 1..arrived \subseteq 1..arrived'
      BY <1>3, <1>4 DEF HistoryInv
    <3> QED BY <3>1
  <2> QED BY <1>2, <1>3, <2>1, <2>2, <2>3 DEF HistoryInv, WindowsInv
<1>10. ASSUME NEW f \in Files
       PROVE  \/ PathPlaces(f)' \subseteq PathPlaces(f)
              \/ home[f] = NoWindow /\ \A p, q \in PathPlaces(f)' : p = q
  <2>1. CASE f <= arrived
    <3>1. \A i \in 1..n : NewFiles(n)[i] # f
      BY <1>4, <1>6, <2>1
    <3>2. DOMAIN NewFiles(n) = 1..n
      BY DEF NewFiles
    <3>3. \A p : Launched(f, p)' => Launched(f, p)
      BY <1>1, <3>1, <3>2 DEF Launched, In
    <3>4. \A p : (Sent(f, p)' => Sent(f, p)) /\ (Called(f, p)' => Called(f, p))
      BY <1>2 DEF Sent, Called
    <3> QED BY <1>2, <1>3, <3>3, <3>4, PlacesStay DEF ListsInv
  <2>2. CASE f > arrived
    <3>1. home[f] = NoWindow
      BY <1>3, <1>4, <2>2 DEF HistoryInv, Files
    <3>2. ASSUME NEW p, p \in PathPlaces(f)'
          PROVE  p = <<"thread", [paths |-> NewFiles(n), window |-> NoWindow], 0, f - arrived>>
      <4>1. Placed(f, p)' /\ ~Placed(f, p)
        BY <1>3, <2>2, <3>2, PlacesKnown, PlacesNext, FreshIsNowhere DEF PlacesAre
      <4>2. Launched(f, p)' /\ ~Launched(f, p)
        BY <1>2, <4>1 DEF Placed, Waits, Queued, WasOpened, Sent, Called
      <4>3. PICK t \in launches' : \E j \in In(f, t.paths) :
              (j > 1 \/ t.window = NoWindow) /\ p = <<"thread", t, 0, j>>
        BY <4>2 DEF Launched
      <4>4. PICK j \in In(f, t.paths) : (j > 1 \/ t.window = NoWindow) /\ p = <<"thread", t, 0, j>>
        BY <4>3
      <4>5. t \notin launches
        BY <4>2, <4>4 DEF Launched
      <4>6. t = [paths |-> NewFiles(n), window |-> NoWindow]
        BY <1>1, <4>5
      <4>7. j \in 1..n /\ NewFiles(n)[j] = f
        BY <4>4, <4>6 DEF In, NewFiles
      <4>8. j = f - arrived
        BY <1>4, <1>6, <4>7
      <4> QED BY <4>4, <4>6, <4>8
    <3> QED BY <3>1, <3>2
  <2> QED BY <1>4, <2>1, <2>2 DEF Files
<1>11. Unique' /\ OwnWindow'
  BY <1>2, <1>10, MovesKeep DEF FilesInv
<1>12. NoQueueLeft' /\ GivesWayToLater'
  BY <1>2 DEF FilesInv, NoQueueLeft, Open, GivesWayToLater
<1> QED BY <1>8, <1>9, <1>11, <1>12 DEF FilesInv

LEMMA FreshCall ==
  ASSUME NEW given \in Seq(Files)
  PROVE  /\ CallWith(given) \in CallType /\ Paths(CallWith(given)) = given
         /\ CallWith(given).payload = given /\ CallWith(given).answer = <<>>
         /\ ~CallWith(given).handled /\ ~CallWith(given).dead
BY DEF CallWith, CallType, Paths

LEMMA CallsChange ==
  ASSUME ListsInv, UNCHANGED <<arrived, dropped>>, NEW l \in Labels, NEW s \in Seq(CallType),
         \A i \in DOMAIN s : CallIsFit(s[i]), calls' = [calls EXCEPT ![l] = s]
  PROVE  CallsFit'
<1>1. calls \in [Labels -> Seq(CallType)] /\ \A k \in Labels : \A i \in DOMAIN calls[k] : CallIsFit(calls[k][i])
  BY DEF ListsInv, CallsFit
<1>2. PICK new : new = calls'
  OBVIOUS
<1>3. \A k \in Labels : new[k] = IF k = l THEN s ELSE calls[k]
  BY <1>1, <1>2
<1>4. new \in [Labels -> Seq(CallType)] /\ \A k \in Labels : \A i \in DOMAIN new[k] : CallIsFit(new[k][i])
  BY <1>1, <1>2, <1>3
<1>5. \A c : CallIsFit(c) => CallIsFit(c)'
  BY DEF CallIsFit, Started
<1> QED BY <1>2, <1>4, <1>5 DEF CallsFit

LEMMA ListenKeeps == ASSUME FilesInv, NEW l \in Labels, Listen(l) PROVE FilesInv'
<1>1. /\ view[l] = "loading" /\ view' = [view EXCEPT ![l] = "listening"]
      /\ UNCHANGED <<globalQueue, windowQueue, launches, attached, events, calls, openings, superseded, lost,
                     home, dropped, arrived, reloads>>
  BY DEF Listen, queues, pages, origin
<1>2. ListsInv /\ HistoryInv /\ WindowsInv
  BY DEF FilesInv
<1>3. \A t \in launches : ThreadIsFit(t)'
  BY <1>1, <1>2 DEF ListsInv, ThreadIsFit, Started, WindowsInv, Labels
<1>4. ListsInv'
  BY <1>1, <1>2, <1>3 DEF ListsInv, CallsFit, CallIsFit, Started
<1>5. HistoryInv' /\ WindowsInv'
  BY <1>1, <1>2 DEF HistoryInv, WindowsInv, WindowStates
<1>6. ASSUME NEW f \in Files PROVE PathPlaces(f)' \subseteq PathPlaces(f)
  <2>1. \A p : /\ Sent(f, p)' => Sent(f, p)
               /\ Called(f, p)' => Called(f, p)
               /\ Launched(f, p)' => Launched(f, p)
    BY <1>1 DEF Sent, Called, Launched
  <2> QED BY <1>1, <1>2, <2>1, PlacesStay DEF ListsInv
<1>7. Unique' /\ OwnWindow'
  BY <1>1, <1>6, MovesKeep DEF FilesInv
<1>8. NoQueueLeft' /\ GivesWayToLater'
  BY <1>1, <1>2 DEF FilesInv, NoQueueLeft, Open, GivesWayToLater, WindowsInv
<1> QED BY <1>4, <1>5, <1>7, <1>8 DEF FilesInv

LEMMA FirstTakeKeeps == ASSUME FilesInv, NEW l \in Labels, FirstTake(l) PROVE FilesInv'
<1> DEFINE s == Append(calls[l], CallWith(<<>>))
<1>1. /\ view[l] = "listening" /\ view' = [view EXCEPT ![l] = "ready"]
      /\ calls' = [calls EXCEPT ![l] = s]
      /\ UNCHANGED <<globalQueue, windowQueue, launches, attached, events, openings, superseded, lost,
                     home, dropped, arrived, reloads>>
  BY DEF FirstTake, queues, origin
<1>2. ListsInv /\ HistoryInv /\ WindowsInv
  BY DEF FilesInv
<1>3. \A t \in launches : ThreadIsFit(t)'
  BY <1>1, <1>2 DEF ListsInv, ThreadIsFit, Started, WindowsInv, Labels
<1>4. CallWith(<<>>) \in CallType /\ CallIsFit(CallWith(<<>>)) /\ Paths(CallWith(<<>>)) = <<>>
  <2>1. <<>> \in Seq(Files) /\ <<>> \in Seq(dropped) /\ <<>> \in Seq(Started) /\ Len(<<>>) <= 1
    OBVIOUS
  <2> QED BY <2>1, FreshCall DEF CallIsFit, InOrder
<1>5. calls[l] \in Seq(CallType) /\ \A i \in DOMAIN calls[l] : CallIsFit(calls[l][i])
  BY <1>2 DEF ListsInv, CallsFit
<1>6. /\ s \in Seq(CallType) /\ Len(s) = Len(calls[l]) + 1 /\ s[Len(calls[l]) + 1] = CallWith(<<>>)
      /\ DOMAIN s = 1..(Len(calls[l]) + 1)
      /\ \A i \in DOMAIN s : i = Len(calls[l]) + 1 \/ (i \in DOMAIN calls[l] /\ s[i] = calls[l][i])
  BY <1>4, <1>5
<1> HIDE DEF s
<1>7. \A i \in DOMAIN s : CallIsFit(s[i])
  BY <1>4, <1>5, <1>6
<1>8. ListsInv'
  <2>1. CallsFit'
    BY <1>1, <1>2, <1>6, <1>7, CallsChange
  <2> QED BY <1>1, <1>2, <1>3, <2>1 DEF ListsInv, Started
<1>9. HistoryInv' /\ WindowsInv'
  BY <1>1, <1>2 DEF HistoryInv, WindowsInv, WindowStates
<1>10. ASSUME NEW f \in Files PROVE PathPlaces(f)' \subseteq PathPlaces(f)
  <2>1. \A p : /\ Sent(f, p)' => Sent(f, p)
               /\ Launched(f, p)' => Launched(f, p)
    BY <1>1 DEF Sent, Launched
  <2>2. ASSUME NEW p, Called(f, p)' PROVE Called(f, p)
    <3>1. PICK k \in Labels : \E i \in DOMAIN calls'[k] : \E j \in In(f, Paths(calls'[k][i])) : p = <<"call", k, i, j>>
      BY <2>2 DEF Called
    <3>2. PICK i \in DOMAIN calls'[k] : \E j \in In(f, Paths(calls'[k][i])) : p = <<"call", k, i, j>>
      BY <3>1
    <3>6. PICK j \in In(f, Paths(calls'[k][i])) : p = <<"call", k, i, j>>
      BY <3>2
    <3>3. calls'[k] = IF k = l THEN s ELSE calls[k]
      BY <1>1, <1>2 DEF ListsInv, CallsFit
    <3>4. calls'[k][i] # CallWith(<<>>)
      BY <1>4, <3>6 DEF In
    <3>5. i \in DOMAIN calls[k] /\ calls'[k][i] = calls[k][i]
      BY <1>6, <3>2, <3>3, <3>4
    <3> QED BY <3>5, <3>6 DEF Called
  <2> QED BY <1>1, <1>2, <2>1, <2>2, PlacesStay DEF ListsInv
<1>11. Unique' /\ OwnWindow'
  BY <1>1, <1>10, MovesKeep DEF FilesInv
<1>12. NoQueueLeft' /\ GivesWayToLater'
  BY <1>1, <1>2 DEF FilesInv, NoQueueLeft, Open, GivesWayToLater, WindowsInv
<1> QED BY <1>8, <1>9, <1>11, <1>12 DEF FilesInv

(***************************************************************************)
(* The threads that open windows                                           *)
(***************************************************************************)
LEMMA ThreadsStay ==
  ASSUME ListsInv, UNCHANGED <<arrived, dropped>>, NEW new,
         \A u \in new : u \in launches \/ ThreadIsFit(u)',
         \A l \in Others : view[l] # "unborn" => view'[l] # "unborn"
  PROVE  \A u \in new : ThreadIsFit(u)'
BY DEF ListsInv, ThreadIsFit, Started

LEMMA NewWindowKeeps == ASSUME FilesInv, NEW l \in Others, NewWindow(l) PROVE FilesInv'
<1>1. /\ view[l] = "unborn" /\ view' = [view EXCEPT ![l] = "creating"]
      /\ launches' = launches \cup {Makes(l, <<>>)}
      /\ UNCHANGED <<globalQueue, windowQueue, attached, events, calls, openings, superseded, lost,
                     home, dropped, arrived, reloads>>
  BY DEF NewWindow, queues, pages, origin
<1>2. ListsInv /\ HistoryInv /\ WindowsInv
  BY DEF FilesInv
<1>3. Makes(l, <<>>).window = l /\ Makes(l, <<>>).paths = <<>> /\ l \in Labels
  BY DEF Makes, Labels
<1>4. ThreadIsFit(Makes(l, <<>>))'
  <2>1. view'[l] = "creating" /\ <<>> \in Seq(Started')
    BY <1>1, <1>2, <1>3 DEF WindowsInv
  <2> QED BY <1>3, <2>1 DEF ThreadIsFit
<1>5. \A t \in launches' : ThreadIsFit(t)'
  <2>1. \A k \in Others : view[k] # "unborn" => view'[k] # "unborn"
    BY <1>1, <1>2 DEF WindowsInv, Labels
  <2>2. \A u \in launches' : u \in launches \/ ThreadIsFit(u)'
    BY <1>1, <1>4
  <2> QED BY <1>1, <1>2, <2>1, <2>2, ThreadsStay
<1>6. ListsInv'
  BY <1>1, <1>2, <1>5 DEF ListsInv, CallsFit, CallIsFit, Started
<1>7. HistoryInv' /\ WindowsInv'
  BY <1>1, <1>2, <1>3 DEF HistoryInv, WindowsInv, WindowStates
<1>8. ASSUME NEW f \in Files PROVE PathPlaces(f)' \subseteq PathPlaces(f)
  <2>1. \A p : /\ Sent(f, p)' => Sent(f, p)
               /\ Called(f, p)' => Called(f, p)
    BY <1>1 DEF Sent, Called
  <2>2. \A p : Launched(f, p)' => Launched(f, p)
    BY <1>1, <1>3 DEF Launched, In
  <2> QED BY <1>1, <1>2, <2>1, <2>2, PlacesStay DEF ListsInv
<1>9. Unique' /\ OwnWindow'
  BY <1>1, <1>8, MovesKeep DEF FilesInv
<1>10. NoQueueLeft' /\ GivesWayToLater'
  BY <1>1, <1>2, <1>3 DEF FilesInv, NoQueueLeft, Open, GivesWayToLater, WindowsInv
<1> QED BY <1>6, <1>7, <1>9, <1>10 DEF FilesInv

\* A thread that goes on: its first file is behind it, and the next ones are one place nearer.
LEMMA ContinuesIs ==
  ASSUME ListsInv, NEW t \in launches, t.window # NoWindow, Continues(t), UNCHANGED <<arrived, dropped>>,
         \A l \in Others : view[l] # "unborn" => view'[l] # "unborn"
  PROVE  \A u \in launches' : ThreadIsFit(u)'
<1>1. t.paths \in Seq(Started)
  BY DEF ListsInv, ThreadIsFit
<1>2. \/ launches' = launches \ {t}
      \/ Len(t.paths) > 1 /\ launches' = (launches \ {t}) \cup {Makes(NoWindow, Tail(t.paths))}
  BY <1>1 DEF Continues
<1>3. Len(t.paths) > 1 => ThreadIsFit(Makes(NoWindow, Tail(t.paths)))'
  <2> SUFFICES ASSUME Len(t.paths) > 1 PROVE ThreadIsFit(Makes(NoWindow, Tail(t.paths)))'
    OBVIOUS
  <2>1. Tail(t.paths) \in Seq(Started) /\ Started' = Started
    BY <1>1 DEF Started
  <2> QED BY <2>1 DEF ThreadIsFit, Makes
<1>4. \A u \in launches' : u \in launches \/ ThreadIsFit(u)'
  BY <1>2, <1>3
<1> QED BY <1>4, ThreadsStay

LEMMA ContinueMoves ==
  ASSUME ListsInv, NEW t \in launches, t.window # NoWindow, Continues(t),
         windowQueue' = windowQueue \/ (\E l : windowQueue' = [windowQueue EXCEPT ![l] = <<>>]),
         UNCHANGED <<globalQueue, openings, events, calls>>, NEW f \in Files
  PROVE  \E m : Moved(PathPlaces(f), PathPlaces(f)', m)
<1>1. t.paths \in Seq(Started)
  BY DEF ListsInv, ThreadIsFit
<1>2. PICK next : next = Makes(NoWindow, Tail(t.paths))
  OBVIOUS
<1>3. \/ launches' = launches \ {t}
      \/ Len(t.paths) > 1 /\ launches' = (launches \ {t}) \cup {next}
  BY <1>1, <1>2 DEF Continues
<1>4. PICK old : old = PathPlaces(f)
  OBVIOUS
<1> DEFINE m == [o \in old |-> IF o[1] = "thread" /\ o[2] = t THEN <<"thread", next, 0, o[4] - 1>> ELSE o]
<1>5. ASSUME NEW p \in PathPlaces(f)'
      PROVE  \E o \in old : p = m[o] /\ (o[1] \in Own => p[1] \in Own /\ p[2] = o[2])
  <2>1. Placed(f, p)'
    BY PlacesNext DEF PlacesAre
  <2>2. ASSUME Placed(f, p), ~(p[1] = "thread" /\ p[2] = t)
        PROVE  \E o \in old : p = m[o] /\ (o[1] \in Own => p[1] \in Own /\ p[2] = o[2])
    <3>1. p \in old
      BY <1>4, <2>2, PlacesKnown DEF PlacesAre
    <3> QED BY <2>2, <3>1
  <2>3. CASE Queued(f, p)'
    <3>1. Queued(f, p) /\ p[1] = "queue"
      BY <2>3 DEF Queued, In, ListsInv
    <3> QED BY <2>2, <3>1 DEF Placed
  <2>4. CASE Waits(f, p)' \/ WasOpened(f, p)' \/ Sent(f, p)' \/ Called(f, p)'
    <3>1. Waits(f, p) \/ WasOpened(f, p) \/ Sent(f, p) \/ Called(f, p)
      BY <2>4 DEF Waits, WasOpened, Sent, Called
    <3>2. p[1] # "thread"
      BY <3>1 DEF Waits, WasOpened, Sent, Called
    <3> QED BY <2>2, <3>1, <3>2 DEF Placed
  <2>5. CASE Launched(f, p)'
    <3>1. PICK u \in launches' : \E j \in In(f, u.paths) :
            (j > 1 \/ u.window = NoWindow) /\ p = <<"thread", u, 0, j>>
      BY <2>5 DEF Launched
    <3>2. PICK j \in In(f, u.paths) : (j > 1 \/ u.window = NoWindow) /\ p = <<"thread", u, 0, j>>
      BY <3>1
    <3>3. CASE u \in launches \ {t}
      <4>1. Launched(f, p) /\ p[2] # t
        BY <3>2, <3>3 DEF Launched
      <4> QED BY <2>2, <4>1 DEF Placed
    <3>4. CASE u = next /\ Len(t.paths) > 1
      <4>1. u.paths = Tail(t.paths)
        BY <1>2, <3>4 DEF Makes
      <4>2. j \in 1..(Len(t.paths) - 1) /\ t.paths[j + 1] = f
        BY <1>1, <3>2, <3>4, <4>1 DEF In
      <4>3. j + 1 \in In(f, t.paths) /\ j + 1 > 1
        BY <1>1, <4>2 DEF In
      <4>4. PICK o : o = <<"thread", t, 0, j + 1>>
        OBVIOUS
      <4>5. o \in old
        BY <1>4, <4>3, <4>4, PlacesKnown DEF PlacesAre, Placed, Launched
      <4>8. o[1] = "thread" /\ o[2] = t /\ o[4] = j + 1
        BY <4>4
      <4>9. m[o] = <<"thread", next, 0, o[4] - 1>>
        BY <4>5, <4>8
      <4> HIDE DEF m
      <4>6. m[o] = <<"thread", next, 0, j + 1 - 1>>
        BY <4>2, <4>8, <4>9
      <4>7. m[o] = p /\ o[1] \notin Own
        BY <3>2, <3>4, <4>2, <4>4, <4>6 DEF Own
      <4> QED BY <4>5, <4>7
    <3> QED BY <1>3, <3>3, <3>4
  <2> QED BY <2>1, <2>3, <2>4, <2>5 DEF Placed
<1>6. Moved(old, PathPlaces(f)', m)
  <2> HIDE DEF m
  <2> QED BY <1>5 DEF Moved
<1> QED BY <1>4, <1>6

LEMMA QueuesStay ==
  ASSUME ListsInv, NEW l, windowQueue' = windowQueue \/ windowQueue' = [windowQueue EXCEPT ![l] = <<>>]
  PROVE  windowQueue' \in [Labels -> Seq(Started)] /\ \A k \in Labels : Len(windowQueue'[k]) <= 1
<1>1. windowQueue \in [Labels -> Seq(Started)] /\ \A k \in Labels : Len(windowQueue[k]) <= 1
  BY DEF ListsInv
<1>2. <<>> \in Seq(Started) /\ Len(<<>>) <= 1
  OBVIOUS
<1>3. CASE windowQueue' = [windowQueue EXCEPT ![l] = <<>>]
  <2>1. windowQueue' \in [Labels -> Seq(Started)] /\ \A k \in Labels : windowQueue'[k] \in {windowQueue[k], <<>>}
    BY <1>1, <1>2, <1>3
  <2> QED BY <1>1, <1>2, <2>1
<1> QED BY <1>1, <1>3

LEMMA BuildWindowKeeps == ASSUME FilesInv, NEW t \in launches, BuildWindow(t) PROVE FilesInv'
<1>1. /\ t.window # NoWindow /\ view[t.window] = "creating"
      /\ UNCHANGED <<globalQueue, attached, events, calls, openings, superseded, lost, home, dropped, arrived, reloads>>
      /\ \/ view' = [view EXCEPT ![t.window] = "loading"] /\ UNCHANGED <<launches, windowQueue>>
         \/ view' = [view EXCEPT ![t.window] = "closed"] /\ Continues(t) /\ Discard(t.window)
  BY DEF BuildWindow, pages, origin
<1>2. ListsInv /\ HistoryInv /\ WindowsInv
  BY DEF FilesInv
<1>3. t.window \in Others /\ t.window \in Labels
  BY <1>1, <1>2 DEF ListsInv, ThreadIsFit, Labels
<1>4. /\ windowQueue' = windowQueue \/ windowQueue' = [windowQueue EXCEPT ![t.window] = <<>>]
      /\ view' = [view EXCEPT ![t.window] = "loading"] \/ view' = [view EXCEPT ![t.window] = "closed"]
  BY <1>1 DEF Discard
<1>5. \A l \in Others : view[l] # "unborn" => view'[l] # "unborn"
  BY <1>2, <1>4 DEF WindowsInv, Labels
<1>6. \A u \in launches' : ThreadIsFit(u)'
  <2>1. CASE UNCHANGED launches
    BY <1>1, <1>2, <1>5, <2>1, ThreadsStay
  <2>2. CASE Continues(t)
    BY <1>1, <1>2, <1>5, <2>2, ContinuesIs
  <2> QED BY <1>1, <2>1, <2>2
<1>7. ListsInv'
  <2>1. CallsFit'
    BY <1>1, <1>2 DEF ListsInv, CallsFit, CallIsFit, Started
  <2>2. windowQueue' \in [Labels -> Seq(Started)] /\ \A l \in Labels : Len(windowQueue'[l]) <= 1
    BY <1>2, <1>4, QueuesStay
  <2> QED BY <1>1, <1>2, <1>6, <2>1, <2>2 DEF ListsInv, Started
<1>8. HistoryInv' /\ WindowsInv'
  BY <1>1, <1>2, <1>3, <1>4 DEF HistoryInv, WindowsInv, WindowStates
<1>9. ASSUME NEW f \in Files
      PROVE  PathPlaces(f)' \subseteq PathPlaces(f) \/ \E m : Moved(PathPlaces(f), PathPlaces(f)', m)
  <2>1. CASE UNCHANGED <<launches, windowQueue>>
    <3>1. \A p : /\ Sent(f, p)' => Sent(f, p)
                 /\ Called(f, p)' => Called(f, p)
                 /\ Launched(f, p)' => Launched(f, p)
      BY <1>1, <2>1 DEF Sent, Called, Launched
    <3> QED BY <1>1, <1>2, <2>1, <3>1, PlacesStay DEF ListsInv
  <2>2. CASE Continues(t)
    BY <1>1, <1>2, <1>4, <2>2, ContinueMoves
  <2> QED BY <1>1, <2>1, <2>2
<1>10. Unique' /\ OwnWindow'
  BY <1>1, <1>9, MovesKeep DEF FilesInv
<1>11. NoQueueLeft'
  <2>1. windowQueue \in [Labels -> Seq(Started)] /\ view \in [Labels -> WindowStates]
    BY <1>2 DEF ListsInv, WindowsInv
  <2>2. CASE view' = [view EXCEPT ![t.window] = "loading"] /\ UNCHANGED windowQueue
    BY <1>1, <1>3, <2>1, <2>2 DEF FilesInv, NoQueueLeft, Open
  <2>3. CASE view' = [view EXCEPT ![t.window] = "closed"] /\ Discard(t.window)
    BY <1>1, <1>3, <2>1, <2>3 DEF FilesInv, NoQueueLeft, Open, Discard
  <2> QED BY <1>1, <2>2, <2>3
<1>12. GivesWayToLater'
  BY <1>1 DEF FilesInv, GivesWayToLater
<1> QED BY <1>7, <1>8, <1>10, <1>11, <1>12 DEF FilesInv

LEMMA AttachHandlersKeeps == ASSUME FilesInv, NEW t \in launches, AttachHandlers(t) PROVE FilesInv'
<1>1. /\ t.window # NoWindow /\ view[t.window] # "creating" /\ Continues(t)
      /\ attached' = IF t.window \in Open THEN attached \cup {t.window} ELSE attached
      /\ UNCHANGED <<globalQueue, windowQueue, view, events, calls, openings, superseded, lost,
                     home, dropped, arrived, reloads>>
  BY DEF AttachHandlers, queues, pages, origin
<1>2. ListsInv /\ HistoryInv /\ WindowsInv
  BY DEF FilesInv
<1>3. \A u \in launches' : ThreadIsFit(u)'
  BY <1>1, <1>2, ContinuesIs
<1>4. ListsInv'
  <2>1. CallsFit'
    BY <1>1, <1>2 DEF ListsInv, CallsFit, CallIsFit, Started
  <2> QED BY <1>1, <1>2, <1>3, <2>1 DEF ListsInv, Started
<1>5. HistoryInv' /\ WindowsInv'
  BY <1>1, <1>2 DEF HistoryInv, WindowsInv, WindowStates, Open
<1>6. ASSUME NEW f \in Files PROVE \E m : Moved(PathPlaces(f), PathPlaces(f)', m)
  BY <1>1, <1>2, ContinueMoves
<1>7. Unique' /\ OwnWindow'
  BY <1>1, <1>6, MovesKeep DEF FilesInv
<1>8. NoQueueLeft' /\ GivesWayToLater'
  BY <1>1, <1>2 DEF FilesInv, NoQueueLeft, Open, GivesWayToLater, WindowsInv
<1> QED BY <1>4, <1>5, <1>7, <1>8 DEF FilesInv

QueueMove(old, t, l, next) ==
  [o \in old |-> IF o[1] = "thread" /\ o[2] = t
                 THEN IF o[4] = 1 THEN <<"queue", l, 0, 1>> ELSE <<"thread", next, 0, o[4]>>
                 ELSE o]
\* The head of a thread's files goes into the queue of the new window.
LEMMA QueueMoves ==
  ASSUME ListsInv, NEW t \in launches, t.window = NoWindow, t.paths # <<>>, NEW l \in Labels, NEW next,
         next = Makes(l, t.paths), windowQueue' = [windowQueue EXCEPT ![l] = <<Head(t.paths)>>],
         launches' = (launches \ {t}) \cup {next},
         UNCHANGED <<globalQueue, openings, events, calls>>, NEW f,
         NEW old, old = PathPlaces(f), NEW m,
         m = QueueMove(old, t, l, next)
  PROVE  Moved(old, PathPlaces(f)', m)
<1> USE DEF QueueMove
<1>1. t.paths \in Seq(Started) /\ next.paths = t.paths /\ next.window = l
  BY DEF ListsInv, ThreadIsFit, Makes
<1>2. ASSUME NEW p \in PathPlaces(f)'
      PROVE  \E o \in old : p = m[o] /\ (o[1] \in Own => p[1] \in Own /\ p[2] = o[2])
  <2>1. Placed(f, p)'
    BY PlacesNext DEF PlacesAre
  <2>2. ASSUME Placed(f, p), ~(p[1] = "thread" /\ p[2] = t)
        PROVE  \E o \in old : p = m[o] /\ (o[1] \in Own => p[1] \in Own /\ p[2] = o[2])
    <3>1. p \in old
      BY <2>2, PlacesKnown DEF PlacesAre
    <3> QED BY <2>2, <3>1
  <2>3. ASSUME NEW j \in In(f, t.paths), NEW o, o = <<"thread", t, 0, j>>
        PROVE  /\ o \in old /\ o[1] \notin Own
               /\ m[o] = IF j = 1 THEN <<"queue", l, 0, 1>> ELSE <<"thread", next, 0, j>>
    <3>1. o \in old
      BY <2>3, PlacesKnown DEF PlacesAre, Placed, Launched
    <3>2. o[1] = "thread" /\ o[2] = t /\ o[4] = j
      BY <2>3
    <3> QED BY <3>1, <3>2 DEF Own
  <2>4. CASE Queued(f, p)'
    <3>1. PICK k \in Labels : \E j \in In(f, windowQueue'[k]) : p = <<"queue", k, 0, j>>
      BY <2>4 DEF Queued
    <3>2. PICK j \in In(f, windowQueue'[k]) : p = <<"queue", k, 0, j>>
      BY <3>1
    <3>3. CASE k = l
      <4>1. windowQueue'[l] = <<Head(t.paths)>>
        BY DEF ListsInv
      <4>2. j = 1 /\ f = t.paths[1] /\ 1 \in In(f, t.paths)
        BY <1>1, <3>2, <3>3, <4>1 DEF In
      <4>3. PICK o : o = <<"thread", t, 0, 1>>
        OBVIOUS
      <4>4. o \in old /\ o[1] \notin Own /\ m[o] = <<"queue", l, 0, 1>>
        BY <2>3, <4>2, <4>3
      <4> QED BY <3>2, <3>3, <4>2, <4>4
    <3>4. CASE k # l
      <4>1. Queued(f, p) /\ p[1] = "queue"
        BY <3>2, <3>4 DEF Queued, ListsInv
      <4> QED BY <2>2, <4>1 DEF Placed
    <3> QED BY <3>3, <3>4
  <2>5. CASE Waits(f, p)' \/ WasOpened(f, p)' \/ Sent(f, p)' \/ Called(f, p)'
    <3>1. Waits(f, p) \/ WasOpened(f, p) \/ Sent(f, p) \/ Called(f, p)
      BY <2>5 DEF Waits, WasOpened, Sent, Called
    <3>2. p[1] # "thread"
      BY <3>1 DEF Waits, WasOpened, Sent, Called
    <3> QED BY <2>2, <3>1, <3>2 DEF Placed
  <2>6. CASE Launched(f, p)'
    <3>1. PICK u \in launches' : \E j \in In(f, u.paths) :
            (j > 1 \/ u.window = NoWindow) /\ p = <<"thread", u, 0, j>>
      BY <2>6 DEF Launched
    <3>2. PICK j \in In(f, u.paths) : (j > 1 \/ u.window = NoWindow) /\ p = <<"thread", u, 0, j>>
      BY <3>1
    <3>3. CASE u \in launches \ {t}
      <4>1. Launched(f, p) /\ p[2] # t
        BY <3>2, <3>3 DEF Launched
      <4> QED BY <2>2, <4>1 DEF Placed
    <3>4. CASE u = next
      <4>1. j # 1 /\ j \in In(f, t.paths)
        BY <1>1, <3>2, <3>4, PendingOpenAssumption DEF Labels
      <4>2. PICK o : o = <<"thread", t, 0, j>>
        OBVIOUS
      <4>3. o \in old /\ o[1] \notin Own /\ m[o] = <<"thread", next, 0, j>>
        BY <2>3, <4>1, <4>2
      <4> QED BY <3>2, <3>4, <4>3
    <3> QED BY <3>3, <3>4
  <2> QED BY <2>1, <2>4, <2>5, <2>6 DEF Placed
<1> QED BY <1>2 DEF Moved

LEMMA QueueForWindowKeeps == ASSUME FilesInv, NEW t \in launches, QueueForWindow(t) PROVE FilesInv'
<1>1. PICK l \in Others :
        /\ t.window = NoWindow /\ t.paths # <<>>
        /\ view[l] = "unborn" /\ view' = [view EXCEPT ![l] = "creating"]
        /\ windowQueue' = [windowQueue EXCEPT ![l] = <<Head(t.paths)>>]
        /\ home' = [home EXCEPT ![Head(t.paths)] = l]
        /\ launches' = (launches \ {t}) \cup {Makes(l, t.paths)}
  BY DEF QueueForWindow
<1>2. UNCHANGED <<globalQueue, attached, events, calls, openings, superseded, lost, dropped, arrived, reloads>>
  BY DEF QueueForWindow, pages
<1>3. ListsInv /\ HistoryInv /\ WindowsInv /\ Unique /\ OwnWindow
  BY DEF FilesInv
<1>4. /\ t.paths \in Seq(Started) /\ Head(t.paths) = t.paths[1] /\ Head(t.paths) \in Started
      /\ 1 \in DOMAIN t.paths /\ l \in Labels /\ l # NoWindow
  BY <1>1, <1>3, PendingOpenAssumption DEF ListsInv, ThreadIsFit, Labels
<1>5. PICK first : first = Head(t.paths)
  OBVIOUS
<1>6. first \in Files /\ first \in Started /\ first <= arrived
  BY <1>3, <1>4, <1>5, PendingOpenAssumption DEF Started, HistoryInv, Files
<1>7. PICK next : next = Makes(l, t.paths)
  OBVIOUS
<1>8. next.window = l /\ next.paths = t.paths
  BY <1>7 DEF Makes
<1>9. \A u \in launches' : ThreadIsFit(u)'
  <2>1. \A k \in Others : view[k] # "unborn" => view'[k] # "unborn"
    BY <1>1, <1>3, <1>4 DEF WindowsInv, Labels
  <2>2. ThreadIsFit(next)'
    <3>1. view'[l] # "unborn"
      BY <1>1, <1>3, <1>4 DEF WindowsInv
    <3> QED BY <1>2, <1>4, <1>8, <3>1 DEF ThreadIsFit, Started
  <2>3. \A u \in launches' : u \in launches \/ ThreadIsFit(u)'
    BY <1>1, <1>7, <2>2
  <2> QED BY <1>2, <1>3, <2>1, <2>3, ThreadsStay
<1>10. ListsInv'
  <2>1. CallsFit'
    BY <1>2, <1>3 DEF ListsInv, CallsFit, CallIsFit, Started
  <2>2. windowQueue' \in [Labels -> Seq(Started)] /\ \A k \in Labels : Len(windowQueue'[k]) <= 1
    <3>1. <<first>> \in Seq(Started) /\ Len(<<first>>) = 1 /\ windowQueue' = [windowQueue EXCEPT ![l] = <<first>>]
      BY <1>1, <1>5, <1>6
    <3> QED BY <1>3, <1>4, <3>1 DEF ListsInv
  <2> QED BY <1>2, <1>3, <1>9, <2>1, <2>2 DEF ListsInv, Started
<1>11. HistoryInv' /\ WindowsInv'
  <2>1. home' = [home EXCEPT ![first] = l]
    BY <1>1, <1>5
  <2>2. home' \in [Files -> Labels \cup {NoWindow}] /\ \A f \in Files : home'[f] # NoWindow => f <= arrived
    BY <1>3, <1>4, <1>6, <2>1 DEF HistoryInv
  <2> QED BY <1>1, <1>2, <1>3, <1>4, <2>2 DEF HistoryInv, WindowsInv, WindowStates
<1>12. ASSUME NEW f \in Files
       PROVE  /\ \A p, q \in PathPlaces(f)' : p = q
              /\ home'[f] # NoWindow =>
                   \A p \in PathPlaces(f)' : p[1] \in {"queue", "call", "opened"} /\ p[2] = home'[f]
  <2>1. PICK old : old = PathPlaces(f)
    OBVIOUS
  <2>2. PICK new : new = PathPlaces(f)'
    OBVIOUS
  <2>3. PICK m : m = QueueMove(old, t, l, next)
    OBVIOUS
  <2>4. Moved(old, new, m)
    <3>1. t \in launches /\ t.window = NoWindow /\ t.paths # <<>> /\ l \in Labels
      BY <1>1, <1>4
    <3>2. windowQueue' = [windowQueue EXCEPT ![l] = <<Head(t.paths)>>] /\ launches' = (launches \ {t}) \cup {next}
      BY <1>1, <1>7
    <3>3. ListsInv /\ UNCHANGED <<globalQueue, openings, events, calls>>
      BY <1>2, <1>3
    <3>4. Moved(old, PathPlaces(f)', m)
      BY ONLY <1>7, <2>1, <2>3, <3>1, <3>2, <3>3, QueueMoves
    <3> QED BY <2>2, <3>4
  <2>5. /\ \A p, q \in old : p = q
        /\ home[f] # NoWindow => \A p \in old : p[1] \in {"queue", "call", "opened"} /\ p[2] = home[f]
    BY <1>3, <2>1 DEF Unique, OwnWindow
  <2>6. \A p, q \in new : p = q
    BY <2>4, <2>5 DEF Moved
  <2>7. CASE f # first
    <3>1. home'[f] = home[f]
      BY <1>1, <1>3, <1>5, <2>7 DEF HistoryInv
    <3>2. home[f] # NoWindow => \A p \in new : p[1] \in {"queue", "call", "opened"} /\ p[2] = home[f]
      BY <2>4, <2>5 DEF Moved, Own
    <3> QED BY <2>2, <2>6, <3>1, <3>2
  <2>8. CASE f = first
    <3>1. home'[f] = l
      BY <1>1, <1>3, <1>5, <2>8 DEF HistoryInv
    <3>2. PICK o : o = <<"thread", t, 0, 1>>
      OBVIOUS
    <3>3. 1 \in In(f, t.paths)
      BY <1>4, <1>5, <2>8 DEF In
    <3>4. o \in old
      BY <1>1, <2>1, <3>2, <3>3, PlacesKnown DEF PlacesAre, Placed, Launched
    <3>5. o[1] = "thread" /\ o[2] = t /\ o[4] = 1
      BY <3>2
    <3>6. m[o] = <<"queue", l, 0, 1>>
      BY <2>3, <3>4, <3>5 DEF QueueMove
    <3>7. \A p \in new : p = <<"queue", l, 0, 1>>
      BY <2>4, <2>5, <3>4, <3>6 DEF Moved
    <3> QED BY <2>2, <2>6, <3>1, <3>7
  <2> QED BY <2>7, <2>8
<1>13. Unique' /\ OwnWindow'
  BY <1>12 DEF Unique, OwnWindow
<1>14. NoQueueLeft' /\ GivesWayToLater'
  BY <1>1, <1>2, <1>3, <1>4 DEF FilesInv, NoQueueLeft, Open, GivesWayToLater, WindowsInv, ListsInv
<1> QED BY <1>10, <1>11, <1>13, <1>14 DEF FilesInv

(***************************************************************************)
(* Pages                                                                   *)
(***************************************************************************)
LEMMA DeadCall ==
  ASSUME NEW c, c = [CallWith(<<>>) EXCEPT !.dead = TRUE]
  PROVE  c \in CallType /\ CallIsFit(c) /\ Paths(c) = <<>>
<1>1. CallWith(<<>>) = [payload |-> <<>>, answer |-> <<>>, handled |-> FALSE, dead |-> FALSE]
  BY DEF CallWith
<1>2. c.payload = <<>> /\ c.answer = <<>> /\ c.handled = FALSE /\ c \in CallType
  <2>1. <<>> \in Seq(Files)
    OBVIOUS
  <2>2. CallWith(<<>>) \in CallType
    BY <2>1, FreshCall
  <2>3. \A q \in CallType : [q EXCEPT !.dead = TRUE] \in CallType
    BY DEF CallType
  <2>4. c \in CallType
    BY <2>2, <2>3
  <2>5. c.payload = <<>> /\ c.answer = <<>> /\ c.handled = FALSE
    BY <1>1
  <2> QED BY <2>4, <2>5
<1>3. <<>> \in Seq(dropped) /\ <<>> \in Seq(Started) /\ Len(<<>>) <= 1 /\ <<>> \o <<>> = <<>>
  OBVIOUS
<1> QED BY <1>2, <1>3 DEF CallIsFit, InOrder, Paths

LEMMA AbandonIs ==
  ASSUME ListsInv, HistoryInv, NEW l \in Labels, Abandon(l), UNCHANGED <<arrived, dropped>>
  PROVE  /\ CallsFit' /\ lost' \subseteq Files
         /\ events' \in [Labels -> Seq(Seq(dropped))]
         /\ \A k \in Labels : \A i \in DOMAIN events'[k] : Len(events'[k][i]) = 1
         /\ \A f, p : (Sent(f, p)' => Sent(f, p)) /\ (Called(f, p)' => Called(f, p))
<1>1. PICK n : n = Cardinality(Unhandled(l))
  OBVIOUS
<1>2. PICK d : d = [CallWith(<<>>) EXCEPT !.dead = TRUE]
  OBVIOUS
<1>3. /\ lost' = lost \cup (UNION {Range(Paths(calls[l][i])) : i \in DOMAIN calls[l]})
                      \cup (UNION {Range(events[l][i]) : i \in DOMAIN events[l]})
      /\ calls' = [calls EXCEPT ![l] = [i \in 1..n |-> d]]
      /\ events' = [events EXCEPT ![l] = <<>>]
  BY <1>1, <1>2 DEF Abandon
<1>4. /\ events \in [Labels -> Seq(Seq(dropped))] /\ calls \in [Labels -> Seq(CallType)]
      /\ \A k \in Labels : \A i \in DOMAIN events[k] : Len(events[k][i]) = 1
      /\ \A k \in Labels : \A i \in DOMAIN calls[k] : CallIsFit(calls[k][i])
  BY DEF ListsInv, CallsFit
<1>5. n \in Nat
  <2>1. IsFiniteSet(DOMAIN calls[l])
    <3>1. DOMAIN calls[l] = 1..Len(calls[l]) /\ Len(calls[l]) \in Nat
      BY <1>4
    <3>2. IsFiniteSet(1..Len(calls[l]))
      BY <3>1, FS_Interval
    <3> QED BY <3>1, <3>2
  <2>2. IsFiniteSet(Unhandled(l))
    BY <2>1, FS_Subset DEF Unhandled
  <2> QED BY <1>1, <2>2, FS_CardinalityType
<1>6. CallsFit'
  <2>1. PICK s : s = [i \in 1..n |-> d]
    OBVIOUS
  <2>2. s \in Seq(CallType) /\ \A i \in DOMAIN s : CallIsFit(s[i])
    BY <1>2, <1>5, <2>1, DeadCall
  <2>3. calls' = [calls EXCEPT ![l] = s]
    BY <1>3, <2>1
  <2> QED BY <2>2, <2>3, CallsChange
<1>7. lost' \subseteq Files
  <2>1. dropped \subseteq Files /\ lost \subseteq Files /\ Started \subseteq Files
    BY PendingOpenAssumption DEF HistoryInv, Files, Started
  <2>2. \A i \in DOMAIN calls[l] : Range(Paths(calls[l][i])) \subseteq Files
    <3> SUFFICES ASSUME NEW i \in DOMAIN calls[l] PROVE Range(Paths(calls[l][i])) \subseteq Files
      OBVIOUS
    <3>1. calls[l][i].payload \in Seq(Files) /\ calls[l][i].answer \in Seq(Files)
      <4>1. calls[l][i] \in CallType
        BY <1>4
      <4> QED BY <4>1 DEF CallType
    <3>2. Paths(calls[l][i]) \in Seq(Files)
      BY <3>1 DEF Paths
    <3> QED BY <3>2 DEF Range
  <2>3. \A i \in DOMAIN events[l] : Range(events[l][i]) \subseteq Files
    <3> SUFFICES ASSUME NEW i \in DOMAIN events[l] PROVE Range(events[l][i]) \subseteq Files
      OBVIOUS
    <3>1. events[l][i] \in Seq(dropped)
      BY <1>4
    <3> QED BY <2>1, <3>1 DEF Range
  <2>4. UNION {Range(Paths(calls[l][i])) : i \in DOMAIN calls[l]} \subseteq Files
    BY <2>2
  <2>5. UNION {Range(events[l][i]) : i \in DOMAIN events[l]} \subseteq Files
    BY <2>3
  <2> QED BY <1>3, <2>1, <2>4, <2>5, Zenon
<1>8. /\ events' \in [Labels -> Seq(Seq(dropped))]
      /\ \A k \in Labels : events'[k] = IF k = l THEN <<>> ELSE events[k]
  BY <1>3, <1>4
<1>9. \A k \in Labels : \A i \in DOMAIN events'[k] : Len(events'[k][i]) = 1
  BY <1>4, <1>8
<1>10. \A f, p : Sent(f, p)' => Sent(f, p)
  BY <1>8 DEF Sent
<1>11. ASSUME NEW f, NEW p, Called(f, p)' PROVE Called(f, p)
  <2>1. PICK k \in Labels : \E i \in DOMAIN calls'[k] : \E j \in In(f, Paths(calls'[k][i])) : p = <<"call", k, i, j>>
    BY <1>11 DEF Called
  <2>2. calls'[k] = IF k = l THEN [i \in 1..n |-> d] ELSE calls[k]
    BY <1>3, <1>4
  <2>3. In(f, Paths(d)) = {}
    BY <1>2, DeadCall DEF In
  <2> QED BY <2>1, <2>2, <2>3 DEF Called
<1> QED BY <1>6, <1>7, <1>8, <1>9, <1>10, <1>11

LEMMA DestroyWindowKeeps == ASSUME FilesInv, NEW l \in Labels, DestroyWindow(l) PROVE FilesInv'
<1>1. /\ l \in Open /\ view' = [view EXCEPT ![l] = "closed"]
      /\ IF l \in attached THEN windowQueue' = [windowQueue EXCEPT ![l] = <<>>] ELSE UNCHANGED windowQueue
      /\ Abandon(l)
      /\ UNCHANGED <<globalQueue, launches, attached, openings, superseded, home, dropped, arrived, reloads>>
  BY DEF DestroyWindow, Discard, origin
<1>2. ListsInv /\ HistoryInv /\ WindowsInv
  BY DEF FilesInv
<1>3. /\ CallsFit' /\ lost' \subseteq Files
      /\ events' \in [Labels -> Seq(Seq(dropped))]
      /\ \A k \in Labels : \A i \in DOMAIN events'[k] : Len(events'[k][i]) = 1
      /\ \A f, p : (Sent(f, p)' => Sent(f, p)) /\ (Called(f, p)' => Called(f, p))
  BY <1>1, <1>2, AbandonIs
<1>4. windowQueue' = windowQueue \/ windowQueue' = [windowQueue EXCEPT ![l] = <<>>]
  BY <1>1
<1>5. \A t \in launches' : ThreadIsFit(t)'
  <2>1. \A k \in Others : view[k] # "unborn" => view'[k] # "unborn"
    BY <1>1, <1>2 DEF WindowsInv, Labels
  <2> QED BY <1>1, <1>2, <2>1, ThreadsStay
<1>6. ListsInv'
  <2>1. windowQueue' \in [Labels -> Seq(Started)] /\ \A k \in Labels : Len(windowQueue'[k]) <= 1
    BY <1>2, <1>4, QueuesStay
  <2> QED BY <1>1, <1>2, <1>3, <1>5, <2>1 DEF ListsInv, Started
<1>7. HistoryInv' /\ WindowsInv'
  <2>1. HistoryInv'
    BY <1>1, <1>2, <1>3 DEF HistoryInv
  <2> QED BY <1>1, <1>2, <2>1 DEF WindowsInv, WindowStates
<1>8. ASSUME NEW f \in Files PROVE PathPlaces(f)' \subseteq PathPlaces(f)
  <2>1. \A p : Launched(f, p)' => Launched(f, p)
    BY <1>1 DEF Launched
  <2>2. windowQueue \in [Labels -> Seq(Started)]
    BY <1>2 DEF ListsInv
  <2> QED BY <1>1, <1>3, <1>4, <2>1, <2>2, PlacesStay
<1>9. Unique' /\ OwnWindow'
  BY <1>1, <1>8, MovesKeep DEF FilesInv
<1>10. NoQueueLeft'
  <2>1. windowQueue \in [Labels -> Seq(Started)] /\ view \in [Labels -> WindowStates]
    BY <1>2 DEF ListsInv, WindowsInv
  <2>2. CASE l \in attached
    BY <1>1, <2>1, <2>2 DEF FilesInv, NoQueueLeft, Open
  <2>3. CASE l \notin attached
    BY <1>1, <2>1, <2>3 DEF FilesInv, NoQueueLeft, Open
  <2> QED BY <2>2, <2>3
<1>11. GivesWayToLater'
  BY <1>1 DEF FilesInv, GivesWayToLater
<1> QED BY <1>6, <1>7, <1>9, <1>10, <1>11 DEF FilesInv

LEMMA ReloadPageKeeps == ASSUME FilesInv, NEW l \in Labels, ReloadPage(l) PROVE FilesInv'
<1>1. /\ l \in Open /\ view' = [view EXCEPT ![l] = "loading"] /\ Abandon(l)
      /\ reloads < MaxReloads /\ reloads' = reloads + 1
      /\ UNCHANGED <<globalQueue, windowQueue, launches, attached, openings, superseded, home, dropped, arrived>>
  BY DEF ReloadPage, queues, origin
<1>2. ListsInv /\ HistoryInv /\ WindowsInv
  BY DEF FilesInv
<1>3. /\ CallsFit' /\ lost' \subseteq Files
      /\ events' \in [Labels -> Seq(Seq(dropped))]
      /\ \A k \in Labels : \A i \in DOMAIN events'[k] : Len(events'[k][i]) = 1
      /\ \A f, p : (Sent(f, p)' => Sent(f, p)) /\ (Called(f, p)' => Called(f, p))
  BY <1>1, <1>2, AbandonIs
<1>4. \A t \in launches' : ThreadIsFit(t)'
  <2>1. \A k \in Others : view[k] # "unborn" => view'[k] # "unborn"
    BY <1>1, <1>2 DEF WindowsInv, Labels
  <2> QED BY <1>1, <1>2, <2>1, ThreadsStay
<1>5. ListsInv'
  BY <1>1, <1>2, <1>3, <1>4 DEF ListsInv, Started
<1>6. HistoryInv' /\ WindowsInv'
  <2>1. reloads' \in 0..MaxReloads
    BY <1>1, <1>2, PendingOpenAssumption DEF HistoryInv
  <2>2. HistoryInv'
    BY <1>1, <1>2, <1>3, <2>1 DEF HistoryInv
  <2> QED BY <1>1, <1>2, <2>2 DEF WindowsInv, WindowStates
<1>7. ASSUME NEW f \in Files PROVE PathPlaces(f)' \subseteq PathPlaces(f)
  <2>1. \A p : Launched(f, p)' => Launched(f, p)
    BY <1>1 DEF Launched
  <2>2. windowQueue \in [Labels -> Seq(Started)]
    BY <1>2 DEF ListsInv
  <2> QED BY <1>1, <1>3, <2>1, <2>2, PlacesStay
<1>8. Unique' /\ OwnWindow'
  BY <1>1, <1>7, MovesKeep DEF FilesInv
<1>9. NoQueueLeft' /\ GivesWayToLater'
  BY <1>1, <1>2 DEF FilesInv, NoQueueLeft, Open, GivesWayToLater, WindowsInv
<1> QED BY <1>5, <1>6, <1>8, <1>9 DEF FilesInv

LEMMA DropFileKeeps == ASSUME FilesInv, NEW l \in Labels, DropFile(l) PROVE FilesInv'
<1>1. PICK new : new = arrived + 1
  OBVIOUS
<1>2. /\ l \in attached \cap Open /\ arrived < MaxFiles /\ arrived' = new /\ dropped' = dropped \cup {new}
      /\ \/ events' = [events EXCEPT ![l] = Append(@, NewFiles(1))] /\ UNCHANGED lost
         \/ lost' = lost \cup {new} /\ UNCHANGED events
      /\ UNCHANGED <<globalQueue, windowQueue, launches, view, attached, calls, openings, superseded, home, reloads>>
  BY <1>1 DEF DropFile, queues
<1>3. ListsInv /\ HistoryInv /\ WindowsInv
  BY DEF FilesInv
<1>4. arrived \in Nat /\ dropped \subseteq 1..arrived /\ new \in Files /\ new \in Nat /\ new > arrived
      /\ arrived' \in Nat /\ arrived <= arrived' /\ new \notin 1..arrived
  BY <1>1, <1>2, <1>3, PendingOpenAssumption DEF HistoryInv, Files
<1>5. /\ Seq(Started) \subseteq Seq(Started') /\ Seq(dropped) \subseteq Seq(dropped')
      /\ Seq(1..arrived) \subseteq Seq(1..arrived') /\ Seq(Seq(dropped)) \subseteq Seq(Seq(dropped'))
      /\ \A c : CallIsFit(c) => CallIsFit(c)'
  <2>1. dropped \subseteq dropped' /\ dropped' \subseteq dropped \cup ((arrived + 1)..arrived')
    BY <1>1, <1>2, <1>4
  <2> QED BY <1>3, <1>4, <2>1, StartedGrows
<1>6. NewFiles(1) = <<new>>
  BY <1>1, <1>4 DEF NewFiles
<1>7. events \in [Labels -> Seq(Seq(dropped))] /\ \A k \in Labels : \A i \in DOMAIN events[k] : Len(events[k][i]) = 1
  BY <1>3 DEF ListsInv
<1>8. \A k \in Labels : /\ events[k] \in Seq(Seq(dropped'))
                        /\ events'[k] = events[k] \/ (k = l /\ events'[k] = Append(events[k], <<new>>))
  BY <1>2, <1>5, <1>6, <1>7
<1>9. <<new>> \in Seq(dropped') /\ Len(<<new>>) = 1
  BY <1>2
<1>10. \A k \in Labels : events'[k] \in Seq(Seq(dropped')) /\ \A i \in DOMAIN events'[k] : Len(events'[k][i]) = 1
  <2> SUFFICES ASSUME NEW k \in Labels
               PROVE  events'[k] \in Seq(Seq(dropped')) /\ \A i \in DOMAIN events'[k] : Len(events'[k][i]) = 1
    OBVIOUS
  <2>1. CASE events'[k] = events[k]
    BY <1>7, <1>8, <2>1
  <2>2. CASE events'[k] = Append(events[k], <<new>>)
    BY <1>7, <1>8, <1>9, <2>2
  <2> QED BY <1>8, <2>1, <2>2
<1>11. ListsInv'
  <2>1. CallsFit'
    BY <1>2, <1>3, <1>5 DEF ListsInv, CallsFit
  <2>2. \A t \in launches' : ThreadIsFit(t)'
    BY <1>2, <1>3, <1>5 DEF ListsInv, ThreadIsFit
  <2>3. events' \in [Labels -> Seq(Seq(dropped'))]
    BY <1>2, <1>7, <1>10
  <2> QED BY <1>2, <1>3, <1>5, <1>10, <2>1, <2>2, <2>3 DEF ListsInv
<1>12. HistoryInv' /\ WindowsInv'
  <2>1. \A f \in Files : home[f] # NoWindow => f <= arrived'
    BY <1>3, <1>4 DEF HistoryInv, Files
  <2>2. arrived' \in 0..MaxFiles /\ dropped' \subseteq 1..arrived' /\ 1..arrived \subseteq 1..arrived'
    BY <1>1, <1>2, <1>4, PendingOpenAssumption
  <2>3. superseded' \subseteq (1..arrived') \X (1..arrived') /\ lost' \subseteq Files
    BY <1>2, <1>3, <1>4, <2>2 DEF HistoryInv
  <2> QED BY <1>2, <1>3, <2>1, <2>2, <2>3 DEF HistoryInv, WindowsInv
<1>13. ASSUME NEW f \in Files, NEW p, Sent(f, p)', ~Sent(f, p)
       PROVE  f = new /\ p = <<"event", l, Len(events[l]) + 1, 1>>
  <2>1. PICK k \in Labels : \E i \in DOMAIN events'[k] : \E j \in In(f, events'[k][i]) : p = <<"event", k, i, j>>
    BY <1>13 DEF Sent
  <2>2. PICK i \in DOMAIN events'[k] : \E j \in In(f, events'[k][i]) : p = <<"event", k, i, j>>
    BY <2>1
  <2>3. PICK j \in In(f, events'[k][i]) : p = <<"event", k, i, j>>
    BY <2>2
  <2>4. ~(i \in DOMAIN events[k] /\ events'[k][i] = events[k][i])
    BY <1>13, <2>3 DEF Sent
  <2>5. k = l /\ i = Len(events[l]) + 1 /\ events'[k][i] = <<new>>
    <3>1. events'[k] # events[k]
      BY <2>2, <2>4
    <3>2. k = l /\ events'[k] = Append(events[l], <<new>>) /\ events[l] \in Seq(Seq(dropped'))
      BY <1>8, <3>1
    <3>3. \/ i \in DOMAIN events[l] /\ events'[k][i] = events[l][i]
          \/ i = Len(events[l]) + 1 /\ events'[k][i] = <<new>>
      BY <1>9, <2>2, <3>2
    <3> QED BY <2>4, <3>2, <3>3
  <2> QED BY <2>3, <2>5 DEF In
<1>14. ASSUME NEW f \in Files
       PROVE  \/ PathPlaces(f)' \subseteq PathPlaces(f)
              \/ home[f] = NoWindow /\ \A p, q \in PathPlaces(f)' : p = q
  <2>1. CASE f # new
    <3>1. \A p : Sent(f, p)' => Sent(f, p)
      BY <1>13, <2>1
    <3>2. \A p : (Called(f, p)' => Called(f, p)) /\ (Launched(f, p)' => Launched(f, p))
      BY <1>2 DEF Called, Launched
    <3>3. windowQueue \in [Labels -> Seq(Started)]
      BY <1>3 DEF ListsInv
    <3> QED BY <1>2, <3>1, <3>2, <3>3, PlacesStay
  <2>2. CASE f = new
    <3>1. PathPlaces(f) = {} /\ home[f] = NoWindow
      BY <1>3, <1>4, <2>2, FreshIsNowhere
    <3>2. ASSUME NEW p, p \in PathPlaces(f)' PROVE p = <<"event", l, Len(events[l]) + 1, 1>>
      <4>1. Placed(f, p)' /\ ~Placed(f, p)
        BY <3>1, <3>2, PlacesKnown, PlacesNext DEF PlacesAre
      <4>2. Sent(f, p)' /\ ~Sent(f, p)
        BY <1>2, <4>1 DEF Placed, Waits, Queued, WasOpened, Called, Launched
      <4> QED BY <1>13, <4>2
    <3> QED BY <3>1, <3>2
  <2> QED BY <2>1, <2>2
<1>15. Unique' /\ OwnWindow'
  BY <1>2, <1>14, MovesKeep DEF FilesInv
<1>16. NoQueueLeft'
  BY <1>2 DEF FilesInv, NoQueueLeft, Open
<1>17. GivesWayToLater'
  <2>1. \A r \in superseded : r[2] \in 1..arrived /\ r[1] \in 1..arrived
    BY <1>3 DEF HistoryInv
  <2>2. \A r \in superseded : r[2] # new
    BY <1>4, <2>1
  <2> QED BY <1>2, <2>2 DEF FilesInv, GivesWayToLater
<1> QED BY <1>11, <1>12, <1>15, <1>16, <1>17 DEF FilesInv

ReceiveMove(old, l, n) ==
  [o \in old |-> IF o[1] = "event" /\ o[2] = l
                 THEN IF o[3] = 1 THEN <<"call", l, n + 1, o[4]>> ELSE <<"event", l, o[3] - 1, o[4]>>
                 ELSE o]
\* The first event of a page becomes a call of its own.
LEMMA ReceiveMoves ==
  ASSUME ListsInv, NEW l \in Labels, events[l] # <<>>, events' = [events EXCEPT ![l] = Tail(@)],
         NEW c, Paths(c) = Head(events[l]), NEW s, s = Append(calls[l], c), c \in CallType,
         calls' = [calls EXCEPT ![l] = s],
         UNCHANGED <<globalQueue, windowQueue, openings, launches>>, NEW f,
         NEW old, old = PathPlaces(f), NEW m, m = ReceiveMove(old, l, Len(calls[l]))
  PROVE  Moved(old, PathPlaces(f)', m)
<1> USE DEF ReceiveMove
<1>1. /\ events \in [Labels -> Seq(Seq(dropped))] /\ events[l] \in Seq(Seq(dropped))
      /\ calls \in [Labels -> Seq(CallType)] /\ calls[l] \in Seq(CallType)
  BY DEF ListsInv, CallsFit
<1>2. ASSUME NEW p \in PathPlaces(f)'
      PROVE  \E o \in old : p = m[o] /\ (o[1] \in Own => p[1] \in Own /\ p[2] = o[2])
  <2>1. Placed(f, p)'
    BY PlacesNext DEF PlacesAre
  <2>2. ASSUME Placed(f, p), ~(p[1] = "event" /\ p[2] = l)
        PROVE  \E o \in old : p = m[o] /\ (o[1] \in Own => p[1] \in Own /\ p[2] = o[2])
    <3>1. p \in old
      BY <2>2, PlacesKnown DEF PlacesAre
    <3> QED BY <2>2, <3>1
  <2>3. ASSUME NEW i \in DOMAIN events[l], NEW j \in In(f, events[l][i]), NEW o, o = <<"event", l, i, j>>
        PROVE  /\ o \in old /\ o[1] \notin Own
               /\ m[o] = IF i = 1 THEN <<"call", l, Len(calls[l]) + 1, j>> ELSE <<"event", l, i - 1, j>>
    <3>1. o \in old
      BY <2>3, PlacesKnown DEF PlacesAre, Placed, Sent
    <3>2. o[1] = "event" /\ o[2] = l /\ o[3] = i /\ o[4] = j
      BY <2>3
    <3>3. m[o] = IF o[3] = 1 THEN <<"call", l, Len(calls[l]) + 1, o[4]>> ELSE <<"event", l, o[3] - 1, o[4]>>
      BY <3>1, <3>2
    <3>4. i \in Nat
      BY <1>1
    <3> QED BY <3>1, <3>2, <3>3, <3>4 DEF Own
  <2>4. CASE Sent(f, p)'
    <3>1. PICK k \in Labels : \E i \in DOMAIN events'[k] : \E j \in In(f, events'[k][i]) : p = <<"event", k, i, j>>
      BY <2>4 DEF Sent
    <3>2. PICK i \in DOMAIN events'[k] : \E j \in In(f, events'[k][i]) : p = <<"event", k, i, j>>
      BY <3>1
    <3>3. PICK j \in In(f, events'[k][i]) : p = <<"event", k, i, j>>
      BY <3>2
    <3>4. CASE k = l
      <4>1. events'[l] = Tail(events[l])
        BY <1>1
      <4>2. i \in 1..(Len(events[l]) - 1) /\ events'[l][i] = events[l][i + 1] /\ Len(events[l]) \in Nat
        BY <1>1, <3>2, <3>4, <4>1
      <4>3. i + 1 \in DOMAIN events[l] /\ i + 1 # 1 /\ j \in In(f, events[l][i + 1])
        BY <1>1, <3>3, <3>4, <4>2
      <4>4. PICK h : h = i + 1
        OBVIOUS
      <4>5. PICK o : o = <<"event", l, h, j>>
        OBVIOUS
      <4>6. h \in DOMAIN events[l] /\ h # 1 /\ j \in In(f, events[l][h]) /\ h - 1 = i
        BY <4>2, <4>3, <4>4
      <4>7. o \in old /\ o[1] \notin Own /\ m[o] = <<"event", l, h - 1, j>>
        BY <2>3, <4>5, <4>6
      <4> QED BY <3>3, <3>4, <4>6, <4>7
    <3>5. CASE k # l
      <4>1. Sent(f, p) /\ p[2] # l
        BY <1>1, <3>2, <3>3, <3>5 DEF Sent
      <4> QED BY <2>2, <4>1 DEF Placed
    <3> QED BY <3>4, <3>5
  <2>5. CASE Called(f, p)'
    <3>1. PICK k \in Labels : \E i \in DOMAIN calls'[k] : \E j \in In(f, Paths(calls'[k][i])) : p = <<"call", k, i, j>>
      BY <2>5 DEF Called
    <3>2. PICK i \in DOMAIN calls'[k] : \E j \in In(f, Paths(calls'[k][i])) : p = <<"call", k, i, j>>
      BY <3>1
    <3>3. PICK j \in In(f, Paths(calls'[k][i])) : p = <<"call", k, i, j>>
      BY <3>2
    <3>4. \/ i \in DOMAIN calls[k] /\ calls'[k][i] = calls[k][i]
          \/ k = l /\ i = Len(calls[l]) + 1 /\ calls'[k][i] = c
      <4>1. calls'[k] = IF k = l THEN s ELSE calls[k]
        BY <1>1
      <4>2. \A n \in DOMAIN s : (n \in DOMAIN calls[l] /\ s[n] = calls[l][n]) \/ (n = Len(calls[l]) + 1 /\ s[n] = c)
        BY <1>1
      <4> QED BY <3>2, <4>1, <4>2
    <3>5. CASE i \in DOMAIN calls[k] /\ calls'[k][i] = calls[k][i]
      <4>1. Called(f, p) /\ p[1] # "event"
        BY <3>3, <3>5 DEF Called
      <4> QED BY <2>2, <4>1 DEF Placed
    <3>6. CASE k = l /\ i = Len(calls[l]) + 1 /\ calls'[k][i] = c
      <4>1. 1 \in DOMAIN events[l] /\ Head(events[l]) = events[l][1] /\ j \in In(f, events[l][1])
        BY <1>1, <3>3, <3>6
      <4>2. PICK o : o = <<"event", l, 1, j>>
        OBVIOUS
      <4>3. o \in old /\ o[1] \notin Own /\ m[o] = <<"call", l, Len(calls[l]) + 1, j>>
        BY <2>3, <4>1, <4>2
      <4> QED BY <3>3, <3>6, <4>3
    <3> QED BY <3>4, <3>5, <3>6
  <2>6. CASE Waits(f, p)' \/ Queued(f, p)' \/ WasOpened(f, p)' \/ Launched(f, p)'
    <3>1. Waits(f, p) \/ Queued(f, p) \/ WasOpened(f, p) \/ Launched(f, p)
      BY <2>6 DEF Waits, Queued, WasOpened, Launched
    <3>2. p[1] # "event"
      BY <3>1 DEF Waits, Queued, WasOpened, Launched
    <3> QED BY <2>2, <3>1, <3>2 DEF Placed
  <2> QED BY <2>1, <2>4, <2>5, <2>6 DEF Placed
<1> QED BY <1>2 DEF Moved

LEMMA ReceiveEventKeeps == ASSUME FilesInv, NEW l \in Labels, ReceiveEvent(l) PROVE FilesInv'
<1>1. PICK c : c = CallWith(Head(events[l]))
  OBVIOUS
<1>2. PICK s : s = Append(calls[l], c)
  OBVIOUS
<1>3. /\ events[l] # <<>> /\ events' = [events EXCEPT ![l] = Tail(@)]
      /\ calls' = [calls EXCEPT ![l] = s]
      /\ UNCHANGED <<globalQueue, windowQueue, launches, view, attached, openings, superseded, lost,
                     home, dropped, arrived, reloads>>
  BY <1>1, <1>2 DEF ReceiveEvent, queues, origin
<1>4. ListsInv /\ HistoryInv /\ WindowsInv
  BY DEF FilesInv
<1>5. /\ events \in [Labels -> Seq(Seq(dropped))] /\ events[l] \in Seq(Seq(dropped))
      /\ \A k \in Labels : \A i \in DOMAIN events[k] : Len(events[k][i]) = 1
      /\ calls[l] \in Seq(CallType) /\ \A i \in DOMAIN calls[l] : CallIsFit(calls[l][i])
  BY <1>4 DEF ListsInv, CallsFit
<1>6. Head(events[l]) \in Seq(dropped) /\ Len(Head(events[l])) = 1
  BY <1>3, <1>5
<1>7. c \in CallType /\ CallIsFit(c) /\ Paths(c) = Head(events[l])
  <2>1. dropped \subseteq Files
    BY <1>4, PendingOpenAssumption DEF HistoryInv, Files
  <2>2. Head(events[l]) \in Seq(Files)
    BY <1>6, <2>1, SeqGrows
  <2>3. <<>> \in Seq(Started) /\ InOrder(<<>>)
    BY DEF InOrder
  <2>4. PICK given : given = Head(events[l])
    OBVIOUS
  <2>5. given \in Seq(Files) /\ given \in Seq(dropped) /\ Len(given) <= 1
    <3>1. Len(given) = 1
      BY <1>6, <2>4
    <3>2. Len(given) <= 1
      BY <3>1
    <3>3. given \in Seq(Files)
      BY ONLY <2>2, <2>4
    <3>4. given \in Seq(dropped)
      BY ONLY <1>6, <2>4
    <3> QED BY ONLY <3>2, <3>3, <3>4
  <2>6. /\ c \in CallType /\ Paths(c) = given /\ c.payload = given /\ c.answer = <<>>
        /\ ~c.handled /\ ~c.dead
    BY <1>1, <2>4, <2>5, FreshCall
  <2>7. CallIsFit(c)
    BY <2>3, <2>5, <2>6 DEF CallIsFit
  <2> QED BY <2>4, <2>6, <2>7
<1>8. s \in Seq(CallType) /\ \A i \in DOMAIN s : CallIsFit(s[i])
  BY <1>2, <1>5, <1>7
<1>9. \A k \in Labels : events'[k] = IF k = l THEN Tail(events[l]) ELSE events[k]
  BY <1>3, <1>5
<1>10. Tail(events[l]) \in Seq(Seq(dropped)) /\ \A i \in DOMAIN Tail(events[l]) : Len(Tail(events[l])[i]) = 1
  BY <1>3, <1>5
<1>11. ListsInv'
  <2>1. CallsFit'
    BY <1>3, <1>4, <1>8, CallsChange
  <2>2. \A t \in launches' : ThreadIsFit(t)'
    BY <1>3, <1>4 DEF ListsInv, ThreadIsFit, Started
  <2>3. events' \in [Labels -> Seq(Seq(dropped))]
    BY <1>3, <1>5, <1>10
  <2>4. \A k \in Labels : \A i \in DOMAIN events'[k] : Len(events'[k][i]) = 1
    BY <1>5, <1>9, <1>10
  <2> QED BY <1>3, <1>4, <2>1, <2>2, <2>3, <2>4 DEF ListsInv, Started
<1>12. HistoryInv' /\ WindowsInv'
  BY <1>3, <1>4 DEF HistoryInv, WindowsInv
<1>13. ASSUME NEW f \in Files PROVE \E m : Moved(PathPlaces(f), PathPlaces(f)', m)
  <2>1. PICK old : old = PathPlaces(f)
    OBVIOUS
  <2>2. PICK m : m = ReceiveMove(old, l, Len(calls[l]))
    OBVIOUS
  <2>3. events[l] # <<>> /\ events' = [events EXCEPT ![l] = Tail(@)] /\ calls' = [calls EXCEPT ![l] = s]
    BY <1>3
  <2>4. ListsInv /\ UNCHANGED <<globalQueue, windowQueue, openings, launches>>
    BY <1>3, <1>4
  <2>5. Paths(c) = Head(events[l]) /\ c \in CallType
    BY <1>7
  <2>6. Moved(old, PathPlaces(f)', m)
    BY ONLY l \in Labels, <1>2, <2>1, <2>2, <2>3, <2>4, <2>5, ReceiveMoves
  <2> QED BY <2>1, <2>6
<1>14. Unique' /\ OwnWindow'
  BY <1>3, <1>13, MovesKeep DEF FilesInv
<1>15. NoQueueLeft' /\ GivesWayToLater'
  BY <1>3 DEF FilesInv, NoQueueLeft, Open, GivesWayToLater
<1> QED BY <1>11, <1>12, <1>14, <1>15 DEF FilesInv

OpenMove(old, l, n) ==
  [o \in old |-> IF o[1] = "call" /\ o[2] = l
                 THEN IF o[3] = 1 THEN <<"opened", l, 0, n + 1>> ELSE <<"call", l, o[3] - 1, o[4]>>
                 ELSE o]
\* The first call of a page ends, and at most one of its files is opened.
LEMMA OpenMoves ==
  ASSUME ListsInv, NEW l \in Labels, calls[l] # <<>>, calls' = [calls EXCEPT ![l] = Tail(@)],
         NEW taken, taken = Paths(Head(calls[l])), NEW v,
         \/ openings' = openings
         \/ /\ openings' = [openings EXCEPT ![l] = Append(@, v)]
            /\ \E j \in DOMAIN taken : taken[j] = v,
         windowQueue' = windowQueue \/ windowQueue' = [windowQueue EXCEPT ![l] = <<>>],
         globalQueue' \in {globalQueue, <<>>}, UNCHANGED <<events, launches>>, NEW f,
         NEW old, old = PathPlaces(f), NEW m, m = OpenMove(old, l, Len(openings[l]))
  PROVE  Moved(old, PathPlaces(f)', m)
<1> USE DEF OpenMove
<1>1. /\ calls \in [Labels -> Seq(CallType)] /\ calls[l] \in Seq(CallType)
      /\ openings \in [Labels -> Seq(1..arrived)] /\ openings[l] \in Seq(1..arrived)
      /\ windowQueue \in [Labels -> Seq(Started)]
  BY DEF ListsInv, CallsFit
<1>2. ASSUME NEW p \in PathPlaces(f)'
      PROVE  \E o \in old : p = m[o] /\ (o[1] \in Own => p[1] \in Own /\ p[2] = o[2])
  <2>1. Placed(f, p)'
    BY PlacesNext DEF PlacesAre
  <2>2. ASSUME Placed(f, p), ~(p[1] = "call" /\ p[2] = l)
        PROVE  \E o \in old : p = m[o] /\ (o[1] \in Own => p[1] \in Own /\ p[2] = o[2])
    <3>1. p \in old
      BY <2>2, PlacesKnown DEF PlacesAre
    <3> QED BY <2>2, <3>1
  <2>3. ASSUME NEW i \in DOMAIN calls[l], NEW j \in In(f, Paths(calls[l][i])), NEW o, o = <<"call", l, i, j>>
        PROVE  /\ o \in old /\ o[2] = l
               /\ m[o] = IF i = 1 THEN <<"opened", l, 0, Len(openings[l]) + 1>> ELSE <<"call", l, i - 1, j>>
    <3>1. o \in old
      BY <2>3, PlacesKnown DEF PlacesAre, Placed, Called
    <3>2. o[1] = "call" /\ o[2] = l /\ o[3] = i /\ o[4] = j
      BY <2>3
    <3>3. m[o] = IF o[3] = 1 THEN <<"opened", l, 0, Len(openings[l]) + 1>> ELSE <<"call", l, o[3] - 1, o[4]>>
      BY <3>1, <3>2
    <3>4. i \in Nat
      BY <1>1
    <3> QED BY <3>1, <3>2, <3>3, <3>4
  <2>4. CASE Called(f, p)'
    <3>1. PICK k \in Labels : \E i \in DOMAIN calls'[k] : \E j \in In(f, Paths(calls'[k][i])) : p = <<"call", k, i, j>>
      BY <2>4 DEF Called
    <3>2. PICK i \in DOMAIN calls'[k] : \E j \in In(f, Paths(calls'[k][i])) : p = <<"call", k, i, j>>
      BY <3>1
    <3>3. PICK j \in In(f, Paths(calls'[k][i])) : p = <<"call", k, i, j>>
      BY <3>2
    <3>4. CASE k = l
      <4>1. calls'[l] = Tail(calls[l])
        BY <1>1
      <4>2. i \in 1..(Len(calls[l]) - 1) /\ calls'[l][i] = calls[l][i + 1] /\ Len(calls[l]) \in Nat
        BY <1>1, <3>2, <3>4, <4>1
      <4>3. PICK h : h = i + 1
        OBVIOUS
      <4>10. DOMAIN calls[l] = 1..Len(calls[l])
        BY <1>1
      <4>4. h \in DOMAIN calls[l] /\ h # 1 /\ h - 1 = i
        BY <4>2, <4>3, <4>10
      <4>5. j \in In(f, Paths(calls[l][h]))
        BY <3>3, <3>4, <4>2, <4>3
      <4>6. PICK o : o = <<"call", l, h, j>>
        OBVIOUS
      <4>7. o \in old /\ o[2] = l /\ m[o] = <<"call", l, h - 1, j>>
        BY <2>3, <4>4, <4>5, <4>6
      <4> QED BY <3>3, <3>4, <4>4, <4>7 DEF Own
    <3>5. CASE k # l
      <4>1. Called(f, p) /\ p[2] # l
        BY <1>1, <3>2, <3>3, <3>5 DEF Called
      <4> QED BY <2>2, <4>1 DEF Placed
    <3> QED BY <3>4, <3>5
  <2>5. CASE WasOpened(f, p)'
    <3>1. PICK k \in Labels : \E j \in In(f, openings'[k]) : p = <<"opened", k, 0, j>>
      BY <2>5 DEF WasOpened
    <3>2. PICK j \in In(f, openings'[k]) : p = <<"opened", k, 0, j>>
      BY <3>1
    <3>3. CASE WasOpened(f, p)
      <4>1. p[1] = "opened"
        BY <3>2
      <4> QED BY <2>2, <3>3, <4>1 DEF Placed
    <3>4. CASE ~WasOpened(f, p)
      <4>1. openings' # openings
        BY <3>2, <3>4 DEF WasOpened
      <4>2. openings' = [openings EXCEPT ![l] = Append(@, v)] /\ \E h \in DOMAIN taken : taken[h] = v
        BY <4>1
      <4>3. j \notin In(f, openings[k])
        BY <3>2, <3>4 DEF WasOpened
      <4>4. k = l /\ j = Len(openings[l]) + 1 /\ f = v
        BY <1>1, <3>2, <4>2, <4>3 DEF In
      <4>5. 1 \in DOMAIN calls[l] /\ Head(calls[l]) = calls[l][1]
        BY <1>1
      <4>6. PICK h \in DOMAIN taken : taken[h] = f
        BY <4>2, <4>4
      <4>7. h \in In(f, Paths(calls[l][1]))
        BY <4>5, <4>6 DEF In
      <4>8. PICK o : o = <<"call", l, 1, h>>
        OBVIOUS
      <4>9. o \in old /\ o[2] = l /\ m[o] = <<"opened", l, 0, Len(openings[l]) + 1>>
        BY <2>3, <4>5, <4>7, <4>8
      <4> QED BY <3>2, <4>4, <4>9 DEF Own
    <3> QED BY <3>3, <3>4
  <2>6. CASE Waits(f, p)' \/ Queued(f, p)' \/ Sent(f, p)' \/ Launched(f, p)'
    <3>1. Waits(f, p)' => Waits(f, p)
      BY DEF Waits, In
    <3>2. ASSUME Queued(f, p)' PROVE Queued(f, p)
      <4>1. PICK k \in Labels : \E j \in In(f, windowQueue'[k]) : p = <<"queue", k, 0, j>>
        BY <3>2 DEF Queued
      <4>2. PICK j \in In(f, windowQueue'[k]) : p = <<"queue", k, 0, j>>
        BY <4>1
      <4>3. windowQueue'[k] = windowQueue[k] \/ windowQueue'[k] = <<>>
        BY <1>1
      <4>4. j \in In(f, windowQueue[k])
        BY <4>2, <4>3 DEF In
      <4> QED BY <4>2, <4>4 DEF Queued
    <3>3. Waits(f, p) \/ Queued(f, p) \/ Sent(f, p) \/ Launched(f, p)
      BY <2>6, <3>1, <3>2 DEF Sent, Launched
    <3>4. p[1] # "call"
      BY <3>3 DEF Waits, Queued, Sent, Launched
    <3> QED BY <2>2, <3>3, <3>4 DEF Placed
  <2> QED BY <2>1, <2>4, <2>5, <2>6 DEF Placed
<1> QED BY <1>2 DEF Moved

LEMMA ConcatIs ==
  ASSUME NEW A, NEW s \in Seq(A), NEW t \in Seq(A)
  PROVE  \A i \in 1..Len(s) : (s \o t)[i] = s[i]
OBVIOUS
LEMMA ConcatRight ==
  ASSUME NEW A, NEW s \in Seq(A), NEW t \in Seq(A), NEW u, u = s \o t,
         NEW a, a = Len(s), NEW b, b = Len(t), NEW i \in 1..b
  PROVE  u[a + i] = t[i]
OBVIOUS

\* What is open of one call gives way to the last of it.
LEMMA LatestIs ==
  ASSUME HistoryInv, NEW c, CallIsFit(c), NEW taken, taken = Paths(c), taken # <<>>, NEW v, v = Latest(taken)
  PROVE  /\ Len(taken) \in DOMAIN taken /\ taken[Len(taken)] = v /\ v \in 1..arrived
         /\ \A f \in Range(taken) \ {v} :
              f \in 1..arrived /\ (v > f \/ (f \in dropped /\ v \notin dropped))
<1>1. /\ c.payload \in Seq(dropped) /\ Len(c.payload) <= 1 /\ c.answer \in Seq(Started) /\ InOrder(c.answer)
      /\ taken = c.payload \o c.answer /\ dropped \subseteq 1..arrived /\ Started \subseteq 1..arrived
  BY DEF CallIsFit, Paths, HistoryInv, Started
<1>2. /\ c.payload \in Seq(1..arrived) /\ c.answer \in Seq(1..arrived) /\ arrived \in Nat
      /\ taken \in Seq(1..arrived)
  <2>1. arrived \in Nat
    BY PendingOpenAssumption DEF HistoryInv
  <2>2. c.payload \in Seq(1..arrived) /\ c.answer \in Seq(1..arrived)
    BY <1>1, SeqGrows
  <2> QED BY <1>1, <2>1, <2>2
<1>3. PICK a : a = Len(c.payload)
  OBVIOUS
<1>4. PICK b : b = Len(c.answer)
  OBVIOUS
<1>5. /\ a \in 0..1 /\ b \in Nat /\ Len(taken) = a + b /\ DOMAIN taken = 1..(a + b)
      /\ DOMAIN c.payload = 1..a /\ DOMAIN c.answer = 1..b
  <2>1. a \in Nat /\ b \in Nat /\ a <= 1 /\ DOMAIN c.payload = 1..a /\ DOMAIN c.answer = 1..b
    BY <1>1, <1>2, <1>3, <1>4
  <2>2. Len(taken) = a + b /\ DOMAIN taken = 1..Len(taken)
    BY <1>1, <1>2, <1>3, <1>4
  <2> QED BY <2>1, <2>2
<1>6. \A i \in 1..a : taken[i] = c.payload[i]
  <2>1. \A i \in 1..Len(c.payload) : (c.payload \o c.answer)[i] = c.payload[i]
    BY <1>2, ConcatIs
  <2> QED BY <1>1, <1>3, <2>1
<1>7. \A i \in 1..b : taken[a + i] = c.answer[i]
  <2> SUFFICES ASSUME NEW i \in 1..b PROVE taken[a + i] = c.answer[i]
    OBVIOUS
  <2>1. PICK A : A = 1..arrived
    OBVIOUS
  <2>2. c.payload \in Seq(A) /\ c.answer \in Seq(A) /\ taken = c.payload \o c.answer
    BY <1>1, <1>2, <2>1
  <2>3. PICK p : p = c.payload
    OBVIOUS
  <2>4. PICK q : q = c.answer
    OBVIOUS
  <2>5. p \in Seq(A) /\ q \in Seq(A) /\ taken = p \o q /\ a = Len(p) /\ b = Len(q)
    BY <1>3, <1>4, <2>2, <2>3, <2>4
  <2>6. taken[a + i] = q[i]
    BY ONLY <2>5, i \in 1..b, ConcatRight
  <2> QED BY <2>4, <2>6
<1>8. a + b > 0 /\ taken[a + b] = v /\ a + b \in DOMAIN taken
  <2>1. a + b # 0
    BY <1>2, <1>5
  <2> QED BY <1>5, <2>1 DEF Latest
<1>9. v \in 1..arrived
  BY <1>2, <1>8
<1>10. ASSUME NEW f \in Range(taken) \ {v}
       PROVE  f \in 1..arrived /\ (v > f \/ (f \in dropped /\ v \notin dropped))
  <2>1. PICK j \in DOMAIN taken : taken[j] = f
    BY DEF Range
  <2>2. j \in 1..(a + b) /\ j # a + b /\ f \in 1..arrived
    BY <1>2, <1>5, <1>8, <2>1
  <2>3. b >= 1
    BY <1>5, <2>2
  <2>4. v = c.answer[b] /\ v \in Started
    <3>1. b \in 1..b /\ c.answer \in Seq(Started)
      BY <1>1, <1>5, <2>3
    <3>2. v = c.answer[b]
      BY <1>7, <1>8, <3>1
    <3> QED BY <1>5, <3>1, <3>2
  <2>5. CASE j <= a
    <3>1. j \in 1..a
      BY <1>5, <2>2, <2>5
    <3>2. f = c.payload[j]
      BY <1>6, <2>1, <3>1
    <3>3. f \in dropped
      BY <1>1, <1>5, <3>1, <3>2
    <3> QED BY <2>2, <2>4, <3>3 DEF Started
  <2>6. CASE j > a
    <3>1. PICK i : i = j - a
      OBVIOUS
    <3>2. i \in 1..b /\ a + i = j /\ i < b
      BY <1>5, <2>2, <2>6, <3>1
    <3>3. f = c.answer[i]
      BY <1>7, <2>1, <3>2
    <3>4. \A h \in 1..b : c.answer[h] = h
      BY <1>1, <1>4, <1>5, <3>2 DEF InOrder
    <3>5. f = i /\ v = b
      BY <1>5, <2>3, <2>4, <3>2, <3>3, <3>4
    <3> QED BY <1>5, <2>2, <3>2, <3>5
  <2> QED BY <1>5, <2>2, <2>5, <2>6
<1> QED BY <1>5, <1>8, <1>9, <1>10

LEMMA OpenTakenKeeps == ASSUME FilesInv, NEW l \in Labels, OpenTaken(l) PROVE FilesInv'
<1>1. PICK taken : taken = Paths(Head(calls[l]))
  OBVIOUS
<1>2. PICK v : v = Latest(taken)
  OBVIOUS
<1>3. /\ calls[l] # <<>> /\ calls' = [calls EXCEPT ![l] = Tail(@)]
      /\ \/ taken = <<>> /\ UNCHANGED <<openings, superseded>>
         \/ /\ taken # <<>> /\ openings' = [openings EXCEPT ![l] = Append(@, v)]
            /\ superseded' = superseded \cup {<<f, v>> : f \in Range(taken) \ {v}}
      /\ UNCHANGED <<globalQueue, windowQueue, launches, view, attached, events, lost, home, dropped, arrived, reloads>>
  BY <1>1, <1>2 DEF OpenTaken, queues, origin
<1>4. ListsInv /\ HistoryInv /\ WindowsInv
  BY DEF FilesInv
<1>5. /\ calls \in [Labels -> Seq(CallType)] /\ calls[l] \in Seq(CallType)
      /\ \A i \in DOMAIN calls[l] : CallIsFit(calls[l][i])
  BY <1>4 DEF ListsInv, CallsFit
<1>6. Head(calls[l]) = calls[l][1] /\ CallIsFit(Head(calls[l]))
  BY <1>3, <1>5
<1>7. taken # <<>> => /\ Len(taken) \in DOMAIN taken /\ taken[Len(taken)] = v /\ v \in 1..arrived
                      /\ \A f \in Range(taken) \ {v} :
                           f \in 1..arrived /\ (v > f \/ (f \in dropped /\ v \notin dropped))
  BY <1>1, <1>2, <1>4, <1>6, LatestIs
<1>8. CallsFit'
  <2>1. PICK s : s = Tail(calls[l])
    OBVIOUS
  <2>2. s \in Seq(CallType) /\ \A i \in DOMAIN s : CallIsFit(s[i])
    BY <1>3, <1>5, <2>1
  <2>3. calls' = [calls EXCEPT ![l] = s]
    BY <1>3, <2>1
  <2> QED BY <1>3, <1>4, <2>2, <2>3, CallsChange
<1>9. ListsInv'
  <2>1. \A t \in launches' : ThreadIsFit(t)'
    BY <1>3, <1>4 DEF ListsInv, ThreadIsFit, Started
  <2>2. openings' \in [Labels -> Seq(1..arrived)]
    <3>1. openings \in [Labels -> Seq(1..arrived)]
      BY <1>4 DEF ListsInv
    <3>2. CASE UNCHANGED openings
      BY <3>1, <3>2
    <3>3. CASE taken # <<>> /\ openings' = [openings EXCEPT ![l] = Append(@, v)]
      <4>1. Append(openings[l], v) \in Seq(1..arrived)
        BY <1>7, <3>1, <3>3
      <4> QED BY <3>1, <3>3, <4>1
    <3> QED BY <1>3, <3>2, <3>3
  <2> QED BY <1>3, <1>4, <1>8, <2>1, <2>2 DEF ListsInv, Started
<1>10. \A r \in superseded' : \/ r \in superseded
                              \/ \E f \in 1..arrived : r = <<f, v>> /\ v \in 1..arrived /\
                                   (v > f \/ (f \in dropped /\ v \notin dropped))
  BY <1>3, <1>7
<1>11. HistoryInv' /\ WindowsInv'
  <2>1. superseded' \subseteq (1..arrived) \X (1..arrived)
    BY <1>4, <1>10 DEF HistoryInv
  <2> QED BY <1>3, <1>4, <2>1 DEF HistoryInv, WindowsInv
<1>12. ASSUME NEW f \in Files PROVE \E m : Moved(PathPlaces(f), PathPlaces(f)', m)
  <2>1. PICK old : old = PathPlaces(f)
    OBVIOUS
  <2>2. PICK m : m = OpenMove(old, l, Len(openings[l]))
    OBVIOUS
  <2>3. /\ calls[l] # <<>> /\ calls' = [calls EXCEPT ![l] = Tail(@)]
        /\ windowQueue' = windowQueue \/ windowQueue' = [windowQueue EXCEPT ![l] = <<>>]
        /\ globalQueue' \in {globalQueue, <<>>} /\ UNCHANGED <<events, launches>>
    BY <1>3
  <2>4. \/ openings' = openings
        \/ /\ openings' = [openings EXCEPT ![l] = Append(@, v)]
           /\ \E j \in DOMAIN taken : taken[j] = v
    BY <1>3, <1>7
  <2>5. ListsInv
    BY <1>4
  <2>6. Moved(old, PathPlaces(f)', m)
    BY ONLY l \in Labels, <1>1, <2>1, <2>2, <2>3, <2>4, <2>5, OpenMoves
  <2> QED BY <2>1, <2>6
<1>13. Unique' /\ OwnWindow'
  BY <1>3, <1>12, MovesKeep DEF FilesInv
<1>14. NoQueueLeft'
  BY <1>3 DEF FilesInv, NoQueueLeft, Open
<1>15. GivesWayToLater'
  <2> SUFFICES ASSUME NEW r \in superseded' PROVE r[2] > r[1] \/ (r[1] \in dropped' /\ r[2] \notin dropped')
    BY DEF GivesWayToLater
  <2>1. CASE r \in superseded
    BY <1>3, <2>1 DEF FilesInv, GivesWayToLater
  <2>2. CASE r \notin superseded
    BY <1>3, <1>10, <2>2
  <2> QED BY <2>1, <2>2
<1> QED BY <1>9, <1>11, <1>13, <1>14, <1>15 DEF FilesInv

TakeMove(old, from, w, l, i, n) ==
  [o \in old |-> IF o[1] = from /\ o[2] = w THEN <<"call", l, i, n + o[4]>> ELSE o]
TakenFrom(l, from, w, given) ==
  \/ /\ from = "queue" /\ w = l /\ given = windowQueue[l]
     /\ windowQueue' = [windowQueue EXCEPT ![l] = <<>>] /\ globalQueue' = globalQueue
  \/ /\ from = "global" /\ w = NoWindow /\ given = globalQueue
     /\ globalQueue' = <<>> /\ windowQueue' = windowQueue
\* What waits becomes the answer of a call.
LEMMA TakeMoves ==
  ASSUME ListsInv, NEW l \in Labels, NEW i \in DOMAIN calls[l], NEW s, s \in Seq(CallType),
         calls' = [calls EXCEPT ![l] = s],
         \A j \in DOMAIN s : j \in DOMAIN calls[l] /\ (j # i => s[j] = calls[l][j]),
         NEW from, NEW w, NEW given, NEW n, n \in Nat,
         TakenFrom(l, from, w, given),
         \A j \in DOMAIN Paths(s[i]) :
           \/ j \in DOMAIN Paths(calls[l][i]) /\ Paths(s[i])[j] = Paths(calls[l][i])[j]
           \/ \E h \in DOMAIN given : j = n + h /\ Paths(s[i])[j] = given[h],
         UNCHANGED <<events, openings, launches>>, NEW f,
         NEW old, old = PathPlaces(f), NEW m, m = TakeMove(old, from, w, l, i, n)
  PROVE  Moved(old, PathPlaces(f)', m)
<1> USE DEF TakeMove, TakenFrom
<1>1. /\ calls \in [Labels -> Seq(CallType)] /\ calls[l] \in Seq(CallType)
      /\ windowQueue \in [Labels -> Seq(Started)] /\ from \in {"queue", "global"}
  BY DEF ListsInv, CallsFit
<1>2. ASSUME NEW p \in PathPlaces(f)'
      PROVE  \E o \in old : p = m[o] /\ (o[1] \in Own => p[1] \in Own /\ p[2] = o[2])
  <2>1. Placed(f, p)'
    BY PlacesNext DEF PlacesAre
  <2>2. ASSUME Placed(f, p), ~(p[1] = from /\ p[2] = w)
        PROVE  \E o \in old : p = m[o] /\ (o[1] \in Own => p[1] \in Own /\ p[2] = o[2])
    <3>1. p \in old
      BY <2>2, PlacesKnown DEF PlacesAre
    <3> QED BY <2>2, <3>1
  <2>3. ASSUME NEW h \in In(f, given), NEW o, o = <<from, w, 0, h>>
        PROVE  o \in old /\ m[o] = <<"call", l, i, n + h>> /\ (o[1] \in Own => o[2] = l)
    <3>1. CASE from = "queue"
      <4>1. w = l /\ h \in In(f, windowQueue[l])
        BY <3>1
      <4>2. o \in old
        BY <2>3, <3>1, <4>1, PlacesKnown DEF PlacesAre, Placed, Queued
      <4> QED BY <2>3, <3>1, <4>1, <4>2
    <3>2. CASE from = "global"
      <4>1. w = NoWindow /\ h \in In(f, globalQueue)
        BY <3>2
      <4>2. o \in old
        BY <2>3, <3>2, <4>1, PlacesKnown DEF PlacesAre, Placed, Waits
      <4> QED BY <2>3, <3>2, <4>1, <4>2 DEF Own
    <3> QED BY <1>1, <3>1, <3>2
  <2>4. CASE Called(f, p)'
    <3>1. PICK k \in Labels : \E g \in DOMAIN calls'[k] : \E j \in In(f, Paths(calls'[k][g])) : p = <<"call", k, g, j>>
      BY <2>4 DEF Called
    <3>2. PICK g \in DOMAIN calls'[k] : \E j \in In(f, Paths(calls'[k][g])) : p = <<"call", k, g, j>>
      BY <3>1
    <3>3. PICK j \in In(f, Paths(calls'[k][g])) : p = <<"call", k, g, j>>
      BY <3>2
    <3>4. CASE Called(f, p)
      <4>1. p[1] # from
        BY <1>1, <3>3
      <4> QED BY <2>2, <3>4, <4>1 DEF Placed
    <3>5. CASE ~Called(f, p)
      <4>1. calls'[k] = IF k = l THEN s ELSE calls[k]
        BY <1>1
      <4>2. ~(g \in DOMAIN calls[k] /\ calls'[k][g] = calls[k][g])
        BY <3>3, <3>5 DEF Called
      <4>3. k = l /\ g = i
        BY <3>2, <4>1, <4>2
      <4>4. j \in DOMAIN Paths(s[i]) /\ Paths(s[i])[j] = f
        BY <3>3, <4>1, <4>3 DEF In
      <4>5. ~(j \in DOMAIN Paths(calls[l][i]) /\ Paths(s[i])[j] = Paths(calls[l][i])[j])
        BY <3>3, <3>5, <4>3, <4>4 DEF Called, In
      <4>6. PICK h \in DOMAIN given : j = n + h /\ Paths(s[i])[j] = given[h]
        BY <4>4, <4>5
      <4>7. h \in In(f, given)
        BY <4>4, <4>6 DEF In
      <4>8. PICK o : o = <<from, w, 0, h>>
        OBVIOUS
      <4>9. o \in old /\ m[o] = <<"call", l, i, n + h>> /\ (o[1] \in Own => o[2] = l)
        BY <2>3, <4>7, <4>8
      <4>10. p = m[o] /\ p[1] = "call" /\ p[2] = l
        BY <3>3, <4>3, <4>6, <4>9
      <4> QED BY <4>9, <4>10 DEF Own
    <3> QED BY <3>4, <3>5
  <2>5. CASE Waits(f, p)'
    <3>1. Waits(f, p) /\ from = "queue"
      BY <2>5 DEF Waits, In
    <3>2. p[1] # from
      BY <3>1 DEF Waits
    <3> QED BY <2>2, <3>1, <3>2 DEF Placed
  <2>6. CASE Queued(f, p)'
    <3>1. PICK k \in Labels : \E j \in In(f, windowQueue'[k]) : p = <<"queue", k, 0, j>>
      BY <2>6 DEF Queued
    <3>2. PICK j \in In(f, windowQueue'[k]) : p = <<"queue", k, 0, j>>
      BY <3>1
    <3>3. CASE from = "queue"
      <4>1. k # l /\ windowQueue'[k] = windowQueue[k]
        BY <1>1, <3>2, <3>3 DEF In
      <4>2. Queued(f, p) /\ p[2] # w
        BY <3>2, <3>3, <4>1 DEF Queued
      <4> QED BY <2>2, <4>2 DEF Placed
    <3>4. CASE from = "global"
      <4>1. Queued(f, p) /\ p[1] # from
        BY <3>2, <3>4 DEF Queued
      <4> QED BY <2>2, <4>1 DEF Placed
    <3> QED BY <1>1, <3>3, <3>4
  <2>7. CASE WasOpened(f, p)' \/ Sent(f, p)' \/ Launched(f, p)'
    <3>1. WasOpened(f, p) \/ Sent(f, p) \/ Launched(f, p)
      BY <2>7 DEF WasOpened, Sent, Launched
    <3>2. p[1] # from
      BY <1>1, <3>1 DEF WasOpened, Sent, Launched
    <3> QED BY <2>2, <3>1, <3>2 DEF Placed
  <2> QED BY <2>1, <2>4, <2>5, <2>6, <2>7 DEF Placed
<1> QED BY <1>2 DEF Moved

\* What take_for_window returns, and the queue it leaves.
LEMMA TakeIs ==
  ASSUME ListsInv, HistoryInv, NEW l \in Labels, Take(l), NEW w, w = Waiting(l)
  PROVE  /\ w \in Seq(Started) /\ InOrder(w) /\ w \in Seq(Files) /\ Range(w) \subseteq Files
         /\ \/ /\ w = windowQueue[l] /\ windowQueue' = [windowQueue EXCEPT ![l] = <<>>]
               /\ globalQueue' = globalQueue
            \/ w = globalQueue /\ globalQueue' = <<>> /\ windowQueue' = windowQueue
<1>1. /\ globalQueue \in Seq(Started) /\ InOrder(globalQueue)
      /\ windowQueue \in [Labels -> Seq(Started)] /\ Len(windowQueue[l]) <= 1
  BY DEF ListsInv
<1>2. Started \subseteq Files
  BY PendingOpenAssumption DEF HistoryInv, Started, Files
<1>3. \/ windowQueue[l] # <<>> /\ w = windowQueue[l] /\ windowQueue' = [windowQueue EXCEPT ![l] = <<>>]
         /\ globalQueue' = globalQueue
      \/ w = globalQueue /\ globalQueue' = <<>> /\ windowQueue' = windowQueue
  BY DEF Take, Waiting, Discard
<1>4. w \in Seq(Started) /\ InOrder(w)
  BY <1>1, <1>3 DEF InOrder
<1>5. w \in Seq(Files)
  BY <1>2, <1>4, SeqGrows
<1>6. Range(w) \subseteq Files
  BY <1>5 DEF Range
<1> QED BY <1>3, <1>4, <1>5, <1>6

\* A call that is handled has what waited after what it came with.
LEMMA HandledCall ==
  ASSUME NEW old, CallIsFit(old), ~old.handled, ~old.dead, NEW w, w \in Seq(Started), w \in Seq(Files),
         InOrder(w), NEW c \in CallType, c.payload = old.payload, c.answer = w, c.handled, ~c.dead,
         NEW n, n = Len(old.payload)
  PROVE  /\ CallIsFit(c) /\ n \in Nat
         /\ \A j \in DOMAIN Paths(c) :
              \/ j \in DOMAIN Paths(old) /\ Paths(c)[j] = Paths(old)[j]
              \/ \E h \in DOMAIN w : j = n + h /\ Paths(c)[j] = w[h]
<1>1. /\ old \in CallType /\ old.payload \in Seq(dropped) /\ Len(old.payload) <= 1 /\ old.answer = <<>>
      /\ old.payload \in Seq(Files)
  BY DEF CallIsFit, CallType
<1>4. CallIsFit(c)
  BY <1>1 DEF CallIsFit
<1>5. PICK p : p = old.payload
  OBVIOUS
<1>6. PICK new : new = Paths(c)
  OBVIOUS
<1>7. Paths(old) = p /\ new = p \o w /\ p \in Seq(Files) /\ n = Len(p) /\ n \in Nat
  BY <1>1, <1>5, <1>6 DEF Paths
<1>8. DOMAIN new = 1..(n + Len(w)) /\ DOMAIN p = 1..n /\ DOMAIN w = 1..Len(w) /\ Len(w) \in Nat
  BY <1>7
<1>9. ASSUME NEW j \in DOMAIN new
      PROVE  \/ j \in DOMAIN p /\ new[j] = p[j]
             \/ \E h \in DOMAIN w : j = n + h /\ new[j] = w[h]
  <2>1. CASE j <= n
    <3>1. j \in 1..n
      BY <1>7, <1>8, <1>9, <2>1
    <3>2. \A h \in 1..Len(p) : (p \o w)[h] = p[h]
      BY ONLY <1>7, w \in Seq(Files), ConcatIs
    <3> QED BY <1>7, <1>8, <3>1, <3>2
  <2>2. CASE j > n
    <3>1. PICK h : h = j - n
      OBVIOUS
    <3>2. h \in 1..Len(w) /\ j = n + h
      BY <1>7, <1>8, <1>9, <2>2, <3>1
    <3>3. PICK b : b = Len(w)
      OBVIOUS
    <3>4. new[n + h] = w[h]
      <4>1. h \in 1..b
        BY <3>2, <3>3
      <4> QED BY ONLY <1>7, w \in Seq(Files), <3>3, <4>1, ConcatRight
    <3> QED BY <1>8, <3>2, <3>4
  <2> QED BY <1>7, <1>8, <1>9, <2>1, <2>2
<1> QED BY <1>4, <1>6, <1>7, <1>9

LEMMA HandleTakeKeeps == ASSUME FilesInv, NEW l \in Labels, HandleTake(l) PROVE FilesInv'
<1>1. PICK w : w = Waiting(l)
  OBVIOUS
<1>2. /\ \/ /\ calls[l] # <<>> /\ Head(calls[l]).dead
            /\ calls' = [calls EXCEPT ![l] = Tail(@)] /\ lost' = lost \cup Range(w)
         \/ \E i \in DOMAIN calls[l] :
              /\ ~calls[l][i].handled /\ ~calls[l][i].dead
              /\ calls' = [calls EXCEPT ![l][i] = [@ EXCEPT !.handled = TRUE, !.answer = w]]
              /\ UNCHANGED lost
      /\ Take(l)
      /\ UNCHANGED <<launches, view, attached, events, openings, superseded, home, dropped, arrived, reloads>>
  BY <1>1 DEF HandleTake, origin
<1>3. ListsInv /\ HistoryInv /\ WindowsInv
  BY DEF FilesInv
<1>4. /\ w \in Seq(Started) /\ InOrder(w) /\ w \in Seq(Files) /\ Range(w) \subseteq Files
      /\ \/ /\ w = windowQueue[l] /\ windowQueue' = [windowQueue EXCEPT ![l] = <<>>]
            /\ globalQueue' = globalQueue
         \/ w = globalQueue /\ globalQueue' = <<>> /\ windowQueue' = windowQueue
  <2>1. ListsInv /\ HistoryInv /\ Take(l)
    BY <1>2, <1>3
  <2> QED BY ONLY l \in Labels, <1>1, <2>1, TakeIs
<1>5. /\ calls \in [Labels -> Seq(CallType)] /\ calls[l] \in Seq(CallType)
      /\ \A i \in DOMAIN calls[l] : CallIsFit(calls[l][i])
  BY <1>3 DEF ListsInv, CallsFit
<1>6. /\ CallsFit'
      /\ lost' \subseteq Files
      /\ \A f \in Files : \E m : Moved(PathPlaces(f), PathPlaces(f)', m)
  <2>1. CASE /\ calls[l] # <<>> /\ Head(calls[l]).dead
             /\ calls' = [calls EXCEPT ![l] = Tail(@)] /\ lost' = lost \cup Range(w)
    <3>1. CallsFit'
      <4>1. PICK s : s = Tail(calls[l])
        OBVIOUS
      <4>2. s \in Seq(CallType) /\ \A i \in DOMAIN s : CallIsFit(s[i])
        BY <1>5, <2>1, <4>1
      <4>3. calls' = [calls EXCEPT ![l] = s]
        BY <2>1, <4>1
      <4> QED BY <1>2, <1>3, <4>2, <4>3, CallsChange
    <3>2. lost' \subseteq Files
      BY <1>3, <1>4, <2>1 DEF HistoryInv
    <3>3. ASSUME NEW f \in Files PROVE \E m : Moved(PathPlaces(f), PathPlaces(f)', m)
      <4>1. PICK old : old = PathPlaces(f)
        OBVIOUS
      <4>2. PICK m : m = OpenMove(old, l, Len(openings[l]))
        OBVIOUS
      <4>3. PICK taken : taken = Paths(Head(calls[l]))
        OBVIOUS
      <4>4. /\ calls[l] # <<>> /\ calls' = [calls EXCEPT ![l] = Tail(@)]
            /\ windowQueue' = windowQueue \/ windowQueue' = [windowQueue EXCEPT ![l] = <<>>]
            /\ globalQueue' \in {globalQueue, <<>>} /\ UNCHANGED <<events, launches>>
            /\ openings' = openings
        BY <1>2, <1>4, <2>1
      <4>5. ListsInv
        BY <1>3
      <4>6. Moved(old, PathPlaces(f)', m)
        BY ONLY l \in Labels, <4>1, <4>2, <4>3, <4>4, <4>5, OpenMoves
      <4> QED BY <4>1, <4>6
    <3> QED BY <3>1, <3>2, <3>3
  <2>2. ASSUME NEW i \in DOMAIN calls[l], ~calls[l][i].handled, ~calls[l][i].dead,
               calls' = [calls EXCEPT ![l][i] = [@ EXCEPT !.handled = TRUE, !.answer = w]], UNCHANGED lost
        PROVE  /\ CallsFit'
               /\ lost' \subseteq Files
               /\ \A f \in Files : \E m : Moved(PathPlaces(f), PathPlaces(f)', m)
    <3>1. PICK call : call = calls[l][i]
      OBVIOUS
    <3>2. PICK c : c = [call EXCEPT !.handled = TRUE, !.answer = w]
      OBVIOUS
    <3>3. PICK n : n = Len(call.payload)
      OBVIOUS
    <3>4. CallIsFit(call) /\ ~call.handled /\ ~call.dead
      BY <1>5, <2>2, <3>1
    <3>5. /\ c \in CallType /\ CallIsFit(c) /\ n \in Nat
          /\ \A j \in DOMAIN Paths(c) :
               \/ j \in DOMAIN Paths(call) /\ Paths(c)[j] = Paths(call)[j]
               \/ \E h \in DOMAIN w : j = n + h /\ Paths(c)[j] = w[h]
      <4>1. w \in Seq(Started) /\ InOrder(w) /\ w \in Seq(Files)
        BY <1>4
      <4>2. call \in CallType
        BY <3>4 DEF CallIsFit
      <4>3. c \in CallType
        <5>1. \A q \in CallType : [q EXCEPT !.handled = TRUE, !.answer = w] \in CallType
          BY <4>1 DEF CallType
        <5> QED BY <3>2, <4>2, <5>1
      <4>4. c.payload = call.payload /\ c.answer = w /\ c.handled /\ ~c.dead
        BY <3>2, <3>4, <4>2 DEF CallType
      <4> QED BY ONLY <3>3, <3>4, <4>1, <4>3, <4>4, HandledCall
    <3>6. PICK s : s = [calls[l] EXCEPT ![i] = c]
      OBVIOUS
    <3>7. calls' = [calls EXCEPT ![l] = s]
      BY <1>5, <2>2, <3>1, <3>2, <3>6
    <3>8. s \in Seq(CallType) /\ DOMAIN s = DOMAIN calls[l] /\ s[i] = c
          /\ \A j \in DOMAIN s : j \in DOMAIN calls[l] /\ (j # i => s[j] = calls[l][j])
      BY <1>5, <3>5, <3>6
    <3>9. \A j \in DOMAIN s : CallIsFit(s[j])
      BY <1>5, <3>5, <3>8
    <3>10. CallsFit'
      BY <1>2, <1>3, <3>7, <3>8, <3>9, CallsChange
    <3>11. ASSUME NEW f \in Files PROVE \E m : Moved(PathPlaces(f), PathPlaces(f)', m)
      <4>1. PICK from, kept : TakenFrom(l, from, kept, w)
        BY <1>4 DEF TakenFrom
      <4>2. PICK old : old = PathPlaces(f)
        OBVIOUS
      <4>3. PICK m : m = TakeMove(old, from, kept, l, i, n)
        OBVIOUS
      <4>4. \A j \in DOMAIN Paths(s[i]) :
              \/ j \in DOMAIN Paths(calls[l][i]) /\ Paths(s[i])[j] = Paths(calls[l][i])[j]
              \/ \E h \in DOMAIN w : j = n + h /\ Paths(s[i])[j] = w[h]
        BY <3>1, <3>5, <3>8
      <4>5. ListsInv /\ UNCHANGED <<events, openings, launches>> /\ n \in Nat
        BY <1>2, <1>3, <3>5
      <4>6. /\ s \in Seq(CallType)
            /\ \A j \in DOMAIN s : j \in DOMAIN calls[l] /\ (j # i => s[j] = calls[l][j])
        BY <3>8
      <4>7. Moved(old, PathPlaces(f)', m)
        BY ONLY l \in Labels, i \in DOMAIN calls[l], <3>7, <4>1, <4>2, <4>3, <4>4, <4>5, <4>6, TakeMoves
      <4> QED BY <4>2, <4>7
    <3>12. lost' \subseteq Files
      BY <1>3, <2>2 DEF HistoryInv
    <3> QED BY <3>10, <3>11, <3>12
  <2> QED BY <1>2, <2>1, <2>2
<1>7. /\ globalQueue' \in Seq(Started) /\ InOrder(globalQueue')
      /\ windowQueue' \in [Labels -> Seq(Started)]
      /\ \A k \in Labels : Len(windowQueue'[k]) <= 1 /\ (windowQueue'[k] # <<>> => windowQueue[k] # <<>>)
  <2>1. /\ globalQueue \in Seq(Started) /\ InOrder(globalQueue) /\ windowQueue \in [Labels -> Seq(Started)]
        /\ \A k \in Labels : Len(windowQueue[k]) <= 1
    BY <1>3 DEF ListsInv
  <2>2. <<>> \in Seq(Started) /\ Len(<<>>) <= 1 /\ InOrder(<<>>)
    BY DEF InOrder
  <2> QED BY <1>4, <2>1, <2>2
<1>8. ListsInv'
  <2>1. \A t \in launches' : ThreadIsFit(t)'
    BY <1>2, <1>3 DEF ListsInv, ThreadIsFit, Started
  <2>2. Started' = Started
    BY <1>2 DEF Started
  <2>3. InOrder(globalQueue)'
    BY <1>7 DEF InOrder
  <2> QED BY <1>2, <1>3, <1>6, <1>7, <2>1, <2>2, <2>3 DEF ListsInv
<1>9. HistoryInv' /\ WindowsInv'
  BY <1>2, <1>3, <1>6 DEF HistoryInv, WindowsInv
<1>10. Unique' /\ OwnWindow'
  BY <1>2, <1>6, MovesKeep DEF FilesInv
<1>11. NoQueueLeft' /\ GivesWayToLater'
  BY <1>2, <1>7 DEF FilesInv, NoQueueLeft, Open, GivesWayToLater
<1> QED BY <1>8, <1>9, <1>10, <1>11 DEF FilesInv

LEMMA FilesInitial == ASSUME InitPendingOpen PROVE FilesInv
<1>1. PICK n \in 0..2 : n <= MaxFiles /\ arrived = n /\ globalQueue = [i \in 1..n |-> i]
  BY DEF InitPendingOpen
<1>2. /\ windowQueue = [l \in Labels |-> <<>>] /\ launches = {}
      /\ view = [l \in Labels |-> IF l = Main THEN "loading" ELSE "unborn"]
      /\ attached = {Main}
      /\ events = [l \in Labels |-> <<>>] /\ calls = [l \in Labels |-> <<>>]
      /\ openings = [l \in Labels |-> <<>>] /\ superseded = {} /\ lost = {}
      /\ home = [f \in Files |-> NoWindow] /\ dropped = {} /\ reloads = 0
  BY DEF InitPendingOpen
<1>3. MaxFiles \in Nat /\ MaxReloads \in Nat /\ n \in Nat /\ Started = 1..n
  BY <1>1, <1>2, PendingOpenAssumption DEF Started
<1>4. globalQueue \in Seq(Started) /\ \A i \in DOMAIN globalQueue : globalQueue[i] = i
  BY <1>1, <1>3
<1>5. ListsInv
  <2>1. \A l \in Labels : /\ windowQueue[l] = <<>> /\ events[l] = <<>> /\ calls[l] = <<>> /\ openings[l] = <<>>
    BY <1>2
  <2>2. /\ windowQueue \in [Labels -> Seq(Started)] /\ events \in [Labels -> Seq(Seq(dropped))]
        /\ calls \in [Labels -> Seq(CallType)] /\ openings \in [Labels -> Seq(1..arrived)]
    BY <1>2
  <2>3. InOrder(globalQueue)
    BY <1>4 DEF InOrder
  <2>4. CallsFit
    BY <2>1, <2>2 DEF CallsFit
  <2> QED BY <1>2, <1>4, <2>1, <2>2, <2>3, <2>4 DEF ListsInv
<1>6. HistoryInv
  BY <1>1, <1>2, <1>3 DEF HistoryInv
<1>7. WindowsInv
  BY <1>2 DEF WindowsInv, WindowStates, Labels
<1>8. ASSUME NEW f \in Files, NEW p \in PathPlaces(f) PROVE p = <<"global", NoWindow, 0, f>>
  <2>1. Placed(f, p)
    BY PlacesKnown DEF PlacesAre
  <2>2. Waits(f, p)
    BY <1>2, <2>1 DEF Placed, Queued, WasOpened, Sent, Called, Launched, In
  <2> QED BY <1>4, <2>2 DEF Waits, In
<1>9. Unique /\ OwnWindow
  BY <1>2, <1>8 DEF Unique, OwnWindow
<1>10. NoQueueLeft /\ GivesWayToLater
  BY <1>2 DEF NoQueueLeft, GivesWayToLater
<1> QED BY <1>5, <1>6, <1>7, <1>9, <1>10 DEF FilesInv

LEMMA FilesInductive == ASSUME FilesInv, [NextPendingOpen]_pendingOpen PROVE FilesInv'
<1>1. CASE SecondInstance
  BY <1>1, SecondInstanceKeeps
<1>2. CASE LaunchStep
  BY <1>2, QueueForWindowKeeps, BuildWindowKeeps, AttachHandlersKeeps DEF LaunchStep
<1>3. ASSUME NEW l \in Others, NewWindow(l) PROVE FilesInv'
  BY <1>3, NewWindowKeeps
<1>4. ASSUME NEW l \in Labels, PageStep(l) \/ DestroyWindow(l) \/ ReloadPage(l) \/ DropFile(l) PROVE FilesInv'
  BY <1>4, ListenKeeps, FirstTakeKeeps, ReceiveEventKeeps, HandleTakeKeeps, OpenTakenKeeps,
     DestroyWindowKeeps, ReloadPageKeeps, DropFileKeeps DEF PageStep
<1>5. CASE UNCHANGED pendingOpen
  <2>1. UNCHANGED <<globalQueue, windowQueue, launches, view, attached, events, calls, openings, superseded,
                    lost, home, dropped, arrived, reloads>>
    BY <1>5 DEF pendingOpen, queues, pages, origin
  <2>2. ListsInv' /\ HistoryInv' /\ WindowsInv'
    BY <2>1 DEF FilesInv, ListsInv, ThreadIsFit, CallsFit, CallIsFit, Started, HistoryInv, WindowsInv
  <2>3. ASSUME NEW f \in Files PROVE PathPlaces(f)' \subseteq PathPlaces(f)
    <3>1. \A p : Placed(f, p)' => Placed(f, p)
      BY <2>1 DEF Placed, Waits, Queued, WasOpened, Sent, Called, Launched
    <3> QED BY <3>1, PlacesKnown, PlacesNext DEF PlacesAre
  <2>4. Unique' /\ OwnWindow'
    BY <2>1, <2>3, MovesKeep DEF FilesInv
  <2>5. NoQueueLeft' /\ GivesWayToLater'
    BY <2>1 DEF FilesInv, NoQueueLeft, Open, GivesWayToLater
  <2> QED BY <2>2, <2>4, <2>5 DEF FilesInv
<1> QED BY <1>1, <1>2, <1>3, <1>4, <1>5 DEF NextPendingOpen

LEMMA FilesHold == PendingOpenSpec => []FilesInv
BY FilesInitial, FilesInductive, PTL DEF PendingOpenSpec

\* Every path the windows handle is one the user gave, in the queues PendingOpenPaths keeps
\* (pending_open.rs), in the events and in the calls of take_pending_open_paths.
THEOREM FilesTypes == PendingOpenSpec => []PendingOpenTypeOK
<1>1. ASSUME FilesInv PROVE PendingOpenTypeOK
  <2>1. ListsInv /\ HistoryInv /\ WindowsInv
    BY <1>1 DEF FilesInv
  <2>2. Started \subseteq Files /\ dropped \subseteq Files /\ 1..arrived \subseteq Files
    BY <2>1, PendingOpenAssumption DEF HistoryInv, Started, Files
  <2>3. Seq(Started) \subseteq Seq(Files) /\ Seq(dropped) \subseteq Seq(Files) /\ Seq(1..arrived) \subseteq Seq(Files)
    BY <2>2, SeqGrows
  <2>4. Seq(Seq(dropped)) \subseteq Seq(Seq(Files))
    BY <2>3, SeqGrows
  <2>5. /\ globalQueue \in Seq(Files) /\ windowQueue \in [Labels -> Seq(Files)]
        /\ \A t \in launches : t.paths \in Seq(Files) /\ t.window \in Others \cup {NoWindow}
    BY <2>1, <2>3 DEF ListsInv, ThreadIsFit
  <2>6. /\ events \in [Labels -> Seq(Seq(Files))] /\ calls \in [Labels -> Seq(CallType)]
        /\ openings \in [Labels -> Seq(Files)]
    BY <2>1, <2>3, <2>4 DEF ListsInv, CallsFit
  <2>7. superseded \subseteq Files \X Files
    BY <2>1, <2>2 DEF HistoryInv
  <2> QED BY <2>1, <2>5, <2>6, <2>7 DEF PendingOpenTypeOK, HistoryInv, WindowsInv, WindowStates
<1> QED BY <1>1, FilesHold, PTL

\* A file the user opens is with one holder, a queue, a thread, an event, a call or the window
\* that opened it; one of a second start is only where its window can have it (windows.rs,
\* open_path_in_new_window); no queue outlives its window but the one that was destroyed before
\* attach_window_cleanup; and a file gives way only to a later one (desktop-events.ts).
THEOREM FilesAreKept == PendingOpenSpec => []FilesKept
<1>1. ASSUME FilesInv PROVE FilesKept
  <2>1. Unique /\ OwnWindow /\ NoQueueLeft /\ GivesWayToLater
    BY <1>1 DEF FilesInv
  <2>2. ASSUME NEW f \in Files PROVE Cardinality(PathPlaces(f)) <= 1
    <3>1. PICK S : S = PathPlaces(f)
      OBVIOUS
    <3>2. \A p, q \in S : p = q
      BY <2>1, <3>1 DEF Unique
    <3>3. S = {} \/ \E p : S = {p}
      BY <3>2
    <3>4. Cardinality(S) <= 1
      <4>1. CASE S = {}
        BY <4>1, FS_EmptySet
      <4>2. ASSUME NEW p, S = {p} PROVE Cardinality(S) <= 1
        BY <4>2, FS_Singleton
      <4> QED BY <3>3, <4>1, <4>2
    <3> QED BY <3>1, <3>4
  <2> QED BY <2>1, <2>2 DEF FilesKept, OneHolder
<1> QED BY <1>1, FilesHold, PTL
=============================================================================
