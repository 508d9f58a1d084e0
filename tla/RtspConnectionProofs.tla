------------------------ MODULE RtspConnectionProofs ------------------------
(***************************************************************************)
(* Proofs about RtspConnection, for any number of tracks, RTSP sessions    *)
(* and RTP sessions.                                                       *)
(***************************************************************************)
EXTENDS RtspConnection, TLAPS

(* One track at most is short: the far range ends within the others.       *)
ShortInv == short \subseteq Keys /\ \A j, k \in short : j = k

(* A method that waits for its reply still finds what prepare has looked   *)
(* up, and a PLAY is not answered from memory that was freed.              *)
TodoInv ==
  pc = "answer" /\ todo.op \in {"PLAY", "PAUSE", "TEARDOWN"} =>
    /\ todo.session \in open /\ todo.track \in Keys
    /\ ~todo.freed
    /\ todo.op = "PLAY" => TrackOk(todo.session, todo.track)

(* The RTP session is one that the answer to the PLAY in hand sets going.  *)
BeingPlayed(s, k) ==
  /\ pc = "answer" /\ todo.op = "PLAY" /\ todo.must /\ ~todo.freed
  /\ s = todo.session /\ todo.track \in {None, k}

(* Unless a first PLAY was refused, times are set without a thread only    *)
(* from prepare to execute of a PLAY, and no session is without PAUSED and *)
(* without a thread.                                                       *)
HeldInv ==
  ~refused =>
    \A s \in SessionIds, k \in Keys :
      /\ rtp[s][k] = "held" => BeingPlayed(s, k) \/ pc = "closing"
      /\ rtp[s][k] # "lost"

IInv == TypeOK /\ ShortInv /\ TodoInv /\ HeldInv /\ BlocksOnlyAfterRefusal

LEMMA KeysAreNumbers == None \in Keys /\ Keys \subseteq Nat /\ Tracks \subseteq Keys /\ None \notin Tracks
BY TracksAssumption DEF Keys, None

LEMMA InitInv == Init => IInv
<1> SUFFICES ASSUME Init PROVE IInv
    OBVIOUS
<1> USE DEF Init
<1>1. TypeOK
  <2>1. todo \in TodoType
        BY KeysAreNumbers DEF TodoType, Idle
  <2>2. rtp \in [SessionIds -> [Keys -> RtpStates]]
        BY DEF RtpStates
  <2>3. \A s \in SessionIds, k \in Keys : ~Has(s, k)
        BY DEF Has
  <2>4. short \subseteq Keys /\ live \in BOOLEAN
        OBVIOUS
  <2>5. told \in [SessionIds -> [Keys -> ToldStates]] /\ moved \subseteq Keys /\ played \subseteq open /\ open \subseteq SessionIds
        BY DEF ToldStates
  <2>. QED
    BY <2>1, <2>2, <2>3, <2>4, <2>5 DEF TypeOK
<1>2. ShortInv
      BY DEF ShortInv
<1>3. TodoInv /\ HeldInv /\ BlocksOnlyAfterRefusal
      BY DEF TodoInv, HeldInv, BlocksOnlyAfterRefusal
<1>. QED
  BY <1>1, <1>2, <1>3 DEF IInv

-----------------------------------------------------------------------------
(* Requests that are prepared.                                             *)

Ops == {"none", "error", "OPTIONS", "DESCRIBE", "SETUP", "PLAY", "PAUSE", "TEARDOWN"}

(* What Method makes, and what its EXCEPTs make of that.                   *)
LEMMA Methods ==
  ASSUME NEW op \in Ops, NEW s \in SessionIds \cup {None}, NEW k \in Keys
  PROVE  /\ Method(op, s, k) \in TodoType
         /\ Method(op, s, k).op = op /\ Method(op, s, k).session = s
         /\ Method(op, s, k).track = k
         /\ ~Method(op, s, k).must /\ ~Method(op, s, k).freed
BY DEF Method, Idle, TodoType, Ops

LEMMA Excepted ==
  ASSUME NEW m \in TodoType, NEW b \in BOOLEAN
  PROVE  /\ [m EXCEPT !.must = b] \in TodoType /\ [m EXCEPT !.freed = b] \in TodoType
         /\ [m EXCEPT !.must = b].op = m.op /\ [m EXCEPT !.freed = b].op = m.op
         /\ [m EXCEPT !.must = b].session = m.session /\ [m EXCEPT !.must = b].track = m.track
         /\ [m EXCEPT !.must = b].must = b /\ [m EXCEPT !.must = b].freed = m.freed
BY DEF TodoType

(* The state of the RTP sessions that prepare leaves, with the times set   *)
(* on those that are going to be answered for.                             *)
LEMMA PreparedMethod ==
  ASSUME IInv, NEW m \in TodoType, Prepared(m),
         m.op \in {"PLAY", "PAUSE", "TEARDOWN"} => m.session \in open' /\ ~m.freed,
         m.op = "PLAY" => Has(m.session, m.track)' \/ m.track = None,
         open' \subseteq SessionIds, played' \subseteq open', moved' \subseteq Keys,
         rtp' \in [SessionIds -> [Keys -> RtpStates]],
         \A s \in SessionIds \ open', k \in Keys : ~Has(s, k)',
         described' \in BOOLEAN, refused' \in BOOLEAN, dead' = dead,
         ~refused' => \A s \in SessionIds, k \in Keys :
           /\ rtp'[s][k] # "lost"
           /\ rtp'[s][k] = "held" =>
                m.op = "PLAY" /\ m.must /\ s = m.session /\ m.track \in {None, k}
  PROVE  IInv'
<1> USE DEF Prepared, IInv
<1>1. TypeOK'
      BY DEF TypeOK
<1>2. ShortInv'
      BY DEF ShortInv
<1>3. TodoInv'
      BY DEF TodoInv, TodoType, TrackOk, Has
<1>4. HeldInv'
      BY DEF HeldInv, BeingPlayed
<1>5. BlocksOnlyAfterRefusal'
      BY DEF BlocksOnlyAfterRefusal
<1>. QED
  BY <1>1, <1>2, <1>3, <1>4, <1>5

(* A request that changes nothing.                                         *)
LEMMA KeepsInv ==
  ASSUME IInv, NEW op \in Ops, NEW s \in SessionIds \cup {None}, NEW k \in Keys,
         op \in {"PLAY", "PAUSE", "TEARDOWN"} => s \in open,
         op = "PLAY" => TrackOk(s, k),
         Prepared(Method(op, s, k)), Keeps
  PROVE  IInv'
<1> DEFINE m == Method(op, s, k)
<1>1. m \in TodoType /\ m.op = op /\ m.session = s /\ m.track = k /\ ~m.freed
      BY Methods
<1>2. \A t \in SessionIds, j \in Keys :
        ~refused => rtp[t][j] # "held" /\ rtp[t][j] # "lost"
      BY DEF IInv, HeldInv, BeingPlayed, Prepared, Taken
<1>3. op = "PLAY" => Has(s, k) \/ k = None
      BY DEF TrackOk
<1> HIDE DEF m
<1>. QED
  BY <1>1, <1>2, <1>3, PreparedMethod DEF Keeps, IInv, TypeOK, Has, m

LEMMA RefusedInv == IInv /\ Refused /\ Keeps => IInv'
BY KeepsInv, KeysAreNumbers DEF Refused, Ops

LEMMA NoneHeld ==
  ASSUME IInv, Taken, ~refused, NEW s \in SessionIds, NEW k \in Keys
  PROVE  rtp[s][k] # "held" /\ rtp[s][k] # "lost"
BY DEF IInv, HeldInv, BeingPlayed, Taken

LEMMA OptionsInv == IInv /\ Options => IInv'
BY KeepsInv, RefusedInv, KeysAreNumbers DEF Options, Ops

LEMMA DescribeInv ==
  ASSUME IInv, NEW url \in Urls, NEW ok \in BOOLEAN, Describe(url, ok)
  PROVE  IInv'
<1> DEFINE m == [Method("DESCRIBE", None, None) EXCEPT !.freed = described]
<1>1. CASE Refused /\ Keeps
      BY <1>1, RefusedInv
<1>2. CASE ~(Refused /\ Keeps)
  <2>1. /\ Prepared(m) /\ described' = TRUE /\ moved' = {}
        /\ UNCHANGED <<open, played, rtp, dead, refused>>
        BY <1>2 DEF Describe, loadDescription
  <2>2. m \in TodoType /\ m.op = "DESCRIBE"
    <3>1. Method("DESCRIBE", None, None) \in TodoType /\ Method("DESCRIBE", None, None).op = "DESCRIBE"
          BY Methods, KeysAreNumbers DEF Ops
    <3>2. described \in BOOLEAN
          BY DEF IInv, TypeOK
    <3>. QED
      BY <3>1, <3>2, Excepted
  <2>3. Taken
        BY <2>1 DEF Prepared
  <2> HIDE DEF m
  <2>. QED
    BY <2>1, <2>2, <2>3, NoneHeld, PreparedMethod DEF IInv, TypeOK, Has
<1>. QED
  BY <1>1, <1>2

LEMMA SetupInv ==
  ASSUME IInv, NEW url \in Urls, NEW id \in SessionIds \cup {None}, NEW offers \in OfferLists,
         Setup(url, id, offers)
  PROVE  IInv'
<1>1. CASE Refused /\ Keeps
      BY <1>1, RefusedInv
<1>2. CASE ~(Refused /\ Keeps)
  <2>1. PICK s \in SetupIds(id) :
          /\ UrlOk(url)
          /\ open' = open \cup {s}
          /\ \/ Refused /\ UNCHANGED rtp
             \/ createSession(s, url)
          /\ moved' = {} /\ UNCHANGED <<described, played, dead, refused>>
        BY <1>2 DEF Setup
  <2>2. s \in SessionIds
        BY DEF SetupIds
  <2>3. url \in Keys
        BY <2>1, KeysAreNumbers DEF UrlOk
  <2>4. CASE Refused /\ UNCHANGED rtp
    <3> DEFINE m == Method("error", None, None)
    <3>1. m \in TodoType /\ m.op = "error"
          BY Methods, KeysAreNumbers DEF Ops
    <3>2. Prepared(m) /\ Taken
          BY <2>4 DEF Refused, Prepared
    <3> HIDE DEF m
    <3>. QED
      BY <2>1, <2>2, <2>4, <3>1, <3>2, NoneHeld, PreparedMethod DEF IInv, TypeOK, Has
  <2>5. CASE createSession(s, url)
    <3> DEFINE b == rtp[s][url] # "none"
               m == [Method("SETUP", s, url) EXCEPT !.freed = b]
    <3>1. m \in TodoType /\ m.op = "SETUP"
      <4>1. Method("SETUP", s, url) \in TodoType /\ Method("SETUP", s, url).op = "SETUP"
            BY <2>2, <2>3, Methods DEF Ops
      <4>2. b \in BOOLEAN
            OBVIOUS
      <4>. QED
        BY <4>1, <4>2, Excepted
    <3>2. Prepared(m) /\ Taken
          BY <2>5 DEF createSession, Prepared
    <3>3. rtp' = IF b THEN rtp ELSE [rtp EXCEPT ![s][url] = "stopped"]
          BY <2>5 DEF createSession
    <3>4. rtp \in [SessionIds -> [Keys -> RtpStates]]
          BY DEF IInv, TypeOK
    <3>5. rtp' \in [SessionIds -> [Keys -> RtpStates]]
          BY <2>2, <2>3, <3>3, <3>4 DEF RtpStates
    <3>6. \A t \in SessionIds, k \in Keys :
            rtp'[t][k] = rtp[t][k] \/ (t = s /\ rtp'[t][k] = "stopped")
          BY <2>2, <2>3, <3>3, <3>4
    <3> HIDE DEF m, b
    <3>7. /\ open' \subseteq SessionIds /\ played' \subseteq open' /\ moved' \subseteq Keys
          /\ described' \in BOOLEAN /\ refused' \in BOOLEAN /\ dead' = dead
          BY <2>1, <2>2 DEF IInv, TypeOK
    <3>8. \A t \in SessionIds \ open', k \in Keys : ~Has(t, k)'
          BY <2>1, <3>6 DEF IInv, TypeOK, Has
    <3>9. ~refused' => \A t \in SessionIds, k \in Keys : rtp'[t][k] \notin {"lost", "held"}
          BY <2>1, <3>2, <3>6, NoneHeld
    <3>. QED
      BY <3>1, <3>2, <3>5, <3>7, <3>8, <3>9, PreparedMethod
  <2>. QED
    BY <2>1, <2>4, <2>5
<1>. QED
  BY <1>1, <1>2

LEMMA TeardownInv ==
  ASSUME IInv, NEW url \in Urls, NEW s \in SessionIds, Teardown(url, s)
  PROVE  IInv'
<1>1. CASE Refused /\ Keeps
      BY <1>1, RefusedInv
<1>2. CASE SessionOk(url, s) /\ Prepared(Method("TEARDOWN", s, url)) /\ Keeps
      BY <1>2, KeepsInv, KeysAreNumbers DEF SessionOk, UrlOk, Ops
<1>. QED
  BY <1>1, <1>2 DEF Teardown

LEMMA SetTimesFacts ==
  ASSUME IInv, NEW s \in SessionIds, NEW ts
  PROVE  /\ SetTimes(s, ts) \in [SessionIds -> [Keys -> RtpStates]]
         /\ \A t \in SessionIds, k \in Keys :
              \/ SetTimes(s, ts)[t][k] = rtp[t][k]
              \/ t = s /\ k \in ts /\ rtp[t][k] = "stopped" /\ SetTimes(s, ts)[t][k] = "held"
<1>1. rtp \in [SessionIds -> [Keys -> RtpStates]]
      BY DEF IInv, TypeOK
<1>. QED
  BY <1>1 DEF SetTimes, RtpStates

(* The RTP session that refuses an aggregate PLAY is the one that is       *)
(* short; it has been asked, so it had never played.                       *)
LEMMA FirstRefuses ==
  ASSUME IInv, NEW s \in SessionIds, NEW range, Eval(s, range),
         {t \in Addressed(s, None) : Refuses(t, range)} # {}
  PROVE  LET no == {t \in Addressed(s, None) : Refuses(t, range)}
             first == CHOOSE t \in no : \A u \in no : t <= u IN
         first \in Keys /\ first \in short /\ rtp[s][first] = "stopped"
<1> DEFINE no == {t \in Addressed(s, None) : Refuses(t, range)}
           first == CHOOSE t \in no : \A u \in no : t <= u
<1>1. PICK t \in no : TRUE
      OBVIOUS
<1>2. no \subseteq Keys /\ no \subseteq short
      BY DEF Addressed, Refuses
<1>3. \A u \in no : t <= u
  <2>1. \A j, k \in short : j = k
        BY DEF IInv, ShortInv
  <2>2. t \in short /\ t \in Nat
        BY <1>1, <1>2, KeysAreNumbers
  <2> HIDE DEF no
  <2>. QED
    BY <1>2, <2>1, <2>2
<1>4. first \in no
      BY <1>1, <1>3
<1>5. rtp[s][first] \in {"none", "stopped"} /\ Has(s, first)
      BY <1>2, <1>4 DEF Eval, Addressed
<1>. QED
  BY <1>2, <1>4, <1>5 DEF Has

LEMMA PlayAllInv ==
  ASSUME IInv, Taken, NEW s \in open, NEW range, PlayAll(s, range)
  PROVE  IInv'
<1> DEFINE ts == Addressed(s, None)
           no == {t \in ts : Refuses(t, range)}
           first == CHOOSE t \in no : \A u \in no : t <= u
           upTo == {t \in ts : t <= first}
<1>0. s \in SessionIds /\ ts \subseteq Keys
      BY DEF IInv, TypeOK, Addressed
<1>1. CASE ~Eval(s, range)
      BY <1>1, RefusedInv DEF PlayAll
<1>2. CASE Eval(s, range) /\ no # {}
  <2> DEFINE m == Method("error", None, None)
  <2>1. /\ Refused
        /\ rtp' = SetTimes(s, upTo)
        /\ refused' = (refused \/ rtp[s][first] = "stopped")
        /\ moved' = upTo \ {first}
        /\ UNCHANGED <<described, open, played, dead>>
        BY <1>2 DEF PlayAll
  <2>2. m \in TodoType /\ m.op = "error" /\ Prepared(m)
        BY <2>1, Methods, KeysAreNumbers DEF Ops, Refused
  <2>3. refused'
        BY <1>0, <1>2, <2>1, FirstRefuses
  <2>4. upTo \subseteq Keys
        BY <1>0
  <2> HIDE DEF m, upTo, first, no, ts
  <2>5. refused' \in BOOLEAN /\ moved' \subseteq Keys
        BY <2>1, <2>3, <2>4
  <2>6. /\ rtp' \in [SessionIds -> [Keys -> RtpStates]]
        /\ \A t \in SessionIds, k \in Keys :
             rtp'[t][k] = rtp[t][k] \/ (rtp[t][k] = "stopped" /\ rtp'[t][k] = "held")
        BY <1>0, <2>1, SetTimesFacts
  <2>7. /\ open' \subseteq SessionIds /\ played' \subseteq open'
        /\ described' \in BOOLEAN /\ dead' = dead
        BY <2>1, <2>2 DEF IInv, TypeOK, Prepared
  <2>8. open' = open
        BY <2>1, <2>2 DEF Prepared
  <2>9. \A t \in SessionIds \ open', k \in Keys : ~Has(t, k)'
        BY <2>6, <2>8 DEF IInv, TypeOK, Has
  <2>. QED
    BY <2>2, <2>3, <2>5, <2>6, <2>7, <2>9, PreparedMethod
<1>3. CASE Eval(s, range) /\ no = {}
  <2> DEFINE m == [Method("PLAY", s, None) EXCEPT !.must = TRUE]
  <2>1. /\ Prepared(m)
        /\ rtp' = SetTimes(s, ts)
        /\ played' = played \cup {s}
        /\ moved' = ts
        /\ UNCHANGED <<described, open, dead, refused>>
        BY <1>3 DEF PlayAll
  <2>2. /\ m \in TodoType /\ m.op = "PLAY" /\ m.session = s /\ m.track = None
        /\ m.must /\ ~m.freed
    <3>1. LET p == Method("PLAY", s, None) IN
          p \in TodoType /\ p.op = "PLAY" /\ p.session = s /\ p.track = None /\ ~p.freed
          BY <1>0, Methods, KeysAreNumbers DEF Ops
    <3>. QED
      BY <3>1, Excepted
  <2> HIDE DEF m, ts
  <2>3. rtp' \in [SessionIds -> [Keys -> RtpStates]]
        BY <1>0, <2>1, SetTimesFacts
  <2>4. \A t \in SessionIds, k \in Keys :
          rtp'[t][k] = rtp[t][k] \/ (t = s /\ rtp[t][k] = "stopped" /\ rtp'[t][k] = "held")
        BY <1>0, <2>1, SetTimesFacts
  <2>5. \A t \in SessionIds \ open', k \in Keys : ~Has(t, k)'
        BY <2>1, <2>4 DEF IInv, TypeOK, Has
  <2>6. ~refused' => \A t \in SessionIds, k \in Keys :
          rtp'[t][k] # "lost" /\ (rtp'[t][k] = "held" => t = s)
        BY <2>1, <2>4, NoneHeld
  <2>7. /\ s \in open' /\ open' \subseteq SessionIds /\ played' \subseteq open'
        /\ described' \in BOOLEAN /\ refused' \in BOOLEAN
        BY <2>1 DEF IInv, TypeOK
  <2>. QED
    BY <1>0, <2>1, <2>2, <2>3, <2>5, <2>6, <2>7, PreparedMethod
<1> HIDE DEF ts, no, first, upTo
<1>. QED
  BY <1>1, <1>2, <1>3

LEMMA PlayOneInv ==
  ASSUME IInv, Taken, NEW s \in open, NEW k \in Keys, Has(s, k), NEW range,
         PlayOne(s, k, range)
  PROVE  IInv'
<1>0. s \in SessionIds
      BY DEF IInv, TypeOK
<1>1. CASE Refuses(k, range)
  <2>1. /\ dead' = "unexpected"
        /\ UNCHANGED <<live, short, described, open, played, rtp, pc, todo, socket, told,
                       refused, moved>>
        BY <1>1 DEF PlayOne
  <2>2. TypeOK'
        BY <2>1 DEF IInv, TypeOK, Has
  <2>3. TodoInv' /\ HeldInv'
        BY <2>1 DEF IInv, TodoInv, TrackOk, Has, HeldInv, BeingPlayed
  <2>. QED
    BY <2>1, <2>2, <2>3 DEF IInv, ShortInv, BlocksOnlyAfterRefusal
<1>2. CASE ~Refuses(k, range)
  <2> DEFINE m == [Method("PLAY", s, k) EXCEPT !.must = TRUE]
  <2>1. /\ Prepared(m)
        /\ rtp' = SetTimes(s, {k})
        /\ moved' = {k}
        /\ UNCHANGED <<described, open, played, dead, refused>>
        BY <1>2 DEF PlayOne
  <2>2. /\ m \in TodoType /\ m.op = "PLAY" /\ m.session = s /\ m.track = k
        /\ m.must /\ ~m.freed
    <3>1. LET p == Method("PLAY", s, k) IN
          p \in TodoType /\ p.op = "PLAY" /\ p.session = s /\ p.track = k /\ ~p.freed
          BY <1>0, Methods DEF Ops
    <3>. QED
      BY <3>1, Excepted
  <2> HIDE DEF m
  <2>3. rtp' \in [SessionIds -> [Keys -> RtpStates]]
        BY <1>0, <2>1, SetTimesFacts
  <2>4. \A t \in SessionIds, j \in Keys :
          \/ rtp'[t][j] = rtp[t][j]
          \/ t = s /\ j = k /\ rtp[t][j] = "stopped" /\ rtp'[t][j] = "held"
        BY <1>0, <2>1, SetTimesFacts
  <2>5. \A t \in SessionIds, j \in Keys : Has(t, j)' <=> Has(t, j)
        BY <2>4 DEF Has
  <2>6. \A t \in SessionIds \ open', j \in Keys : ~Has(t, j)'
        BY <2>1, <2>5 DEF IInv, TypeOK
  <2>7. ~refused' => \A t \in SessionIds, j \in Keys :
          rtp'[t][j] # "lost" /\ (rtp'[t][j] = "held" => t = s /\ j = k)
    <3>1. ~refused => \A t \in SessionIds, j \in Keys : rtp[t][j] # "lost" /\ rtp[t][j] # "held"
          BY NoneHeld
    <3>. QED
      BY <2>1, <2>4, <3>1
  <2>8. /\ s \in open' /\ open' \subseteq SessionIds /\ played' \subseteq open'
        /\ described' \in BOOLEAN /\ refused' \in BOOLEAN
        BY <2>1 DEF IInv, TypeOK
  <2>9. Has(m.session, m.track)'
        BY <1>0, <2>2, <2>5
  <2>. QED
    BY <1>0, <2>1, <2>2, <2>3, <2>6, <2>7, <2>8, <2>9, PreparedMethod
<1>. QED
  BY <1>1, <1>2

LEMMA PlayInv ==
  ASSUME IInv, Taken, NEW url \in Urls, NEW s \in SessionIds, NEW range, NEW scale,
         Play(url, s, range, scale)
  PROVE  IInv'
<1> DEFINE ok == SessionOk(url, s) /\ getDescription /\ TrackOk(s, url) /\ ~BadPlay(range, scale)
           must == mustPlay(s, range, scale)
<1>1. CASE Refused /\ Keeps
      BY <1>1, RefusedInv
<1>2. ok => s \in open /\ url \in Keys
      BY KeysAreNumbers DEF SessionOk, UrlOk
<1>3. CASE ok /\ url = None /\ PlayAll(s, range)
      BY <1>2, <1>3, PlayAllInv
<1>4. CASE ok /\ url # None /\ PlayOne(s, url, range)
      BY <1>2, <1>4, PlayOneInv DEF TrackOk
<1>5. CASE ok /\ Prepared(Method("PLAY", s, url)) /\ Keeps
      BY <1>2, <1>5, KeepsInv DEF Ops
<1>. QED
  BY <1>1, <1>3, <1>4, <1>5 DEF Play

LEMMA PauseInv ==
  ASSUME IInv, Taken, NEW url \in Urls, NEW s \in SessionIds, Pause(url, s)
  PROVE  IInv'
<1> DEFINE ts == Addressed(s, url)
           lost == {t \in ts : rtp[s][t] = "lost"}
           reached == {t \in ts : \A u \in lost : t < u}
           after == [rtp EXCEPT ![s] = [t \in Keys |->
                       IF t \in reached /\ @[t] = "playing" THEN "paused" ELSE @[t]]]
<1>1. CASE Refused /\ Keeps
      BY <1>1, RefusedInv
<1>2. CASE ~(Refused /\ Keeps)
  <2>1. /\ SessionOk(url, s) /\ rtp' = after
        /\ IF lost = {}
           THEN Prepared(Method("PAUSE", s, url))
           ELSE pc' = "blocked" /\ UNCHANGED <<live, short, todo, socket, told>>
        /\ moved' = {}
        /\ UNCHANGED <<described, open, played, dead, refused>>
        BY <1>2 DEF Pause
  <2>2. s \in open /\ url \in Keys
        BY <2>1, KeysAreNumbers DEF SessionOk, UrlOk
  <2>3. lost # {} => refused
    <3>1. lost \subseteq Keys
          BY DEF Addressed
    <3> HIDE DEF ts
    <3>. QED
      BY <3>1, NoneHeld
  <2>4. rtp \in [SessionIds -> [Keys -> RtpStates]]
        BY DEF IInv, TypeOK
  <2> HIDE DEF lost, reached
  <2>5. /\ rtp' \in [SessionIds -> [Keys -> RtpStates]]
        /\ \A t \in SessionIds, k \in Keys :
             rtp'[t][k] = rtp[t][k] \/ (rtp[t][k] = "playing" /\ rtp'[t][k] = "paused")
        BY <2>1, <2>4 DEF RtpStates
  <2> HIDE DEF after
  <2>6. CASE lost = {}
    <3> DEFINE m == Method("PAUSE", s, url)
    <3>1. m \in TodoType /\ m.op = "PAUSE" /\ m.session = s /\ ~m.freed
          BY <2>2, Methods DEF Ops
    <3>2. Prepared(m)
          BY <2>1, <2>6
    <3> HIDE DEF m
    <3>. QED
      <4>1. \A t \in SessionIds \ open', k \in Keys : ~Has(t, k)'
            BY <2>1, <2>5 DEF IInv, TypeOK, Has
      <4>2. ~refused' => \A t \in SessionIds, k \in Keys :
              rtp'[t][k] # "lost" /\ rtp'[t][k] # "held"
            BY <2>1, <2>5, NoneHeld
      <4>3. /\ s \in open' /\ open' \subseteq SessionIds /\ played' \subseteq open'
            /\ described' \in BOOLEAN /\ refused' \in BOOLEAN
            BY <2>1, <2>2 DEF IInv, TypeOK
      <4>. QED
        BY <2>1, <2>5, <3>1, <3>2, <4>1, <4>2, <4>3, PreparedMethod
  <2>7. CASE lost # {}
    <3>1. refused' /\ pc' = "blocked"
          BY <2>1, <2>3, <2>7
    <3>2. moved' = {} /\ UNCHANGED <<live, short, todo, socket, told, described, open, played, dead, refused>>
          BY <2>1, <2>7
    <3>3. TypeOK'
          BY <2>5, <3>1, <3>2 DEF IInv, TypeOK, Has
    <3>4. TodoInv' /\ HeldInv' /\ BlocksOnlyAfterRefusal'
          BY <3>1 DEF TodoInv, HeldInv, BlocksOnlyAfterRefusal
    <3>. QED
      BY <3>2, <3>3, <3>4 DEF IInv, ShortInv
  <2>. QED
    BY <2>6, <2>7
<1>. QED
  BY <1>1, <1>2

-----------------------------------------------------------------------------
(* The answer, and what is executed after it.                              *)

LEMMA IdleType == Idle \in TodoType /\ Idle.op = "none"
BY KeysAreNumbers DEF Idle, TodoType

LEMMA Answered ==
  ASSUME IInv, NEW op, Answering(op),
         told' \in [SessionIds -> [Keys -> ToldStates]], socket' \in BOOLEAN,
         open' \subseteq SessionIds, played' \subseteq open',
         rtp' \in [SessionIds -> [Keys -> RtpStates]],
         \A s \in SessionIds \ open', k \in Keys : ~Has(s, k)',
         ~refused' => \A s \in SessionIds, k \in Keys : rtp'[s][k] \notin {"held", "lost"}
  PROVE  IInv'
<1> USE DEF Answering
<1>1. TypeOK'
      BY IdleType DEF IInv, TypeOK
<1>2. TodoInv' /\ HeldInv' /\ BlocksOnlyAfterRefusal'
      BY DEF TodoInv, HeldInv, BlocksOnlyAfterRefusal
<1>. QED
  BY <1>1, <1>2 DEF IInv, ShortInv

(* Only a PLAY has times set without a thread while it waits for its reply.*)
LEMMA HeldAreAnswered ==
  ASSUME IInv, pc = "answer", ~refused, NEW s \in SessionIds, NEW k \in Keys
  PROVE  /\ rtp[s][k] # "lost"
         /\ rtp[s][k] = "held" => BeingPlayed(s, k)
BY DEF IInv, HeldInv

(* What an answer tells, session by session.                               *)
LEMMA AnswerTells ==
  ASSUME IInv, Answer
  PROVE  /\ told' \in [SessionIds -> [Keys -> ToldStates]]
         /\ \A s \in SessionIds, k \in Keys :
              told'[s][k] =
                IF todo.op = "SETUP" /\ s = todo.session /\ k = todo.track THEN "set up"
                ELSE IF todo.op = "PAUSE" /\ s = todo.session /\ k \in Addressed(s, todo.track)
                THEN AfterPause(told[s][k]) ELSE told[s][k]
<1>1. told \in [SessionIds -> [Keys -> ToldStates]]
      BY DEF IInv, TypeOK
<1>2. \A x \in ToldStates : AfterPause(x) \in ToldStates
      BY DEF AfterPause, ToldStates
<1>3. CASE todo.op = "SETUP"
  <2>1. told' = [told EXCEPT ![todo.session] =
                   [t \in Keys |-> IF t \in {todo.track} THEN "set up" ELSE @[t]]]
        BY <1>3 DEF Answer, Answering, Tells
  <2>. QED
    BY <1>1, <1>3, <2>1 DEF ToldStates
<1>4. CASE todo.op = "PAUSE"
  <2>1. told' = [told EXCEPT ![todo.session] =
                   [t \in Keys |-> IF t \in Addressed(todo.session, todo.track)
                                   THEN AfterPause(@[t]) ELSE @[t]]]
        BY <1>4 DEF Answer, Answering, Tells
  <2> HIDE DEF Addressed, AfterPause
  <2>. QED
    BY <1>1, <1>2, <1>4, <2>1
<1>5. CASE todo.op \notin {"SETUP", "PAUSE"}
      BY <1>1, <1>5 DEF Answer, Answering
<1>. QED
  BY <1>3, <1>4, <1>5

PlaysNow(known) ==
  IF todo.must \/ known \in {"playing", "paused"} THEN "playing" ELSE "toggled"

LEMMA PlayTells ==
  ASSUME IInv, AnswerPlay
  PROVE  /\ told' \in [SessionIds -> [Keys -> ToldStates]]
         /\ \A s \in SessionIds, k \in Keys :
              told'[s][k] = IF s = todo.session /\ k \in Addressed(s, todo.track)
                            THEN PlaysNow(told[s][k]) ELSE told[s][k]
<1>1. told \in [SessionIds -> [Keys -> ToldStates]]
      BY DEF IInv, TypeOK
<1>2. told' = [told EXCEPT ![todo.session] =
                 [t \in Keys |-> IF t \in Addressed(todo.session, todo.track)
                                 THEN PlaysNow(@[t]) ELSE @[t]]]
      BY DEF AnswerPlay, Tells, PlaysNow
<1>3. \A x \in ToldStates : PlaysNow(x) \in ToldStates
      BY DEF PlaysNow, ToldStates
<1>. QED
  BY <1>1, <1>2, <1>3

LEMMA TeardownTells ==
  ASSUME IInv, AnswerTeardown
  PROVE  /\ told' \in [SessionIds -> [Keys -> ToldStates]]
         /\ \A s \in SessionIds, k \in Keys :
              told'[s][k] = IF s = todo.session /\ todo.track \in {None, k}
                            THEN "none" ELSE told[s][k]
<1>1. told \in [SessionIds -> [Keys -> ToldStates]]
      BY DEF IInv, TypeOK
<1>2. told' = [told EXCEPT ![todo.session] =
                 [t \in Keys |-> IF t \in (IF todo.track = None THEN Keys ELSE {todo.track})
                                 THEN "none" ELSE @[t]]]
      BY DEF AnswerTeardown, Tells
<1>. QED
  BY <1>1, <1>2 DEF ToldStates

LEMMA AnswerInv == IInv /\ Answer => IInv'
<1> SUFFICES ASSUME IInv, Answer PROVE IInv'
    OBVIOUS
<1>1. PICK op \in {"error", "OPTIONS", "DESCRIBE", "SETUP", "PAUSE"} : Answering(op)
      BY DEF Answer
<1>2. UNCHANGED <<open, played, rtp, socket>>
      BY DEF Answer
<1>3. pc = "answer" /\ todo.op # "PLAY" /\ refused' = refused
      BY <1>1 DEF Answering
<1>4. ~refused' => \A s \in SessionIds, k \in Keys : rtp'[s][k] \notin {"held", "lost"}
      BY <1>2, <1>3, HeldAreAnswered DEF BeingPlayed
<1>5. told' \in [SessionIds -> [Keys -> ToldStates]]
      BY AnswerTells
<1>. QED
  BY <1>1, <1>2, <1>4, <1>5, Answered DEF IInv, TypeOK, Has

LEMMA AnswerPlayInv == IInv /\ AnswerPlay => IInv'
<1> SUFFICES ASSUME IInv, AnswerPlay PROVE IInv'
    OBVIOUS
<1> DEFINE s == todo.session
           ts == Addressed(s, todo.track)
           on(state) == IF todo.must THEN PlayEffective(state) ELSE Unpause(state)
<1>1. /\ Answering("PLAY") /\ UNCHANGED <<open, played, socket>>
      /\ rtp' = [rtp EXCEPT ![s] = [t \in Keys |-> IF t \in ts THEN on(@[t]) ELSE @[t]]]
      BY DEF AnswerPlay
<1>2. pc = "answer" /\ todo.op = "PLAY" /\ refused' = refused
      BY <1>1 DEF Answering
<1>3. s \in open /\ s \in SessionIds
      BY <1>2 DEF IInv, TypeOK, TodoInv
<1>4. rtp \in [SessionIds -> [Keys -> RtpStates]]
      BY DEF IInv, TypeOK
<1>5. \A x \in RtpStates : on(x) \in RtpStates
      BY DEF PlayEffective, Unpause, RtpStates
<1>6. \A x \in RtpStates : x # "none" => on(x) # "none"
      BY DEF PlayEffective, Unpause, RtpStates
<1>7. todo.must => \A x \in RtpStates : on(x) = "playing"
      BY DEF PlayEffective
<1>8. ~todo.must => \A x \in RtpStates : x \notin {"held", "lost"} => on(x) \notin {"held", "lost"}
      BY DEF Unpause, RtpStates
<1>9. ts \subseteq Keys /\ \A k \in Keys : k \in ts <=> (Has(s, k) /\ todo.track \in {None, k})
      BY DEF Addressed
<1> HIDE DEF s, ts, on
<1>10. rtp' \in [SessionIds -> [Keys -> RtpStates]]
      BY <1>1, <1>3, <1>4, <1>5
<1>11. \A t \in SessionIds, k \in Keys :
         rtp'[t][k] = IF t = s /\ k \in ts THEN on(rtp[t][k]) ELSE rtp[t][k]
      BY <1>1, <1>3, <1>4
<1>12. \A t \in SessionIds \ open', k \in Keys : ~Has(t, k)'
      BY <1>1, <1>3, <1>11 DEF IInv, TypeOK, Has
<1>13. ASSUME ~refused', NEW t \in SessionIds, NEW k \in Keys
       PROVE  rtp'[t][k] \notin {"held", "lost"}
  <2>1. rtp[t][k] # "lost" /\ (rtp[t][k] = "held" => BeingPlayed(t, k))
        BY <1>2, <1>13, HeldAreAnswered
  <2>2. rtp[t][k] \in RtpStates
        BY <1>4
  <2>3. CASE todo.must
    <3>1. rtp[t][k] = "held" => t = s /\ k \in ts
          BY <1>9, <2>1 DEF BeingPlayed, s, Has
    <3>. QED
      BY <1>7, <1>11, <2>1, <2>2, <2>3, <3>1
  <2>4. CASE ~todo.must
        BY <1>8, <1>11, <2>1, <2>2, <2>4 DEF BeingPlayed
  <2>. QED
    BY <2>3, <2>4
<1>14. /\ told' \in [SessionIds -> [Keys -> ToldStates]] /\ socket' \in BOOLEAN
       /\ open' \subseteq SessionIds /\ played' \subseteq open'
      BY <1>1, PlayTells DEF IInv, TypeOK
<1>. QED
  BY <1>1, <1>10, <1>12, <1>13, <1>14, Answered

LEMMA AnswerTeardownInv == IInv /\ AnswerTeardown => IInv'
<1> SUFFICES ASSUME IInv, AnswerTeardown PROVE IInv'
    OBVIOUS
<1> DEFINE s == todo.session
           k == todo.track
<1>1. /\ Answering("TEARDOWN")
      /\ IF k = None
         THEN removeSession(s)
         ELSE /\ rtp' = [rtp EXCEPT ![s][k] = "none"]
              /\ UNCHANGED <<open, played, socket>>
      BY DEF AnswerTeardown
<1>2. pc = "answer" /\ todo.op = "TEARDOWN" /\ refused' = refused
      BY <1>1 DEF Answering
<1>3. s \in open /\ s \in SessionIds /\ k \in Keys
      BY <1>2 DEF IInv, TypeOK, TodoInv
<1>4. rtp \in [SessionIds -> [Keys -> RtpStates]]
      BY DEF IInv, TypeOK
<1> HIDE DEF s, k
<1>5. /\ rtp' \in [SessionIds -> [Keys -> RtpStates]]
      /\ \A t \in SessionIds, j \in Keys : rtp'[t][j] = rtp[t][j] \/ rtp'[t][j] = "none"
      /\ k = None => \A j \in Keys : rtp'[s][j] = "none"
      BY <1>1, <1>3, <1>4 DEF removeSession, RtpStates
<1>6. ~refused' => \A t \in SessionIds, j \in Keys : rtp'[t][j] \notin {"held", "lost"}
      BY <1>2, <1>5, HeldAreAnswered DEF BeingPlayed
<1>7. /\ told' \in [SessionIds -> [Keys -> ToldStates]] /\ socket' \in BOOLEAN
      /\ open' \subseteq SessionIds /\ played' \subseteq open'
      /\ open' = IF k = None THEN open \ {s} ELSE open
  <2>1. socket \in BOOLEAN /\ open \subseteq SessionIds /\ played \subseteq open
        BY DEF IInv, TypeOK
  <2>2. CASE k = None
        BY <1>1, <2>1, <2>2, TeardownTells DEF removeSession
  <2>3. CASE k # None
        BY <1>1, <2>1, <2>3, TeardownTells
  <2>. QED
    BY <2>2, <2>3
<1>8. \A t \in SessionIds \ open', j \in Keys : ~Has(t, j)'
      BY <1>5, <1>7 DEF IInv, TypeOK, Has
<1>. QED
  BY <1>1, <1>5, <1>6, <1>7, <1>8, Answered

LEMMA AnswerFreedInv == IInv /\ AnswerFreed => IInv'
<1> SUFFICES ASSUME IInv, AnswerFreed PROVE IInv'
    OBVIOUS
<1> USE DEF AnswerFreed
<1>1. TypeOK'
      BY IdleType DEF IInv, TypeOK, Has
<1>2. TodoInv'
      BY IdleType DEF TodoInv
<1>3. \A s \in SessionIds, k \in Keys : ~refused => rtp[s][k] \notin {"held", "lost"}
      BY HeldAreAnswered DEF BeingPlayed
<1>4. HeldInv' /\ BlocksOnlyAfterRefusal'
      BY <1>3 DEF HeldInv, BlocksOnlyAfterRefusal
<1>. QED
  BY <1>1, <1>2, <1>4 DEF IInv, ShortInv

LEMMA LeaveInv == IInv /\ (ReplyFails \/ ListenEnds) => IInv'
<1> SUFFICES ASSUME IInv, ReplyFails \/ ListenEnds PROVE IInv'
    OBVIOUS
<1>1. /\ pc' = "closing"
      /\ UNCHANGED <<live, short, described, open, played, rtp, todo, socket, dead, told,
                     refused, moved>>
      BY DEF ReplyFails, ListenEnds
<1>2. pc \in {"answer", "listen"}
      BY DEF ReplyFails, ListenEnds
<1>3. TypeOK'
      BY <1>1 DEF IInv, TypeOK, Has
<1>4. TodoInv' /\ HeldInv' /\ BlocksOnlyAfterRefusal'
      BY <1>1 DEF IInv, TodoInv, HeldInv, BlocksOnlyAfterRefusal
<1>. QED
  BY <1>1, <1>3, <1>4 DEF IInv, ShortInv

LEMMA ShutdownInv == IInv /\ Shutdown => IInv'
<1> SUFFICES ASSUME IInv, Shutdown PROVE IInv'
    OBVIOUS
<1> USE DEF Shutdown
<1>1. rtp' \in [SessionIds -> [Keys -> RtpStates]]
      BY DEF RtpStates
<1>2. \A s \in SessionIds, k \in Keys : rtp'[s][k] = "none"
      OBVIOUS
<1>3. TypeOK'
      BY <1>1, <1>2 DEF IInv, TypeOK, Has, releaseDescriptors
<1>4. TodoInv' /\ HeldInv' /\ BlocksOnlyAfterRefusal'
      BY <1>2 DEF TodoInv, HeldInv, BlocksOnlyAfterRefusal
<1>. QED
  BY <1>3, <1>4 DEF IInv, ShortInv

LEMMA StreamEndsInv ==
  ASSUME IInv, NEW s \in SessionIds, NEW k \in Keys, StreamEnds(s, k)
  PROVE  IInv'
<1>1. /\ rtp' = [rtp EXCEPT ![s][k] = "over"] /\ rtp[s][k] = "playing"
      /\ UNCHANGED <<live, short, described, open, played, pc, todo, socket, dead, told,
                     refused, moved>>
      BY DEF StreamEnds
<1>2. rtp \in [SessionIds -> [Keys -> RtpStates]]
      BY DEF IInv, TypeOK
<1>3. rtp' \in [SessionIds -> [Keys -> RtpStates]]
      BY <1>1, <1>2 DEF RtpStates
<1>4. \A t \in SessionIds, j \in Keys :
        rtp'[t][j] = rtp[t][j] \/ (rtp[t][j] = "playing" /\ rtp'[t][j] = "over")
      BY <1>1, <1>2
<1>5. \A t \in SessionIds, j \in Keys : Has(t, j)' <=> Has(t, j)
      BY <1>4 DEF Has
<1>6. TypeOK'
      BY <1>1, <1>3, <1>5 DEF IInv, TypeOK
<1>7. TodoInv'
      BY <1>1, <1>5 DEF IInv, TypeOK, TodoInv, TrackOk
<1>8. HeldInv' /\ BlocksOnlyAfterRefusal'
      BY <1>1, <1>4 DEF IInv, HeldInv, BeingPlayed, BlocksOnlyAfterRefusal
<1>. QED
  BY <1>1, <1>6, <1>7, <1>8 DEF IInv, ShortInv

-----------------------------------------------------------------------------
LEMMA HandleInv == IInv /\ Handle => IInv'
<1> SUFFICES ASSUME IInv, Handle PROVE IInv'
    OBVIOUS
<1>1. Taken
      BY DEF Handle
<1>2. CASE Options
      BY <1>2, OptionsInv
<1>3. CASE \E url \in Urls, ok \in BOOLEAN : Describe(url, ok)
      BY <1>3, DescribeInv
<1>4. CASE \E url \in Urls, id \in SessionIds \cup {None}, offers \in OfferLists :
             Setup(url, id, offers)
      BY <1>4, SetupInv
<1>5. CASE \E url \in Urls, s \in SessionIds, range \in Ranges, scale \in Scales :
             Play(url, s, range, scale)
      BY <1>1, <1>5, PlayInv
<1>6. CASE \E url \in Urls, s \in SessionIds : Pause(url, s) \/ Teardown(url, s)
      BY <1>1, <1>6, PauseInv, TeardownInv
<1>. QED
  BY <1>2, <1>3, <1>4, <1>5, <1>6 DEF Handle

LEMMA NextInv == IInv /\ [Next]_vars => IInv'
<1> SUFFICES ASSUME IInv, [Next]_vars PROVE IInv'
    OBVIOUS
<1>1. CASE Handle
      BY <1>1, HandleInv
<1>2. CASE Execute
      BY <1>2, AnswerInv, AnswerPlayInv, AnswerTeardownInv, AnswerFreedInv, LeaveInv DEF Execute
<1>3. CASE ListenEnds
      BY <1>3, LeaveInv
<1>4. CASE Shutdown
      BY <1>4, ShutdownInv
<1>5. CASE \E s \in SessionIds, k \in Keys : StreamEnds(s, k)
      BY <1>5, StreamEndsInv
<1>6. CASE UNCHANGED vars
  <2>1. TypeOK'
        BY <1>6 DEF vars, IInv, TypeOK, Has
  <2>2. TodoInv' /\ HeldInv' /\ BlocksOnlyAfterRefusal'
        BY <1>6 DEF vars, IInv, TodoInv, TrackOk, Has, HeldInv, BeingPlayed, BlocksOnlyAfterRefusal
  <2>. QED
    BY <1>6, <2>1, <2>2 DEF vars, IInv, ShortInv
<1>. QED
  BY <1>1, <1>2, <1>3, <1>4, <1>5, <1>6 DEF Next

(* The inductive invariant holds throughout (RtspConnection's listen).     *)
THEOREM Invariance == Spec => []IInv
BY InitInv, NextInv, PTL DEF Spec

(* Sessions, flags and the method in hand stay in range (Connection).      *)
THEOREM TypeCorrect == Spec => []TypeOK
BY Invariance, PTL DEF IInv

(* A PAUSE waits for a thread that does not exist only where a first PLAY  *)
(* has been refused half way (RTP::Session::pause, doFirstPlay).           *)
THEOREM BlocksAfterRefusal == Spec => []BlocksOnlyAfterRefusal
BY Invariance, PTL DEF IInv

-----------------------------------------------------------------------------
(* What the server has told, and where it is.                              *)

(* Between prepare and the answer a SETUP has made an RTP session that the *)
(* client does not know of, and a PAUSE has put to sleep what it still     *)
(* takes to play; the answer will tell.                                    *)
Expected(s, k) ==
  IF pc = "answer" /\ todo.op = "SETUP" /\ ~todo.freed /\ s = todo.session /\ k = todo.track
    THEN "set up"
  ELSE IF pc = "answer" /\ todo.op = "PAUSE" /\ s = todo.session /\ todo.track \in {None, k}
    THEN AfterPause(told[s][k])
  ELSE told[s][k]

AgreeInv ==
  pc \in {"listen", "answer"} =>
    \A s \in SessionIds, k \in Keys : rtp[s][k] \in Means(Expected(s, k))

(* States that a request or a stream reaches without an answer.            *)
LEMMA MeansFacts ==
  ASSUME NEW known \in ToldStates
  PROVE  /\ "stopped" \in Means(known) => "held" \in Means(known)
         /\ "playing" \in Means(known) => "over" \in Means(known)
         /\ Means(AfterPause(known)) \cap {"playing"} = {}
BY DEF Means, AfterPause, ToldStates

LEMMA Typed ==
  ASSUME IInv, NEW s \in SessionIds, NEW k \in Keys
  PROVE  told[s][k] \in ToldStates /\ rtp[s][k] \in RtpStates
BY DEF IInv, TypeOK

LEMMA AgreeListening ==
  ASSUME AgreeInv, Taken, NEW s \in SessionIds, NEW k \in Keys
  PROVE  rtp[s][k] \in Means(told[s][k])
BY DEF AgreeInv, Expected, Taken

(* A request that sets times at most, or does nothing before its answer.   *)
LEMMA PreparedAgrees ==
  ASSUME IInv, AgreeInv, NEW m, Prepared(m), m.op \notin {"SETUP", "PAUSE"},
         \A s \in SessionIds, k \in Keys :
           rtp'[s][k] = rtp[s][k] \/ (rtp[s][k] = "stopped" /\ rtp'[s][k] = "held")
  PROVE  AgreeInv'
<1> SUFFICES ASSUME NEW s \in SessionIds, NEW k \in Keys
             PROVE  rtp'[s][k] \in Means(Expected(s, k)')
    BY DEF AgreeInv
<1>1. Taken /\ pc' = "answer" /\ todo' = m /\ told' = told
      BY DEF Prepared
<1>2. Expected(s, k)' = told[s][k]
      BY <1>1 DEF Expected
<1>3. rtp[s][k] \in Means(told[s][k]) /\ told[s][k] \in ToldStates
      BY <1>1, AgreeListening, Typed
<1>. QED
  BY <1>2, <1>3, MeansFacts

LEMMA RefusedAgrees ==
  ASSUME IInv, AgreeInv, Refused,
         \A s \in SessionIds, k \in Keys :
           rtp'[s][k] = rtp[s][k] \/ (rtp[s][k] = "stopped" /\ rtp'[s][k] = "held")
  PROVE  AgreeInv'
<1> DEFINE m == Method("error", None, None)
<1>1. m.op = "error"
      BY Methods, KeysAreNumbers DEF Ops
<1>2. Prepared(m)
      BY DEF Refused
<1> HIDE DEF m
<1>. QED
  BY <1>1, <1>2, PreparedAgrees

LEMMA SetupAgrees ==
  ASSUME IInv, AgreeInv, NEW url \in Urls, NEW id \in SessionIds \cup {None},
         NEW offers \in OfferLists, Setup(url, id, offers)
  PROVE  AgreeInv'
<1>1. CASE Refused /\ UNCHANGED rtp
      BY <1>1, RefusedAgrees
<1>2. CASE ~(Refused /\ UNCHANGED rtp)
  <2>1. PICK s \in SetupIds(id) : UrlOk(url) /\ createSession(s, url)
        BY <1>2 DEF Setup, Keeps
  <2>2. s \in SessionIds /\ url \in Keys
        BY <2>1, KeysAreNumbers DEF SetupIds, UrlOk
  <2> DEFINE b == rtp[s][url] # "none"
             m == [Method("SETUP", s, url) EXCEPT !.freed = b]
  <2>3. m.op = "SETUP" /\ m.session = s /\ m.track = url /\ m.freed = b
    <3>1. LET p == Method("SETUP", s, url) IN
          p \in TodoType /\ p.op = "SETUP" /\ p.session = s /\ p.track = url
          BY <2>2, Methods DEF Ops
    <3>2. b \in BOOLEAN
          OBVIOUS
    <3>. QED
      BY <3>1, <3>2 DEF TodoType
  <2>4. Prepared(m) /\ rtp' = IF b THEN rtp ELSE [rtp EXCEPT ![s][url] = "stopped"]
        BY <2>1 DEF createSession
  <2> HIDE DEF m, b
  <2> SUFFICES ASSUME NEW t \in SessionIds, NEW k \in Keys
               PROVE  rtp'[t][k] \in Means(Expected(t, k)')
      BY DEF AgreeInv
  <2>5. Taken /\ pc' = "answer" /\ todo' = m /\ told' = told
        BY <2>4 DEF Prepared
  <2>6. rtp \in [SessionIds -> [Keys -> RtpStates]]
        BY DEF IInv, TypeOK
  <2>7. CASE ~b /\ t = s /\ k = url
        BY <2>2, <2>3, <2>4, <2>5, <2>6, <2>7 DEF Expected, Means
  <2>8. CASE b \/ t # s \/ k # url
    <3>1. Expected(t, k)' = told[t][k]
          BY <2>3, <2>5, <2>8 DEF Expected
    <3>2. rtp'[t][k] = rtp[t][k]
          BY <2>2, <2>4, <2>6, <2>8
    <3>. QED
      BY <2>5, <3>1, <3>2, AgreeListening
  <2>. QED
    BY <2>7, <2>8
<1>. QED
  BY <1>1, <1>2

LEMMA PlayAgrees ==
  ASSUME IInv, AgreeInv, NEW url \in Urls, NEW s \in SessionIds, NEW range, NEW scale,
         Taken, Play(url, s, range, scale)
  PROVE  AgreeInv'
<1>1. CASE Refused /\ Keeps
      BY <1>1, RefusedAgrees DEF Keeps
<1>2. CASE url = None /\ PlayAll(s, range)
  <2>1. \A t \in SessionIds, k \in Keys :
          rtp'[t][k] = rtp[t][k] \/ (rtp[t][k] = "stopped" /\ rtp'[t][k] = "held")
        BY <1>2, SetTimesFacts DEF PlayAll, Keeps
  <2>2. CASE Refused
        BY <2>1, <2>2, RefusedAgrees
  <2>3. CASE ~Refused
    <3> DEFINE m == [Method("PLAY", s, None) EXCEPT !.must = TRUE]
    <3>1. Prepared(m)
          BY <1>2, <2>3 DEF PlayAll
    <3>2. LET p == Method("PLAY", s, None) IN p \in TodoType /\ p.op = "PLAY"
          BY Methods, KeysAreNumbers DEF Ops
    <3>3. m.op = "PLAY"
          BY <3>2, Excepted
    <3> HIDE DEF m
    <3>. QED
      BY <2>1, <3>1, <3>3, PreparedAgrees
  <2>. QED
    BY <2>2, <2>3
<1>3. CASE url \in Keys /\ PlayOne(s, url, range)
  <2>1. CASE dead' = "unexpected"
    <3>1. UNCHANGED <<rtp, pc, todo, told>>
          BY <1>3, <2>1 DEF PlayOne, Prepared, Taken
    <3>. QED
      BY <3>1 DEF AgreeInv, Expected
  <2>2. CASE dead' # "unexpected"
    <3> DEFINE m == [Method("PLAY", s, url) EXCEPT !.must = TRUE]
    <3>1. Prepared(m) /\ rtp' = SetTimes(s, {url})
          BY <1>3, <2>2 DEF PlayOne
    <3>2. LET p == Method("PLAY", s, url) IN p \in TodoType /\ p.op = "PLAY"
          BY <1>3, Methods DEF Ops
    <3>3. m.op = "PLAY"
          BY <3>2, Excepted
    <3>4. \A t \in SessionIds, k \in Keys :
            rtp'[t][k] = rtp[t][k] \/ (rtp[t][k] = "stopped" /\ rtp'[t][k] = "held")
          BY <3>1, SetTimesFacts
    <3> HIDE DEF m
    <3>. QED
      BY <3>1, <3>3, <3>4, PreparedAgrees
  <2>. QED
    BY <2>1, <2>2
<1>4. CASE url \in Keys /\ Prepared(Method("PLAY", s, url)) /\ Keeps
  <2> DEFINE m == Method("PLAY", s, url)
  <2>1. Prepared(m) /\ rtp' = rtp
        BY <1>4 DEF Keeps
  <2>2. m.op = "PLAY"
        BY <1>4, Methods DEF Ops
  <2> HIDE DEF m
  <2>. QED
    BY <2>1, <2>2, PreparedAgrees
<1>5. SessionOk(url, s) => url \in Keys
      BY KeysAreNumbers DEF SessionOk, UrlOk
<1>. QED
  BY <1>1, <1>2, <1>3, <1>4, <1>5 DEF Play

LEMMA PauseAgrees ==
  ASSUME IInv, AgreeInv, Taken, NEW url \in Urls, NEW s \in SessionIds, Pause(url, s)
  PROVE  AgreeInv'
<1> DEFINE ts == Addressed(s, url)
           lost == {t \in ts : rtp[s][t] = "lost"}
           reached == {t \in ts : \A u \in lost : t < u}
           m == Method("PAUSE", s, url)
<1>1. CASE Refused /\ Keeps
      BY <1>1, RefusedAgrees DEF Keeps
<1>2. CASE pc' = "blocked"
      BY <1>2 DEF AgreeInv
<1>3. CASE ~(Refused /\ Keeps) /\ pc' # "blocked"
  <2>1. /\ SessionOk(url, s) /\ lost = {} /\ Prepared(m)
        /\ rtp' = [rtp EXCEPT ![s] = [t \in Keys |->
                     IF t \in reached /\ @[t] = "playing" THEN "paused" ELSE @[t]]]
        BY <1>3 DEF Pause
  <2>2. reached = ts
        BY <2>1
  <2>3. url \in Keys
        BY <2>1, KeysAreNumbers DEF SessionOk, UrlOk
  <2>4. m.op = "PAUSE" /\ m.session = s /\ m.track = url
        BY <2>3, Methods DEF Ops
  <2>5. pc' = "answer" /\ todo' = m /\ told' = told
        BY <2>1 DEF Prepared
  <2>6. rtp \in [SessionIds -> [Keys -> RtpStates]]
        BY DEF IInv, TypeOK
  <2>7. \A k \in Keys : rtp[s][k] # "none" =>
          (k \in ts <=> url \in {None, k}) /\ (k \in ts => rtp[s][k] # "lost")
        BY <2>1 DEF Addressed, Has
  <2>8. \A t \in SessionIds, k \in Keys :
          rtp'[t][k] = IF t = s /\ k \in ts /\ rtp[t][k] = "playing" THEN "paused" ELSE rtp[t][k]
        BY <2>1, <2>2, <2>6
  <2> HIDE DEF m, ts, lost, reached
  <2> SUFFICES ASSUME NEW t \in SessionIds, NEW k \in Keys
               PROVE  rtp'[t][k] \in Means(Expected(t, k)')
      BY DEF AgreeInv
  <2>9. rtp[t][k] \in Means(told[t][k]) /\ told[t][k] \in ToldStates
        BY AgreeListening, Typed
  <2>10. Expected(t, k)' = IF t = s /\ url \in {None, k} THEN AfterPause(told[t][k]) ELSE told[t][k]
        BY <2>4, <2>5 DEF Expected
  <2>11. rtp[t][k] = "none" => told[t][k] = "none" /\ rtp'[t][k] = "none"
        BY <2>8, <2>9 DEF Means, ToldStates
  <2>12. CASE rtp[t][k] = "none"
        BY <2>10, <2>11, <2>12 DEF AfterPause, Means
  <2>13. CASE rtp[t][k] # "none" /\ t = s /\ k \in ts
        BY <2>7, <2>8, <2>9, <2>10, <2>13 DEF AfterPause, Means, ToldStates
  <2>14. CASE rtp[t][k] # "none" /\ ~(t = s /\ k \in ts)
        BY <2>7, <2>8, <2>9, <2>10, <2>14
  <2>. QED
    BY <2>12, <2>13, <2>14
<1>. QED
  BY <1>1, <1>2, <1>3

LEMMA HandleAgrees == IInv /\ AgreeInv /\ Handle => AgreeInv'
<1> SUFFICES ASSUME IInv, AgreeInv, Handle PROVE AgreeInv'
    OBVIOUS
<1>0. Taken
      BY DEF Handle
<1>1. CASE Options
  <2> DEFINE m == Method("OPTIONS", None, None)
  <2>1. CASE Refused /\ Keeps
        BY <2>1, RefusedAgrees DEF Keeps
  <2>2. CASE Prepared(m) /\ Keeps
    <3>1. m.op = "OPTIONS"
          BY Methods, KeysAreNumbers DEF Ops
    <3>2. Prepared(m) /\ rtp' = rtp
          BY <2>2 DEF Keeps
    <3> HIDE DEF m
    <3>. QED
      BY <3>1, <3>2, PreparedAgrees
  <2>. QED
    BY <1>1, <2>1, <2>2 DEF Options
<1>2. CASE \E url \in Urls, ok \in BOOLEAN : Describe(url, ok)
  <2>1. CASE Refused /\ Keeps
        BY <2>1, RefusedAgrees DEF Keeps
  <2>2. CASE ~(Refused /\ Keeps)
    <3> DEFINE p == Method("DESCRIBE", None, None)
               m == [p EXCEPT !.freed = described]
    <3>1. Prepared(m) /\ rtp' = rtp
          BY <1>2, <2>2 DEF Describe, loadDescription
    <3>2. p \in TodoType /\ p.op = "DESCRIBE"
          BY Methods, KeysAreNumbers DEF Ops
    <3>3. described \in BOOLEAN
          BY DEF IInv, TypeOK
    <3>4. m.op = "DESCRIBE"
          BY <3>2, <3>3, Excepted
    <3> HIDE DEF m, p
    <3>. QED
      BY <3>1, <3>4, PreparedAgrees
  <2>. QED
    BY <2>1, <2>2
<1>3. CASE \E url \in Urls, id \in SessionIds \cup {None}, offers \in OfferLists :
             Setup(url, id, offers)
      BY <1>3, SetupAgrees
<1>4. CASE \E url \in Urls, s \in SessionIds, range \in Ranges, scale \in Scales :
             Play(url, s, range, scale)
      BY <1>0, <1>4, PlayAgrees
<1>5. CASE \E url \in Urls, s \in SessionIds : Pause(url, s)
      BY <1>0, <1>5, PauseAgrees
<1>6. CASE \E url \in Urls, s \in SessionIds : Teardown(url, s)
  <2>1. PICK url \in Urls, s \in SessionIds : Teardown(url, s)
        BY <1>6
  <2> DEFINE m == Method("TEARDOWN", s, url)
  <2>2. CASE Refused /\ Keeps
        BY <2>2, RefusedAgrees DEF Keeps
  <2>3. CASE SessionOk(url, s) /\ Prepared(m) /\ Keeps
    <3>1. url \in Keys
          BY <2>3, KeysAreNumbers DEF SessionOk, UrlOk
    <3>2. m.op = "TEARDOWN"
          BY <3>1, Methods DEF Ops
    <3>3. Prepared(m) /\ rtp' = rtp
          BY <2>3 DEF Keeps
    <3> HIDE DEF m
    <3>. QED
      BY <3>2, <3>3, PreparedAgrees
  <2>. QED
    BY <2>1, <2>2, <2>3 DEF Teardown
<1>. QED
  BY <1>1, <1>2, <1>3, <1>4, <1>5, <1>6 DEF Handle

(* The answer tells what was done.                                         *)
LEMMA AnswerAgrees == IInv /\ AgreeInv /\ Answer => AgreeInv'
<1> SUFFICES ASSUME IInv, AgreeInv, Answer, NEW s \in SessionIds, NEW k \in Keys
             PROVE  rtp'[s][k] \in Means(Expected(s, k)')
    BY DEF AgreeInv
<1>1. PICK op : Answering(op) /\ op \in {"error", "OPTIONS", "DESCRIBE", "SETUP", "PAUSE"}
      BY DEF Answer
<1>2. pc = "answer" /\ todo.op = op /\ ~todo.freed /\ pc' = "listen" /\ rtp' = rtp
      BY <1>1 DEF Answering, Answer
<1>3. Expected(s, k)' = told'[s][k]
      BY <1>2 DEF Expected
<1>4. rtp[s][k] \in Means(Expected(s, k))
      BY <1>2 DEF AgreeInv
<1>5. CASE rtp[s][k] # "none"
  <2>1. k \in Addressed(s, todo.track) <=> todo.track \in {None, k}
        BY <1>5 DEF Addressed, Has
  <2>2. told'[s][k] = Expected(s, k)
        BY <1>2, <2>1, AnswerTells DEF Expected
  <2>. QED
    BY <1>2, <1>3, <1>4, <2>2
<1>6. CASE rtp[s][k] = "none"
  <2>1. k \notin Addressed(s, todo.track)
        BY <1>6 DEF Addressed, Has
  <2>2. told[s][k] \in ToldStates
        BY Typed
  <2>3. ~(op = "SETUP" /\ s = todo.session /\ k = todo.track)
        BY <1>2, <1>4, <1>6 DEF Expected, Means
  <2>4. told'[s][k] = told[s][k]
        BY <1>2, <2>1, <2>3, AnswerTells
  <2>5. "none" \in Means(told[s][k])
        BY <1>2, <1>4, <1>6, <2>2, <2>3 DEF Expected, AfterPause, Means, ToldStates
  <2>. QED
    BY <1>2, <1>3, <1>6, <2>4, <2>5
<1>. QED
  BY <1>5, <1>6

LEMMA AnswerPlayAgrees == IInv /\ AgreeInv /\ AnswerPlay => AgreeInv'
<1> SUFFICES ASSUME IInv, AgreeInv, AnswerPlay, NEW s \in SessionIds, NEW k \in Keys
             PROVE  rtp'[s][k] \in Means(Expected(s, k)')
    BY DEF AgreeInv
<1>1. pc = "answer" /\ todo.op = "PLAY" /\ pc' = "listen"
      BY DEF AnswerPlay, Answering
<1>2. Expected(s, k)' = told'[s][k] /\ Expected(s, k) = told[s][k]
      BY <1>1 DEF Expected
<1>3. rtp[s][k] \in Means(told[s][k]) /\ told[s][k] \in ToldStates /\ rtp[s][k] \in RtpStates
      BY <1>1, <1>2, Typed DEF AgreeInv
<1>4. rtp'[s][k] = IF s = todo.session /\ k \in Addressed(s, todo.track)
                   THEN IF todo.must THEN PlayEffective(rtp[s][k]) ELSE Unpause(rtp[s][k])
                   ELSE rtp[s][k]
  <2>1. rtp \in [SessionIds -> [Keys -> RtpStates]]
        BY DEF IInv, TypeOK
  <2>. QED
    BY <2>1 DEF AnswerPlay
<1>5. CASE ~(s = todo.session /\ k \in Addressed(s, todo.track))
      BY <1>2, <1>3, <1>4, <1>5, PlayTells
<1>6. CASE s = todo.session /\ k \in Addressed(s, todo.track)
  <2>1. told'[s][k] = PlaysNow(told[s][k])
        BY <1>6, PlayTells
  <2>2. rtp[s][k] # "none"
        BY <1>6 DEF Addressed, Has
  <2>3. CASE todo.must
        BY <1>2, <1>4, <1>6, <2>1, <2>3 DEF PlaysNow, PlayEffective, Means
  <2>4. CASE ~todo.must
        BY <1>2, <1>3, <1>4, <1>6, <2>1, <2>2, <2>4 DEF PlaysNow, Unpause, Means, ToldStates
  <2>. QED
    BY <2>3, <2>4
<1>. QED
  BY <1>5, <1>6

LEMMA AnswerTeardownAgrees == IInv /\ AgreeInv /\ AnswerTeardown => AgreeInv'
<1> SUFFICES ASSUME IInv, AgreeInv, AnswerTeardown, NEW s \in SessionIds, NEW k \in Keys
             PROVE  rtp'[s][k] \in Means(Expected(s, k)')
    BY DEF AgreeInv
<1>1. pc = "answer" /\ todo.op = "TEARDOWN" /\ pc' = "listen"
      BY DEF AnswerTeardown, Answering
<1>2. Expected(s, k)' = told'[s][k] /\ Expected(s, k) = told[s][k]
      BY <1>1 DEF Expected
<1>3. rtp[s][k] \in Means(told[s][k])
      BY <1>1, <1>2 DEF AgreeInv
<1>4. rtp'[s][k] = IF s = todo.session /\ todo.track \in {None, k} THEN "none" ELSE rtp[s][k]
  <2>1. rtp \in [SessionIds -> [Keys -> RtpStates]]
        BY DEF IInv, TypeOK
  <2>2. todo.session \in SessionIds /\ todo.track \in Keys
        BY <1>1 DEF IInv, TypeOK, TodoInv
  <2>3. CASE todo.track = None
    <3>1. rtp' = [rtp EXCEPT ![todo.session] = [j \in Keys |-> "none"]]
          BY <2>3 DEF AnswerTeardown, removeSession
    <3>. QED
      BY <2>1, <2>2, <2>3, <3>1
  <2>4. CASE todo.track # None
        BY <2>1, <2>2, <2>4 DEF AnswerTeardown
  <2>. QED
    BY <2>3, <2>4
<1>. QED
  BY <1>2, <1>3, <1>4, TeardownTells DEF Means

LEMMA NextAgrees == IInv /\ AgreeInv /\ [Next]_vars => AgreeInv'
<1> SUFFICES ASSUME IInv, AgreeInv, [Next]_vars PROVE AgreeInv'
    OBVIOUS
<1>1. CASE Handle
      BY <1>1, HandleAgrees
<1>2. CASE Answer \/ AnswerPlay \/ AnswerTeardown
      BY <1>2, AnswerAgrees, AnswerPlayAgrees, AnswerTeardownAgrees
<1>3. CASE AnswerFreed
  <2>1. /\ pc = "answer" /\ todo.freed /\ todo' = Idle /\ pc' \in {"listen", "answer"}
        /\ UNCHANGED <<rtp, told>>
        BY <1>3 DEF AnswerFreed
  <2>2. todo.op # "PAUSE"
        BY <2>1 DEF IInv, TodoInv
  <2>3. \A s \in SessionIds, k \in Keys :
          Expected(s, k)' = told[s][k] /\ Expected(s, k) = told[s][k]
        BY <2>1, <2>2, IdleType DEF Expected
  <2>. QED
    BY <2>1, <2>3 DEF AgreeInv
<1>4. CASE ReplyFails \/ ListenEnds \/ Shutdown
      BY <1>4 DEF ReplyFails, ListenEnds, Shutdown, AgreeInv
<1>5. CASE \E s \in SessionIds, k \in Keys : StreamEnds(s, k)
  <2>1. PICK s \in SessionIds, k \in Keys : StreamEnds(s, k)
        BY <1>5
  <2> SUFFICES ASSUME pc \in {"listen", "answer"}, NEW t \in SessionIds, NEW j \in Keys
               PROVE  rtp'[t][j] \in Means(Expected(t, j)')
      BY <2>1 DEF AgreeInv, StreamEnds
  <2>2. rtp'[t][j] = rtp[t][j] \/ (rtp[t][j] = "playing" /\ rtp'[t][j] = "over")
    <3>1. rtp \in [SessionIds -> [Keys -> RtpStates]]
          BY DEF IInv, TypeOK
    <3>. QED
      BY <2>1, <3>1 DEF StreamEnds
  <2>3. Expected(t, j)' = Expected(t, j)
        BY <2>1 DEF StreamEnds, Expected
  <2>4. rtp[t][j] \in Means(Expected(t, j))
        BY DEF AgreeInv
  <2>5. Expected(t, j) \in ToldStates
        BY Typed DEF Expected, AfterPause, ToldStates
  <2>. QED
    BY <2>2, <2>3, <2>4, <2>5, MeansFacts
<1>6. CASE UNCHANGED vars
      BY <1>6 DEF vars, AgreeInv, Expected
<1>. QED
  BY <1>1, <1>2, <1>3, <1>4, <1>5, <1>6 DEF Next, Execute

LEMMA InitAgrees == Init => AgreeInv
BY DEF Init, AgreeInv, Expected, Means

LEMMA AgreeImplies == AgreeInv => AsTold
BY DEF AgreeInv, AsTold, Expected

(* Between two requests every RTP session is where the answers have told   *)
(* the client (prepare, the reply, execute; RTP::Session's play, pause).   *)
THEOREM KeepsItsWord == Spec => []AsTold
BY Invariance, InitAgrees, NextAgrees, AgreeImplies, PTL DEF Spec

-----------------------------------------------------------------------------
(* What a refusal has done.                                                *)

LEMMA AllOrNothingStep ==
  ASSUME IInv, [Next]_vars
  PROVE  [(pc = "listen" /\ pc' = "answer" /\ todo'.op = "error" /\ moved' # {}) =>
            \E s \in SessionIds, k \in short : rtp[s][k] = "stopped"]_vars
<1> SUFFICES ASSUME Next, pc = "listen", pc' = "answer", todo'.op = "error", moved' # {}
             PROVE  \E s \in SessionIds, k \in short : rtp[s][k] = "stopped"
    OBVIOUS
<1>1. Handle
      BY DEF Next, Execute, Answer, AnswerPlay, AnswerTeardown, Answering, AnswerFreed, ReplyFails,
             ListenEnds, Shutdown, StreamEnds
<1>2. PICK url \in Urls, s \in SessionIds, range \in Ranges, scale \in Scales :
        Play(url, s, range, scale)
      BY <1>1 DEF Handle, Options, Describe, Setup, Pause, Teardown, Keeps
<1>3. PlayAll(s, range) \/ (PlayOne(s, url, range) /\ s \in open /\ url \in Keys)
      BY <1>2, KeysAreNumbers DEF Play, Keeps, SessionOk, UrlOk
<1>4. ~(PlayOne(s, url, range) /\ s \in open /\ url \in Keys)
  <2> SUFFICES ASSUME PlayOne(s, url, range), url \in Keys PROVE FALSE
      OBVIOUS
  <2>1. todo' = [Method("PLAY", s, url) EXCEPT !.must = TRUE]
        BY DEF PlayOne, Prepared
  <2>2. LET p == Method("PLAY", s, url) IN p \in TodoType /\ p.op = "PLAY"
        BY Methods DEF Ops
  <2>3. todo'.op = "PLAY"
        BY <2>1, <2>2, Excepted
  <2>. QED
    BY <2>3
<1>5. PlayAll(s, range)
      BY <1>3, <1>4
<1> DEFINE no == {t \in Addressed(s, None) : Refuses(t, range)}
<1>6. Eval(s, range)
      BY <1>5 DEF PlayAll, Keeps
<1>7. no # {}
  <2> SUFFICES ASSUME no = {} PROVE FALSE
      OBVIOUS
  <2>1. todo' = [Method("PLAY", s, None) EXCEPT !.must = TRUE]
        BY <1>5, <1>6 DEF PlayAll, Prepared
  <2>2. LET p == Method("PLAY", s, None) IN p \in TodoType /\ p.op = "PLAY"
        BY Methods, KeysAreNumbers DEF Ops
  <2>3. todo'.op = "PLAY"
        BY <2>1, <2>2, Excepted
  <2>. QED
    BY <2>3
<1>. QED
  BY <1>6, <1>7, FirstRefuses

(* An aggregate PLAY that is refused has moved no track, but where the one *)
(* that refuses had never played (RTSP::Session::play, eval).              *)
THEOREM AllOrNone == Spec => AllOrNothing
BY Invariance, AllOrNothingStep, PTL DEF Spec, AllOrNothing

=============================================================================
