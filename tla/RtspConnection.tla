--------------------------- MODULE RtspConnection ---------------------------
(***************************************************************************)
(* One RTSP connection: its thread takes a request, prepares what the      *)
(* method does, answers, and only then executes the rest (rtsp/method.cpp, *)
(* Socket::reply).  The connection keeps RTSP sessions by id, each of      *)
(* which keeps RTP sessions by track, and the description of the file.     *)
(* All of a request happens under the lock of the connection; what comes   *)
(* in between is the failure of a reply, and streams that end.             *)
(*                                                                         *)
(* Abstracted: one file is there and any other is not; a header is what    *)
(* the code finds in it; a range is misordered, or within every medium, or *)
(* beyond the end of the short ones.  Errors are not told apart.  An RTP   *)
(* session is what RtpSession says of it between two requests.             *)
(***************************************************************************)
EXTENDS Naturals, Sequences, FiniteSets

CONSTANTS
  Tracks,       (* the media of the file, 1, 2, ...                        *)
  SessionIds,   (* ids of RTSP sessions, without 0                         *)
  MaxRtp        (* bound on the RTP sessions of the connection             *)

ASSUME TracksAssumption == Tracks \subseteq Nat \ {0}

ASSUME IdsAssumption == SessionIds \subseteq Nat \ {0}

VARIABLES
  live,       (* is the file a live cast? *)
  short,      (* the track that ends before the far range, if any *)
  described,  (* _descriptors holds the file *)
  open,       (* keys of Connection::_sessions *)
  played,     (* those whose _playIssued is set *)
  rtp,        (* RTSP::Session::_sessions, by session and track *)
  pc,         (* where the thread of the connection is *)
  todo,       (* the method between prepare and execute *)
  socket,     (* is the RTSP socket open? *)
  dead,       (* what has ended the process: an unexpected exception, *)
              (* memory used after it was freed, or nothing yet *)
  told,       (* history: what the answers have told the client of every *)
              (* RTP session *)
  refused,    (* history: a first PLAY has been refused half way *)
  moved       (* history: RTP sessions the request in hand has moved *)

vars == <<live, short, described, open, played, rtp, pc, todo, socket, dead,
          told, refused, moved>>

None == 0    (* no Session header; the track of an aggregate request *)

Keys == Tracks \cup {None}

Beyond == 1 + Cardinality(Tracks)   (* tk= names no medium *)

Gone == Beyond + 1               (* the file is not there *)

Urls == Keys \cup {Beyond, Gone}

(* An RTP session: no PLAY yet; a range is set but there is no thread, and *)
(* PAUSED is set or not; with its thread, awake, asleep after a PAUSE, or  *)
(* because its range is over.                                              *)
RtpStates == {"none", "stopped", "held", "lost", "playing", "paused", "over"}

(* An RTP session to a client: "toggled" when it was set up and the PLAY   *)
(* that was answered named neither range nor scale.                        *)
ToldStates == {"none", "set up", "toggled", "playing", "paused"}

(* The RTP sessions that fit what was told.                                *)
Means(known) ==
  CASE known = "none"    -> {"none"}
    [] known = "set up"  -> {"stopped", "held"}
    [] known = "toggled" -> {"stopped", "held", "lost"}
    [] known = "playing" -> {"playing", "over"}
    [] known = "paused"  -> {"paused", "over"}

Idle == [op |-> "none", session |-> None, track |-> None, must |-> FALSE,
         freed |-> FALSE]

Init ==
  /\ live \in BOOLEAN
  /\ short \in {{}} \cup {{k} : k \in Keys}
  /\ described = FALSE
  /\ open = {} /\ played = {}
  /\ rtp = [s \in SessionIds |-> [k \in Keys |-> "none"]]
  /\ pc = "listen" /\ todo = Idle
  /\ socket = TRUE /\ dead = "no"
  /\ told = [s \in SessionIds |-> [k \in Keys |-> "none"]]
  /\ refused = FALSE /\ moved = {}

-----------------------------------------------------------------------------
(* What the code reads in a request.                                       *)

(* UDP is supported if it is unicast; any other transport is not.          *)
Offers == [kind : {"udp", "tcp", "other"}, ports : {"none", "malformed", "pair"}]

Supported(o) == o.kind \in {"udp", "tcp"} /\ o.ports # "none"

(* The first of the offered transports that names one the server has, with *)
(* its ports; an empty header is an absent one.                            *)
getTransport(offers) ==
  \E i \in DOMAIN offers :
    /\ Supported(offers[i]) /\ offers[i].ports = "pair"
    /\ \A j \in 1 .. i - 1 : ~Supported(offers[j])

(* Only npt is a range; any other unit is as good as none.                 *)
Ranges == {"absent", "clock", "near", "far", "misordered"}

hasRange(range) == range \in {"near", "far", "misordered"}

Scales == {"absent", "zero", "one"}

hasScale(scale) == scale # "absent"

(* The file exists; a track is looked up in a description already loaded.  *)
UrlOk(url) == url = None \/ (described /\ url \in Tracks)

getDescription == described

-----------------------------------------------------------------------------
Taken == dead = "no" /\ pc = "listen" /\ socket

(* A method whose prepare is done waits for its reply.                     *)
Prepared(m) ==
  /\ Taken /\ pc' = "answer" /\ todo' = m
  /\ UNCHANGED <<live, short, socket, told>>

Method(op, s, k) == [Idle EXCEPT !.op = op, !.session = s, !.track = k]

Refused == Prepared(Method("error", None, None))

Keeps == UNCHANGED <<described, open, played, rtp, dead, refused>> /\ moved' = {}

(* A method the factory does not have, or one without effect here.         *)
Options ==
  /\ Prepared(Method("OPTIONS", None, None)) \/ Refused
  /\ Keeps

(* The connection has a container of its own for each file.  A second      *)
(* DESCRIBE loads another one, which the map deletes as it has the key.    *)
loadDescription(m) ==
  /\ Prepared([m EXCEPT !.freed = described])
  /\ described' = TRUE

(* Loading fails, too, when the file cannot be read.                       *)
Describe(url, acceptable) ==
  \/ /\ Refused /\ Keeps
  \/ /\ UrlOk(url) /\ acceptable
     /\ loadDescription(Method("DESCRIBE", None, None))
     /\ moved' = {} /\ UNCHANGED <<open, played, rtp, dead, refused>>

RtpCount ==
  Cardinality({x \in SessionIds \X Keys : rtp[x[1]][x[2]] # "none"})

(* The id of the request, or one nobody has.                               *)
SetupIds(id) == IF id # None THEN {id} ELSE SessionIds \ open

(* The RTP session is created if there are ports or channels, sockets and  *)
(* a medium: without a track the index of the medium is any number.  A     *)
(* track that has an RTP session already keeps it, and the new one goes.   *)
createSession(s, k) ==
  /\ Prepared([Method("SETUP", s, k) EXCEPT !.freed = rtp[s][k] # "none"])
  /\ rtp' = IF rtp[s][k] # "none" THEN rtp
            ELSE [rtp EXCEPT ![s][k] = "stopped"]

(* The RTSP session remains, whatever happens then.                        *)
Setup(url, id, offers) ==
  \/ Refused /\ ~UrlOk(url) /\ Keeps
  \/ \E s \in SetupIds(id) :
       /\ UrlOk(url)
       /\ open' = open \cup {s}
       /\ \/ Refused /\ UNCHANGED rtp
          \/ /\ getDescription /\ getTransport(offers)
             /\ rtp[s][url] # "none" \/ RtpCount < MaxRtp
             /\ createSession(s, url)
       /\ moved' = {} /\ UNCHANGED <<described, played, dead, refused>>

-----------------------------------------------------------------------------
Has(s, k) == rtp[s][k] # "none"

(* Track "" is the whole session.                                          *)
Addressed(s, k) == {t \in Keys : Has(s, t) /\ k \in {None, t}}

(* Lookup of the session, of the description, of the track.                *)
SessionOk(url, s) == UrlOk(url) /\ s \in open

TrackOk(s, k) == k = None \/ Has(s, k)

BadPlay(range, scale) == ~live /\ (scale = "zero" \/ range = "misordered")

(* Are the times to be set, or is a pause to be left?                      *)
mustPlay(s, range, scale) ==
  (~live \/ s \notin played) /\ (hasRange(range) \/ hasScale(scale))

Refuses(t, range) == range = "far" /\ t \in short

(* Slip: a session that is paused is not asked either.                     *)
EvalIfPlaying(s, range) ==
  \A t \in Keys : rtp[s][t] \in {"playing", "lost"} => ~Refuses(t, range)

(* Every RTP session is asked, but one that never played has no buffer yet *)
(* to look the time up in.                                                 *)
Eval(s, range) ==
  \A t \in Keys : rtp[s][t] \notin {"none", "stopped"} => ~Refuses(t, range)

(* doFirstPlay, doSeekScale on the RTP sessions in ts.                     *)
SetTimes(s, ts) ==
  [rtp EXCEPT ![s] = [t \in Keys |->
    IF t \in ts /\ @[t] = "stopped" THEN "held" ELSE @[t]]]

(* The times are set track by track, as far as the first that refuses,     *)
(* whose flags have changed by then.                                       *)
PlayAll(s, range) ==
  LET ts == Addressed(s, None)
      no == {t \in ts : Refuses(t, range)}
      first == CHOOSE t \in no : \A u \in no : t <= u
      upTo == {t \in ts : t <= first}
  IN  IF ~Eval(s, range)
        THEN Refused /\ Keeps
      ELSE IF no # {}
        THEN /\ Refused
             /\ rtp' = SetTimes(s, upTo)
             /\ refused' = (refused \/ rtp[s][first] = "stopped")
             /\ moved' = upTo \ {first}
             /\ UNCHANGED <<described, open, played, dead>>
      ELSE /\ Prepared([Method("PLAY", s, None) EXCEPT !.must = TRUE])
           /\ rtp' = SetTimes(s, ts)
           /\ played' = played \cup {s}
           /\ moved' = ts
           /\ UNCHANGED <<described, open, dead, refused>>

(* Out of bounds is no error that Play::prepare may throw.                 *)
PlayOne(s, k, range) ==
  IF Refuses(k, range)
    THEN /\ Taken /\ dead' = "unexpected"
         /\ UNCHANGED <<live, short, described, open, played, rtp, pc, todo,
                        socket, told, refused, moved>>
    ELSE /\ Prepared([Method("PLAY", s, k) EXCEPT !.must = TRUE])
         /\ rtp' = SetTimes(s, {k})
         /\ moved' = {k}
         /\ UNCHANGED <<described, open, played, dead, refused>>

Play(url, s, range, scale) ==
  LET ok == /\ SessionOk(url, s) /\ getDescription /\ TrackOk(s, url)
            /\ ~BadPlay(range, scale)
      must == mustPlay(s, range, scale)
  IN  \/ ~ok /\ Refused /\ Keeps
      \/ ok /\ must /\ url = None /\ PlayAll(s, range)
      \/ ok /\ must /\ url # None /\ PlayOne(s, url, range)
      \/ ok /\ ~must /\ Prepared(Method("PLAY", s, url)) /\ Keeps

(* PAUSE is done before its answer.  An RTP session that is not PAUSED and *)
(* has no thread is waited for without end; those after it are not reached.*)
Pause(url, s) ==
  LET ts == Addressed(s, url)
      lost == {t \in ts : rtp[s][t] = "lost"}
      reached == {t \in ts : \A u \in lost : t < u}
      after == [rtp EXCEPT ![s] = [t \in Keys |->
                  IF t \in reached /\ @[t] = "playing" THEN "paused" ELSE @[t]]]
  IN  \/ /\ ~(SessionOk(url, s) /\ TrackOk(s, url))
         /\ Refused /\ Keeps
      \/ /\ SessionOk(url, s) /\ TrackOk(s, url) /\ rtp' = after
         /\ IF lost = {}
              THEN Prepared(Method("PAUSE", s, url))
              ELSE /\ Taken /\ pc' = "blocked"
                   /\ UNCHANGED <<live, short, todo, socket, told>>
         /\ moved' = {}
         /\ UNCHANGED <<described, open, played, dead, refused>>

Teardown(url, s) ==
  \/ ~SessionOk(url, s) /\ Refused /\ Keeps
  \/ SessionOk(url, s) /\ Prepared(Method("TEARDOWN", s, url)) /\ Keeps

-----------------------------------------------------------------------------
(* The reply, and what the method does after it.                           *)

Answering(op) ==
  /\ dead = "no" /\ pc = "answer" /\ todo.op = op /\ ~todo.freed
  /\ pc' = "listen" /\ todo' = Idle /\ moved' = {}
  /\ UNCHANGED <<live, short, described, dead, refused>>

(* What an answer tells of the RTP sessions it is about, whose state is    *)
(* known to the client from the answers before it.                         *)
Tells(s, ts, next(_)) ==
  told' = [told EXCEPT ![s] = [t \in Keys |-> IF t \in ts THEN next(@[t]) ELSE @[t]]]

AfterPause(known) == IF known = "playing" THEN "paused" ELSE known

Answer ==
  LET s == todo.session k == todo.track
      setUp(known) == "set up"
  IN  \/ /\ \E op \in {"error", "OPTIONS", "DESCRIBE"} : Answering(op)
         /\ UNCHANGED <<open, played, rtp, socket, told>>
      \/ /\ Answering("SETUP") /\ Tells(s, {k}, setUp)
         /\ UNCHANGED <<open, played, rtp, socket>>
      \/ /\ Answering("PAUSE") /\ Tells(s, Addressed(s, k), AfterPause)
         /\ UNCHANGED <<open, played, rtp, socket>>

(* Slip: a thread is only made for a session that is not PAUSED.           *)
PlayKeepsFlag(state) == IF state = "held" THEN "lost" ELSE "playing"

(* RTP::Session::play(): PAUSED is cleared, and a thread made if needed.   *)
PlayEffective(state) == "playing"

(* Slip: unpause leaves a session alone that has paused.                   *)
UnpauseUnstarted(state) == IF state = "held" THEN "lost" ELSE state

(* RTP::Session::unpause(): PAUSED is cleared, and nothing else.           *)
Unpause(state) ==
  CASE state = "held" -> "lost"
    [] state \in {"paused", "over"} -> "playing"
    [] OTHER -> state

AnswerPlay ==
  LET s == todo.session
      ts == Addressed(s, todo.track)
      on(state) == IF todo.must THEN PlayEffective(state) ELSE Unpause(state)
      plays(known) ==
        IF todo.must \/ known \in {"playing", "paused"} THEN "playing" ELSE "toggled"
  IN  /\ Answering("PLAY")
      /\ rtp' = [rtp EXCEPT ![s] = [t \in Keys |->
                   IF t \in ts THEN on(@[t]) ELSE @[t]]]
      /\ Tells(s, ts, plays)
      /\ UNCHANGED <<open, played, socket>>

(* The whole session goes, and with the last one the socket.               *)
removeSession(s) ==
  /\ open' = open \ {s}
  /\ played' = played \ {s}
  /\ rtp' = [rtp EXCEPT ![s] = [t \in Keys |-> "none"]]
  /\ socket' = (open' # {})

(* One track may not be there; the client, told that it is gone, is then   *)
(* answered a second time, with an error.                                  *)
AnswerTeardown ==
  LET s == todo.session k == todo.track
      gone(known) == "none"
  IN  /\ Answering("TEARDOWN")
      /\ Tells(s, IF k = None THEN Keys ELSE {k}, gone)
      /\ IF k = None
           THEN removeSession(s)
           ELSE /\ rtp' = [rtp EXCEPT ![s][k] = "none"]
                /\ UNCHANGED <<open, played, socket>>

(* The answer is made from a container or an RTP session already deleted;  *)
(* that of a second SETUP changes nothing in what the first one told.      *)
AnswerFreed ==
  /\ dead = "no" /\ pc = "answer" /\ todo.freed
  /\ todo' = Idle
  /\ \/ pc' = "listen" /\ dead' = "no"
     \/ dead' = "freed" /\ UNCHANGED pc
  /\ UNCHANGED <<live, short, described, open, played, rtp, socket, told, refused,
                 moved>>

(* The reply fails, or the client goes away: listen() is left.             *)
ReplyFails ==
  /\ dead = "no" /\ pc = "answer" /\ pc' = "closing"
  /\ UNCHANGED <<live, short, described, open, played, rtp, todo, socket, dead,
                 told, refused, moved>>

ListenEnds ==
  /\ dead = "no" /\ pc = "listen" /\ pc' = "closing"
  /\ UNCHANGED <<live, short, described, open, played, rtp, todo, socket, dead,
                 told, refused, moved>>

releaseDescriptors == described' = FALSE

Shutdown ==
  /\ dead = "no" /\ pc = "closing" /\ pc' = "ended"
  /\ open' = {} /\ played' = {} /\ socket' = FALSE
  /\ releaseDescriptors
  /\ rtp' = [s \in SessionIds |-> [k \in Keys |-> "none"]]
  /\ UNCHANGED <<live, short, todo, dead, told, refused, moved>>

(* A send thread that has come to the end of its range pauses itself.      *)
StreamEnds(s, k) ==
  /\ dead = "no" /\ rtp[s][k] = "playing"
  /\ rtp' = [rtp EXCEPT ![s][k] = "over"]
  /\ UNCHANGED <<live, short, described, open, played, pc, todo, socket, dead,
                 told, refused, moved>>

-----------------------------------------------------------------------------
(* No header, one offer, or one the server does not have before it.        *)
OfferLists ==
  {<<>>} \cup {<<o>> : o \in Offers}
    \cup {<<[kind |-> "other", ports |-> "pair"], o>> : o \in Offers}

Handle ==
  /\ Taken
  /\ \/ Options
     \/ \E url \in Urls, ok \in BOOLEAN : Describe(url, ok)
     \/ \E url \in Urls, id \in SessionIds \cup {None}, offers \in OfferLists :
          Setup(url, id, offers)
     \/ \E url \in Urls, s \in SessionIds, range \in Ranges, scale \in Scales :
          Play(url, s, range, scale)
     \/ \E url \in Urls, s \in SessionIds : Pause(url, s) \/ Teardown(url, s)

Execute == Answer \/ AnswerPlay \/ AnswerTeardown \/ AnswerFreed \/ ReplyFails

Next ==
  \/ Handle \/ Execute \/ ListenEnds \/ Shutdown
  \/ \E s \in SessionIds, k \in Keys : StreamEnds(s, k)

Spec == Init /\ [][Next]_vars

-----------------------------------------------------------------------------
(* Every variable stays in its range (the members of Connection, Method    *)
(* and RTSP::Session).                                                     *)
TodoType ==
  [op : {"none", "error", "OPTIONS", "DESCRIBE", "SETUP", "PLAY", "PAUSE", "TEARDOWN"},
   session : SessionIds \cup {None}, track : Keys, must : BOOLEAN, freed : BOOLEAN]

TypeOK ==
  /\ live \in BOOLEAN /\ short \subseteq Keys /\ described \in BOOLEAN
  /\ played \subseteq open /\ open \subseteq SessionIds
  /\ rtp \in [SessionIds -> [Keys -> RtpStates]]
  /\ \A s \in SessionIds \ open, k \in Keys : ~Has(s, k)
  /\ pc \in {"listen", "answer", "blocked", "closing", "ended"}
  /\ todo \in TodoType
  /\ socket \in BOOLEAN /\ dead \in {"no", "unexpected", "freed"}
  /\ told \in [SessionIds -> [Keys -> ToldStates]] /\ refused \in BOOLEAN /\ moved \subseteq Keys

(* No request waits for a send thread that does not exist (RTP::Session's  *)
(* pause) unless a first PLAY has been refused, after which the session is *)
(* PAUSED without a thread and a later PLAY unpauses it.                   *)
BlocksOnlyAfterRefusal == pc = "blocked" => refused

(* Between two requests the server is where its answers have told the      *)
(* client that it is, whatever requests of one track and of all of them,   *)
(* refusals, second SETUPs and streams that end on their own came in       *)
(* between: what has been set up is there, what plays has its thread, and  *)
(* what has been paused sleeps.  One answer is wrong, and always: a first  *)
(* PLAY that names neither range nor scale, or is late to a live cast,     *)
(* only clears a pause that is not there, and there is no thread until a   *)
(* PLAY that sets a range (Play::prepare, Play::execute, unpause).         *)
AsTold ==
  pc = "listen" =>
    \A s \in SessionIds, k \in Keys : rtp[s][k] \in Means(told[s][k])

(* An aggregate PLAY that is refused has moved no RTP session              *)
(* (RTSP::Session::play asks all of them first), unless the one that       *)
(* refuses had never played, for which eval() does not look the time up.   *)
AllOrNothing ==
  [][(pc = "listen" /\ pc' = "answer" /\ todo'.op = "error" /\ moved' # {}) =>
       \E s \in SessionIds, k \in short : rtp[s][k] = "stopped"]_vars

(* prepare() throws ManagedError only (rtsp/method.h:254): no exception    *)
(* leaves it that ends the process.  Violated, so not among the runs'      *)
(* invariants: a PLAY of one track beyond its end throws OutOfBounds.      *)
PrepareThrowsManagedOnly == dead # "unexpected"

=============================================================================
