---------------------------- MODULE Uploads_proofs ----------------------------
(***************************************************************************)
(* Uploads and the requests that come between their messages, for every    *)
(* set of names, clients and bodies of any size: no file mixes two uploads;*)
(* but for uploads whose file a request takes away, what a client was told *)
(* is stored stays stored, and a complete file goes only when a request    *)
(* says so; together they implement a shelf of books.                      *)
(***************************************************************************)
EXTENDS Uploads, SequenceTheorems, TLAPS

USE NameAssumption, BodyAssumption, NoFileAssumption

-----------------------------------------------------------------------------
(* Files.                                                                  *)

Amount(f) == Len(f.bytes)

\* The beginning of the body it was created for.
PureFile == {f \in File : Amount(f) <= Size[f.of] /\ \A i \in 1 .. Len(f.bytes) : f.bytes[i] = f.of}

LEMMA PureFacts ==
    ASSUME NEW f \in PureFile
    PROVE  /\ f \in File /\ f # None /\ FitsBody(f)
           /\ f.of \in Body /\ Amount(f) \in Nat /\ Amount(f) <= Size[f.of]
BY LenProperties DEF PureFile, File, FitsBody, Amount

LEMMA EmptyIsPure ==
    ASSUME NEW b \in Body
    PROVE  Empty(b) \in PureFile /\ Empty(b).of = b /\ Amount(Empty(b)) = 0
<1>1. <<>> \in Seq(Body) /\ Len(<<>>) = 0
  BY EmptySeq
<1> QED
  BY <1>1 DEF Empty, PureFile, File, Amount

\* k pieces of one body.
LEMMA Repeated ==
    ASSUME NEW b \in Body, NEW k \in Nat
    PROVE  LET r == [i \in 1 .. k |-> b] IN r \in Seq(Body) /\ Len(r) = k /\ \A i \in 1 .. k : r[i] = b
OBVIOUS

LEMMA Joined ==
    ASSUME NEW s \in Seq(Body), NEW t \in Seq(Body), NEW b, \A i \in 1 .. Len(s) : s[i] = b,
           \A i \in 1 .. Len(t) : t[i] = b
    PROVE  /\ s \o t \in Seq(Body) /\ Len(s \o t) = Len(s) + Len(t)
           /\ \A i \in 1 .. Len(s \o t) : (s \o t)[i] = b
OBVIOUS

LEMMA AddIsPure ==
    ASSUME NEW f \in PureFile, NEW k \in Nat, Amount(f) + k <= Size[f.of]
    PROVE  Add(f, f.of, k) \in PureFile /\ Add(f, f.of, k).of = f.of /\ Amount(Add(f, f.of, k)) = Amount(f) + k
<1> DEFINE more == [i \in 1 .. k |-> f.of]
           g == Add(f, f.of, k)
<1>1. f.of \in Body /\ f.bytes \in Seq(Body) /\ Len(f.bytes) \in Nat
  BY LenProperties DEF PureFile, File
<1>2. more \in Seq(Body) /\ Len(more) = k /\ \A i \in 1 .. k : more[i] = f.of
  BY <1>1, Repeated
<1> HIDE DEF more
<1>3. \A i \in 1 .. Len(f.bytes) : f.bytes[i] = f.of
  BY DEF PureFile
<1>4. /\ f.bytes \o more \in Seq(Body)
      /\ Len(f.bytes \o more) = Len(f.bytes) + k
      /\ \A i \in 1 .. Len(f.bytes \o more) : (f.bytes \o more)[i] = f.of
  BY <1>1, <1>2, <1>3, Joined
<1>6. g = [f EXCEPT !.bytes = f.bytes \o more]
  BY DEF Add, more
<1>7. g \in File /\ g.of = f.of /\ g.bytes = f.bytes \o more
  BY <1>1, <1>4, <1>6 DEF PureFile, File
<1> HIDE DEF g
<1>8. Amount(g) = Amount(f) + k
  BY <1>4, <1>7 DEF Amount
<1>9. g \in PureFile
  BY <1>4, <1>7, <1>8 DEF PureFile, Amount
<1> QED
  BY <1>7, <1>8, <1>9 DEF g

LEMMA CutIsPure ==
    ASSUME NEW f \in PureFile, NEW k \in Nat
    PROVE  Cut(f, k) \in PureFile
<1> DEFINE n == IF k < Len(f.bytes) THEN k ELSE Len(f.bytes)
           g == [f EXCEPT !.bytes = SubSeq(f.bytes, 1, n)]
<1>1. f.of \in Body /\ f.bytes \in Seq(Body) /\ Len(f.bytes) \in Nat
  BY LenProperties DEF PureFile, File
<1>2. n \in Nat /\ n <= Len(f.bytes)
  BY <1>1
<1> HIDE DEF n
<1>3. \A i \in 1 .. n : f.bytes[i] \in Body
  BY <1>1, <1>2, ElementOfSeq
<1>4. /\ SubSeq(f.bytes, 1, n) \in Seq(Body) /\ Len(SubSeq(f.bytes, 1, n)) = n
      /\ \A i \in 1 .. n : SubSeq(f.bytes, 1, n)[i] = f.bytes[i]
  BY <1>1, <1>2, <1>3, SubSeqProperties
<1>5. g \in File /\ g.of = f.of /\ g.bytes = SubSeq(f.bytes, 1, n)
  BY <1>4 DEF PureFile, File
<1> HIDE DEF g
<1>6. g \in PureFile
  <2>1. Amount(g) <= Size[g.of]
    BY <1>1, <1>2, <1>4, <1>5 DEF PureFile, Amount
  <2>2. \A i \in 1 .. Len(g.bytes) : g.bytes[i] = g.of
    BY <1>1, <1>2, <1>4, <1>5 DEF PureFile
  <2> QED  BY <1>5, <2>1, <2>2 DEF PureFile
<1>7. Cut(f, k) = g
  BY DEF Cut, g, n
<1> QED
  BY <1>6, <1>7

\* Of the beginnings of a body, the whole is the longest.
LEMMA WholeIsLongest ==
    ASSUME NEW f \in PureFile
    PROVE  IsWhole(f) <=> Amount(f) = Size[f.of]
<1>1. f.of \in Body /\ f.bytes \in Seq(Body) /\ Len(f.bytes) \in Nat /\ f # None /\ Size[f.of] \in Nat
  BY LenProperties DEF PureFile, File
<1>2. Whole(f.of) \in Seq(Body) /\ Len(Whole(f.of)) = Size[f.of]
  BY <1>1, Repeated DEF Whole
<1>3. ASSUME Amount(f) = Size[f.of] PROVE f.bytes = Whole(f.of)
  <2>1. \A i \in 1 .. Len(f.bytes) : f.bytes[i] = Whole(f.of)[i]
    BY <1>1, <1>3 DEF PureFile, Amount, Whole
  <2>2. Len(f.bytes) = Len(Whole(f.of))
    BY <1>2, <1>3 DEF Amount
  <2> HIDE DEF Whole
  <2> QED
    BY <1>1, <1>2, <2>1, <2>2, SeqEqual
<1> QED
  BY <1>1, <1>2, <1>3 DEF IsWhole, Amount

-----------------------------------------------------------------------------
(* The invariant.                                                          *)

Stored == PureFile \cup {None}

CardIsPure == card \in [Name -> Stored] /\ temp \in Stored

\* The names of which a client was told that they hold its upload, and still expects it.
Kept == promised \ strayed

USE DEF answers, Kept

\* n is the first k pieces of b, and nobody else is writing it or was promised it.
Holds(n, b, k) == card[n] # None /\ card[n].of = b /\ Amount(card[n]) = k /\ ws.at # n /\ n \notin Kept
Absent(n) == card[n] = None /\ ws.at # n /\ n \notin Kept
HalfWritten(f, b, k) == f # None /\ f.of = b /\ Amount(f) = k

\* The upload in progress: its owner sends the body it was started with, and its file,
\* wherever it is now, holds what has arrived.
UploadInProgress ==
    /\ ws.owner = None => ws = NoUpload
    /\ ws.owner # None =>
         /\ up /\ ws.owner \in Client /\ ws.path \in Name /\ ws.body \in Body /\ ws.got \in Nat
         /\ ws.got < Size[ws.body] /\ says[ws.owner] = ws.body
         /\ ws.at # ws.path => ws.path \in strayed
         /\ ws.at # None => /\ ws.at \in Name /\ ws.at \notin Kept
                           /\ HalfWritten(card[ws.at], ws.body, ws.got)

\* The request being served: what it has written so far is where nobody else writes.
RequestInProgress ==
    /\ req.op # "none" => up /\ req.name \in Name
    /\ req.op \in {"form", "formEnd", "put", "putEnd", "putAnswer"} =>
         req.body \in Body /\ req.got \in Nat /\ req.got <= Size[req.body]
    /\ req.op = "form" /\ req.ok => Holds(req.name, req.body, req.got)
    /\ req.op = "put" /\ req.ok => HalfWritten(temp, req.body, req.got)
    /\ req.op = "putEnd" => HalfWritten(temp, req.body, Size[req.body]) /\ Absent(req.name)
    /\ req.op \in {"formEnd", "putAnswer"} /\ req.ok => Holds(req.name, req.body, Size[req.body])
    /\ req.op \in {"move", "copy"} => req.dst \in Name /\ req.name # req.dst /\ card[req.name] # None
    /\ req.op = "move" => Absent(req.dst)
    /\ req.op = "copy" => /\ req.got \in Nat /\ req.got <= Amount(card[req.name])
                         /\ Holds(req.dst, card[req.name].of, req.got)

\* A promised file is whole, not open, and its cache is its own.
PromisesHold ==
    \A n \in Kept : /\ n \in Name /\ card[n] # None /\ Amount(card[n]) = Size[card[n].of]
                        /\ cache[n] \in {None, card[n].of}

UInv == TypeOK /\ CardIsPure /\ UploadInProgress /\ RequestInProgress /\ PromisesHold

-----------------------------------------------------------------------------
(* Types, without what CardIsPure says of the files.                       *)

Upload == [owner : Client \cup {None}, path : Name \cup {None}, at : Name \cup {None},
           body : Body \cup {None}, got : Nat]
Request == [op : {"none", "form", "formEnd", "put", "putEnd", "putAnswer", "move", "copy", "clear"},
            name : Name \cup {None}, dst : Name \cup {None}, body : Body \cup {None}, got : Nat, ok : BOOLEAN]

Rest ==
    /\ cache \in [Name -> Body \cup {None}] /\ says \in [Client -> Body \cup {None}]
    /\ up \in BOOLEAN /\ ws \in Upload /\ req \in Request
    /\ promised \subseteq Name /\ strayed \subseteq Name

LEMMA StoredFacts ==
    ASSUME NEW f \in Stored
    PROVE  f \in File \cup {None} /\ FitsBody(f)
BY PureFacts DEF Stored, FitsBody

LEMMA TypeParts == CardIsPure => (TypeOK <=> Rest)
<1> SUFFICES ASSUME CardIsPure PROVE TypeOK <=> Rest
  OBVIOUS
<1>1. /\ card \in [Name -> File \cup {None}] /\ \A n \in Name : FitsBody(card[n])
      /\ temp \in File \cup {None} /\ FitsBody(temp)
  BY StoredFacts DEF CardIsPure
<1> QED  BY <1>1 DEF TypeOK, Rest, Upload, Request

LEMMA Unfold ==
    ASSUME UInv
    PROVE  Rest /\ CardIsPure /\ UploadInProgress /\ RequestInProgress /\ PromisesHold
BY TypeParts DEF UInv

LEMMA Fold ==
    ASSUME Rest', CardIsPure', UploadInProgress', RequestInProgress', PromisesHold'
    PROVE  UInv'
<1>1. /\ card' \in [Name -> File \cup {None}] /\ \A n \in Name : FitsBody(card'[n])
      /\ temp' \in File \cup {None} /\ FitsBody(temp')
  BY StoredFacts DEF CardIsPure
<1>2. TypeOK'
  BY <1>1 DEF TypeOK, Rest, Upload, Request
<1> QED  BY <1>2 DEF UInv

LEMMA NoUploadFacts ==
    /\ NoUpload \in Upload /\ NoUpload.owner = None /\ NoUpload.at = None
    /\ NoRequest \in Request /\ NoRequest.op = "none"
BY DEF NoUpload, NoRequest, Upload, Request

\* A file of the card that is there, and one that is put there.
LEMMA CardFacts ==
    ASSUME CardIsPure, NEW n \in Name
    PROVE  /\ card[n] \in Stored
           /\ card[n] # None => card[n] \in PureFile
BY DEF CardIsPure, Stored

LEMMA PutFacts ==
    ASSUME CardIsPure, NEW n \in Name, NEW f \in Stored, card' = Put(card, n, f)
    PROVE  card' \in [Name -> Stored] /\ card'[n] = f /\ \A m \in Name : m # n => card'[m] = card[m]
BY DEF CardIsPure, Put

LEMMA NoneStored == None \in Stored
BY DEF Stored

LEMMA PureStored == ASSUME NEW f \in PureFile PROVE f \in Stored /\ f # None
BY PureFacts DEF Stored

\* An answer about n is all that is new, and the name of an upload that has strayed stays stray.
LEMMA AnsweredFacts ==
    ASSUME Rest, NEW n \in Name, Answered(n)
    PROVE  /\ promised' \subseteq Name /\ strayed' \subseteq Name
           /\ Kept' \subseteq Kept \cup {n}
           /\ ws.at # ws.path /\ ws.path \in strayed => ws.path \in strayed'
BY DEF Answered, Rest

\* Nothing is promised of a file that goes, and the names of uploads whose file goes are stray.
LEMMA FollowFacts ==
    ASSUME Rest, NEW n \in Name, NEW m \in Name \cup {None}, Follow(n, m), promised' \subseteq promised \ {n}
    PROVE  /\ promised' \subseteq Name /\ strayed' \subseteq Name
           /\ Kept' \subseteq Kept \ {n}
           /\ strayed \subseteq strayed' /\ (ws.at = n /\ ws.path = n => n \in strayed')
BY DEF Follow, Rest

-----------------------------------------------------------------------------
(* The WebSocket server.                                                   *)

\* No request is being served, so nothing of it changes.
LEMMA ServingKeepsRequest ==
    ASSUME Serving, UNCHANGED req PROVE RequestInProgress'
BY DEF Serving, RequestInProgress

LEMMA WsStartRefusedStep ==
    ASSUME UInv, NEW c \in Client, NEW b \in Body, WsStartRefused(c, b) PROVE UInv'
<1>1. Rest /\ CardIsPure /\ UploadInProgress /\ PromisesHold
  BY Unfold
<1>2. UNCHANGED <<card, temp, cache, up, ws, req, answers>> /\ Serving
  BY DEF WsStartRefused
<1>3. says' \in [Client -> Body \cup {None}] /\ (ws.owner # None => says'[ws.owner] = says[ws.owner])
  BY <1>1 DEF WsStartRefused, Rest, UploadInProgress
<1>4. Rest' /\ CardIsPure'
  BY <1>1, <1>2, <1>3 DEF Rest, CardIsPure
<1>5. UploadInProgress'
  BY <1>1, <1>2, <1>3 DEF UploadInProgress, HalfWritten
<1>6. PromisesHold'
  BY <1>1, <1>2 DEF PromisesHold
<1> QED  BY <1>2, <1>4, <1>5, <1>6, ServingKeepsRequest, Fold

LEMMA WsStartStep ==
    ASSUME UInv, NEW c \in Client, NEW n \in Name, NEW b \in Body, WsStart(c, n, b) PROVE UInv'
<1>1. Rest /\ CardIsPure /\ UploadInProgress /\ PromisesHold
  BY Unfold
<1>2. /\ Serving /\ ws.owner = None /\ card[n] = None /\ UNCHANGED <<temp, up, req>>
      /\ says' = [says EXCEPT ![c] = b] /\ card' = Put(card, n, Empty(b))
  BY DEF WsStart
<1>3. Empty(b) \in PureFile /\ Empty(b) \in Stored /\ Empty(b) # None /\ Empty(b).of = b /\ Amount(Empty(b)) = 0
  BY EmptyIsPure, PureStored
<1>4. card' \in [Name -> Stored] /\ card'[n] = Empty(b) /\ \A m \in Name : m # n => card'[m] = card[m]
  BY <1>1, <1>2, <1>3, PutFacts
<1>5. CardIsPure'
  BY <1>1, <1>2, <1>4 DEF CardIsPure
<1>6. n \notin Kept /\ ws = NoUpload
  BY <1>1, <1>2 DEF PromisesHold, UploadInProgress
<1>7. says' \in [Client -> Body \cup {None}] /\ says'[c] = b
  BY <1>1, <1>2 DEF Rest
<1>8. CASE Size[b] = 0
  <2>1. ClearBookCache(n) /\ Answered(n) /\ UNCHANGED ws
    BY <1>8 DEF WsStart
  <2>2. Rest'
    BY <1>1, <1>2, <1>7, <2>1, AnsweredFacts DEF Rest, ClearBookCache
  <2>3. UploadInProgress'
    BY <1>6, <2>1, NoUploadFacts DEF UploadInProgress
  <2>4. PromisesHold'
    <3>1. Kept' \subseteq Kept \cup {n}
      BY <1>1, <2>1, AnsweredFacts
    <3> QED  BY <1>1, <1>3, <1>4, <1>8, <2>1, <3>1 DEF PromisesHold, ClearBookCache, Rest
  <2> QED  BY <1>2, <1>5, <2>2, <2>3, <2>4, ServingKeepsRequest, Fold
<1>9. CASE Size[b] # 0
  <2>1. ws' = [owner |-> c, path |-> n, at |-> n, body |-> b, got |-> 0] /\ UNCHANGED <<cache, answers>>
    BY <1>9 DEF WsStart
  <2>2. Rest'
    BY <1>1, <1>2, <1>7, <2>1 DEF Rest, Upload
  <2>3. Size[b] \in Nat /\ 0 < Size[b]
    BY <1>9
  <2>4. UploadInProgress'
    BY <1>2, <1>3, <1>4, <1>6, <1>7, <2>1, <2>3 DEF UploadInProgress, HalfWritten, Serving
  <2>5. PromisesHold'
    BY <1>1, <1>4, <1>6, <2>1 DEF PromisesHold
  <2> QED  BY <1>2, <1>5, <2>2, <2>4, <2>5, ServingKeepsRequest, Fold
<1> QED  BY <1>8, <1>9

LEMMA AbortStep ==
    ASSUME UInv, Serving, ws.owner # None, AbortWsUpload, UNCHANGED <<temp, req>>,
           says' \in [Client -> Body \cup {None}], up' \in BOOLEAN
    PROVE  UInv'
<1>1. Rest /\ CardIsPure /\ UploadInProgress /\ PromisesHold
  BY Unfold
<1>2. card' = Put(card, ws.path, None) /\ ws' = NoUpload /\ UNCHANGED <<cache, answers>> /\ ws.path \in Name
  BY <1>1 DEF AbortWsUpload, UploadInProgress
<1>3. card' \in [Name -> Stored] /\ \A m \in Name : m # ws.path => card'[m] = card[m]
  BY <1>1, <1>2, NoneStored, PutFacts
<1>4. CardIsPure'
  BY <1>1, <1>3 DEF CardIsPure
<1>5. ws.path \notin Kept'
  BY <1>1, <1>2 DEF UploadInProgress
<1>6. Kept' \subseteq Kept
  BY <1>2
<1>7. Rest'
  BY <1>1, <1>2, <1>6, NoUploadFacts DEF Rest
<1>8. UploadInProgress'
  BY <1>2, NoUploadFacts DEF UploadInProgress
<1>9. PromisesHold'
  BY <1>1, <1>2, <1>3, <1>5, <1>6 DEF PromisesHold
<1> QED  BY <1>4, <1>7, <1>8, <1>9, ServingKeepsRequest, Fold

LEMMA WsBinaryStep ==
    ASSUME UInv, NEW c \in Client, NEW k \in Nat \ {0}, WsBinary(c, k) PROVE UInv'
<1>1. Rest /\ CardIsPure /\ UploadInProgress /\ PromisesHold
  BY Unfold
<1>2. /\ Serving /\ ws.owner = c /\ c # None /\ UNCHANGED <<temp, up, says, req>>
  BY DEF WsBinary, WsTakes
<1>3. CASE AbortWsUpload
  <2>1. says' \in [Client -> Body \cup {None}] /\ up' \in BOOLEAN
    BY <1>1, <1>2 DEF Rest
  <2> QED  BY <1>2, <1>3, <2>1, AbortStep
<1>4. ASSUME ~AbortWsUpload PROVE UInv'
  <2>1. /\ ~Overflows(k)
        /\ card' = IF ws.at = None THEN card ELSE [card EXCEPT ![ws.at] = Add(@, says[c], k)]
        /\ IF ws.got + k < Size[ws.body]
           THEN ws' = [ws EXCEPT !.got = @ + k] /\ UNCHANGED <<cache, answers>>
           ELSE /\ ws' = NoUpload /\ ClearBookCache(ws.path)
                /\ Answered(ws.path)
    BY <1>4 DEF WsBinary
  <2>2. /\ up /\ ws.path \in Name /\ ws.body \in Body /\ ws.got \in Nat /\ Size[ws.body] \in Nat
        /\ says[c] = ws.body /\ ws.got + k <= Size[ws.body]
    BY <1>1, <1>2, <2>1 DEF UploadInProgress, Overflows
  <2>3. ws.at # None => /\ ws.at \in Name /\ ws.at \notin Kept /\ card[ws.at] \in PureFile
                        /\ card[ws.at].of = ws.body /\ Amount(card[ws.at]) = ws.got
    BY <1>1, <1>2, CardFacts DEF UploadInProgress, HalfWritten
  <2>4. ASSUME ws.at # None
        PROVE  /\ card' \in [Name -> Stored] /\ card'[ws.at] # None /\ card'[ws.at].of = ws.body
               /\ Amount(card'[ws.at]) = ws.got + k
               /\ \A m \in Name : m # ws.at => card'[m] = card[m]
    <3> DEFINE f == Add(card[ws.at], ws.body, k)
    <3>1. f \in PureFile /\ f.of = ws.body /\ Amount(f) = ws.got + k
      BY <2>2, <2>3, <2>4, AddIsPure
    <3>2. card' = Put(card, ws.at, f)
      BY <2>1, <2>2, <2>4 DEF Put
    <3> HIDE DEF f
    <3> QED  BY <1>1, <2>3, <2>4, <3>1, <3>2, PureStored, PutFacts
  <2>5. CardIsPure' /\ \A m \in Kept : card'[m] = card[m]
    BY <1>1, <1>2, <2>1, <2>3, <2>4 DEF CardIsPure, PromisesHold
  <2>6. CASE ws.got + k < Size[ws.body]
    <3>1. ws' = [ws EXCEPT !.got = @ + k] /\ UNCHANGED <<cache, answers>>
      BY <2>1, <2>6
    <3>2. Rest'
      BY <1>1, <1>2, <2>2, <3>1 DEF Rest, Upload
    <3>3. /\ ws'.owner = c /\ ws'.path = ws.path /\ ws'.at = ws.at /\ ws'.body = ws.body
          /\ ws'.got = ws.got + k
      BY <1>1, <1>2, <3>1 DEF Rest, Upload
    <3>4. UploadInProgress'
      <4>1. ws'.at # ws'.path => ws'.path \in strayed'
        BY <1>1, <1>2, <3>1, <3>3 DEF UploadInProgress
      <4> QED  BY <1>2, <2>2, <2>3, <2>4, <2>6, <3>1, <3>3, <4>1 DEF UploadInProgress, HalfWritten
    <3>5. PromisesHold'
      BY <1>1, <2>5, <3>1 DEF PromisesHold
    <3> QED  BY <1>2, <2>5, <3>2, <3>4, <3>5, ServingKeepsRequest, Fold
  <2>7. CASE ~(ws.got + k < Size[ws.body])
    <3>1. ws' = NoUpload /\ ClearBookCache(ws.path) /\ Answered(ws.path)
      BY <2>1, <2>7
    <3>2. ws.got + k = Size[ws.body]
      BY <2>2, <2>7
    <3>3. cache' \in [Name -> Body \cup {None}] /\ cache'[ws.path] = None
          /\ \A m \in Name : m # ws.path => cache'[m] = cache[m]
      BY <1>1, <2>2, <3>1 DEF ClearBookCache, Rest
    <3>4. /\ promised' \subseteq Name /\ strayed' \subseteq Name /\ Kept' \subseteq Kept \cup {ws.path}
          /\ ws.at # ws.path => ws.path \notin Kept'
      BY <1>1, <1>2, <2>2, <3>1, AnsweredFacts DEF UploadInProgress
    <3>5. Rest'
      BY <1>1, <1>2, <2>2, <3>1, <3>3, <3>4, NoUploadFacts DEF Rest
    <3>6. UploadInProgress'
      BY <3>1, NoUploadFacts DEF UploadInProgress
    <3>7. ASSUME NEW n \in Kept'
          PROVE  /\ n \in Name /\ card'[n] # None /\ Amount(card'[n]) = Size[card'[n].of]
                 /\ cache'[n] \in {None, card'[n].of}
      <4>1. CASE n \in Kept
        BY <1>1, <2>5, <3>3, <4>1 DEF PromisesHold
      <4>2. CASE n \notin Kept
        <5>1. n = ws.path /\ ws.at = ws.path
          BY <3>4, <4>2
        <5>2. ws.at # None
          BY <2>2, <5>1
        <5> QED  BY <2>2, <2>4, <3>2, <3>3, <5>1, <5>2
      <4> QED  BY <4>1, <4>2
    <3>8. PromisesHold'
      BY <3>7 DEF PromisesHold
    <3> QED  BY <1>2, <2>5, <3>5, <3>6, <3>8, ServingKeepsRequest, Fold
  <2> QED  BY <2>6, <2>7
<1> QED  BY <1>3, <1>4

LEMMA WsDisconnectedStep ==
    ASSUME UInv, NEW c \in Client, WsDisconnected(c) PROVE UInv'
<1>1. Rest /\ CardIsPure /\ UploadInProgress /\ PromisesHold
  BY Unfold
<1>2. /\ Serving /\ says' = [says EXCEPT ![c] = None] /\ UNCHANGED <<temp, up, req>>
      /\ IF ws.owner = c THEN AbortWsUpload ELSE UNCHANGED <<card, ws, answers, cache>>
  BY DEF WsDisconnected, WsTakes
<1>3. says' \in [Client -> Body \cup {None}] /\ up' \in BOOLEAN
  BY <1>1, <1>2 DEF Rest
<1>4. CASE ws.owner = c
  BY <1>2, <1>3, <1>4, AbortStep
<1>5. CASE ws.owner # c
  <2>1. UNCHANGED <<card, ws, answers, cache>>
    BY <1>2, <1>5
  <2>2. Rest' /\ CardIsPure' /\ PromisesHold'
    BY <1>1, <1>2, <1>3, <2>1 DEF Rest, CardIsPure, PromisesHold
  <2>3. ws.owner # None => says'[ws.owner] = says[ws.owner]
    BY <1>1, <1>2, <1>5 DEF UploadInProgress, Rest
  <2>4. UploadInProgress'
    BY <1>1, <1>2, <2>1, <2>3 DEF UploadInProgress, HalfWritten
  <2> QED  BY <1>2, <2>2, <2>4, ServingKeepsRequest, Fold
<1> QED  BY <1>4, <1>5

LEMMA StopServerStep == ASSUME UInv, StopServer PROVE UInv'
<1>1. Rest /\ CardIsPure /\ UploadInProgress /\ PromisesHold
  BY Unfold
<1>2. /\ Serving /\ up' = FALSE /\ says' = [c \in Client |-> None] /\ UNCHANGED <<temp, req>>
      /\ IF ws.owner # None THEN AbortWsUpload ELSE UNCHANGED <<card, ws, answers, cache>>
  BY DEF StopServer
<1>3. says' \in [Client -> Body \cup {None}] /\ up' \in BOOLEAN
  BY <1>2
<1>4. CASE ws.owner # None
  BY <1>2, <1>3, <1>4, AbortStep
<1>5. CASE ws.owner = None
  <2>1. UNCHANGED <<card, ws, answers, cache>>
    BY <1>2, <1>5
  <2>2. Rest' /\ CardIsPure' /\ PromisesHold'
    BY <1>1, <1>2, <1>3, <2>1 DEF Rest, CardIsPure, PromisesHold
  <2>3. UploadInProgress'
    BY <1>1, <1>5, <2>1 DEF UploadInProgress
  <2> QED  BY <1>2, <2>2, <2>3, ServingKeepsRequest, Fold
<1> QED  BY <1>4, <1>5

-----------------------------------------------------------------------------
(* What the steps of the requests have in common.                          *)

LEMMA UploadKept ==
    ASSUME UploadInProgress, UNCHANGED <<ws, says, up>>,
           ws.at # None => card'[ws.at] = card[ws.at] /\ ws.at \notin Kept',
           ws.at # ws.path /\ ws.path \in strayed => ws.path \in strayed'
    PROVE  UploadInProgress'
BY DEF UploadInProgress, HalfWritten

\* The file called n goes, and the upload in progress with it if it was its own.
LEMMA UploadLosesFile ==
    ASSUME Rest, UploadInProgress, UNCHANGED <<says, up>>, NEW n \in Name, Follow(n, None),
           \A m \in Name : m # n => card'[m] = card[m], promised' = promised \ {n}
    PROVE  ws' \in Upload /\ UploadInProgress' /\ ws'.at # n
<1>0. Kept' \subseteq Kept /\ strayed \subseteq strayed' /\ (ws.at = n /\ ws.path = n => n \in strayed')
  BY FollowFacts
<1>1. CASE ws.at = n
  <2>1. ws' = [ws EXCEPT !.at = None]
    BY <1>1 DEF Follow
  <2>2. /\ ws' \in Upload /\ ws'.owner = ws.owner /\ ws'.path = ws.path /\ ws'.at = None
        /\ ws'.body = ws.body /\ ws'.got = ws.got
    BY <2>1 DEF Rest, Upload
  <2>3. ws.owner # None
    BY <1>1, NoUploadFacts DEF UploadInProgress
  <2>4. ws.path \in strayed'
    BY <1>0, <1>1, <2>3 DEF UploadInProgress
  <2> QED  BY <2>2, <2>3, <2>4 DEF UploadInProgress
<1>2. CASE ws.at # n
  <2>1. ws' = ws
    BY <1>2 DEF Follow
  <2>2. ws.at # None => ws.at \in Name
    BY DEF Rest, Upload
  <2>3. ws.at # None => ws.at \notin Kept
    BY NoUploadFacts DEF UploadInProgress
  <2>4. UploadInProgress'
    BY <1>0, <1>2, <2>1, <2>2, <2>3, UploadKept
  <2> QED  BY <1>2, <2>1, <2>4 DEF Rest
<1> QED  BY <1>1, <1>2

LEMMA PromisesKept ==
    ASSUME PromisesHold, Kept' \subseteq Kept,
           \A n \in Kept' : card'[n] = card[n] /\ cache'[n] \in {cache[n], None}
    PROVE  PromisesHold'
BY DEF PromisesHold

LEMMA PromiseMade ==
    ASSUME Rest, CardIsPure, PromisesHold, NEW n \in Name, NEW b \in Body, UNCHANGED card,
           HalfWritten(card[n], b, Size[b]), ClearBookCache(n), Answered(n)
    PROVE  cache' \in [Name -> Body \cup {None}] /\ PromisesHold'
<1>1. cache' \in [Name -> Body \cup {None}] /\ cache'[n] = None /\ \A m \in Name : m # n => cache'[m] = cache[m]
  BY DEF Rest, ClearBookCache
<1>2. Kept' \subseteq Kept \cup {n}
  BY AnsweredFacts
<1> QED  BY <1>1, <1>2 DEF PromisesHold, HalfWritten

LEMMA CacheCleared ==
    ASSUME Rest, NEW n, ClearBookCache(n)
    PROVE  cache' \in [Name -> Body \cup {None}] /\ \A m \in Name : cache'[m] \in {cache[m], None}
BY DEF Rest, ClearBookCache

\* A name without a file is not that of the upload in progress, and nobody was promised it.
LEMMA FreeIsAbsent ==
    ASSUME UploadInProgress, PromisesHold, NEW n \in Name, card[n] = None
    PROVE  Absent(n)
BY NoUploadFacts DEF UploadInProgress, PromisesHold, Absent, HalfWritten

\* More of its body is written to the file called n.
LEMMA CardGrows ==
    ASSUME CardIsPure, NEW n \in Name, NEW b \in Body, NEW j \in Nat, NEW k \in Nat,
           HalfWritten(card[n], b, j), j + k <= Size[b],
           card' = [card EXCEPT ![n] = Add(@, b, k)]
    PROVE  /\ card' \in [Name -> Stored] /\ HalfWritten(card'[n], b, j + k)
           /\ \A m \in Name : m # n => card'[m] = card[m]
<1> DEFINE f == Add(card[n], b, k)
<1>1. card[n] \in PureFile /\ card[n].of = b /\ Amount(card[n]) = j
  BY CardFacts DEF HalfWritten
<1>2. f \in PureFile /\ f.of = b /\ Amount(f) = j + k
  BY <1>1, AddIsPure
<1>3. card' = Put(card, n, f)
  BY DEF Put
<1> HIDE DEF f
<1>4. f \in Stored /\ f # None
  BY <1>2, PureStored
<1>5. card' \in [Name -> Stored] /\ card'[n] = f /\ \A m \in Name : m # n => card'[m] = card[m]
  BY <1>3, <1>4, PutFacts
<1> QED  BY <1>2, <1>4, <1>5 DEF HalfWritten

\* The file of the upload in progress is a file, and not a promised one.
LEMMA UploadsFile ==
    ASSUME Rest, UploadInProgress
    PROVE  ws.at # None => ws.at \in Name /\ card[ws.at] # None /\ ws.at \notin Kept
BY NoUploadFacts DEF UploadInProgress, HalfWritten

-----------------------------------------------------------------------------
(* Form uploads.                                                           *)

LEMMA FormStartStep ==
    ASSUME UInv, NEW n \in Name, NEW b \in Body, FormStart(n, b) PROVE UInv'
<1>1. Rest /\ CardIsPure /\ UploadInProgress /\ PromisesHold
  BY Unfold
<1>2. /\ Serving /\ UNCHANGED <<temp, cache, up, ws, says, answers>>
  BY DEF FormStart
<1>3. PICK opened \in BOOLEAN :
        /\ opened => card[n] = None
        /\ req' = [NoRequest EXCEPT !.op = "form", !.name = n, !.body = b, !.ok = opened]
        /\ card' = IF opened THEN Put(card, n, Empty(b)) ELSE card
  BY DEF FormStart, FormOpens
<1>4. /\ req' \in Request /\ req'.op = "form" /\ req'.name = n /\ req'.body = b /\ req'.got = 0
      /\ req'.ok = opened
  BY <1>3 DEF NoRequest, Request
<1>5. Rest'
  BY <1>1, <1>2, <1>4 DEF Rest
<1>6. Empty(b) \in Stored /\ HalfWritten(Empty(b), b, 0)
  BY EmptyIsPure, PureStored DEF HalfWritten
<1>7. /\ card' \in [Name -> Stored] /\ \A m \in Name : card[m] # None => card'[m] = card[m]
      /\ opened => card'[n] = Empty(b)
  <2>1. CASE opened
    BY <1>1, <1>3, <1>6, <2>1, PutFacts
  <2>2. CASE ~opened
    BY <1>1, <1>3, <2>2 DEF CardIsPure
  <2> QED  BY <2>1, <2>2
<1>8. CardIsPure'
  BY <1>1, <1>2, <1>7 DEF CardIsPure
<1>9. UploadInProgress'
  BY <1>1, <1>2, <1>7, UploadsFile, UploadKept
<1>10. opened => Absent(n)
  BY <1>1, <1>3, FreeIsAbsent
<1>11. RequestInProgress'
  <2>1. opened => Holds(n, b, 0)'
    BY <1>2, <1>6, <1>7, <1>10 DEF Absent, Holds, HalfWritten
  <2>2. up' /\ Size[b] \in Nat
    BY <1>2 DEF Serving
  <2> QED  BY <1>4, <2>1, <2>2 DEF RequestInProgress, Holds
<1>12. PromisesHold'
  BY <1>1, <1>2, <1>7, PromisesKept DEF PromisesHold
<1> QED  BY <1>5, <1>8, <1>9, <1>11, <1>12, Fold

LEMMA OneMore ==
    ASSUME NEW r \in Request, NEW ok \in BOOLEAN
    PROVE  LET q == [r EXCEPT !.got = @ + 1, !.ok = ok]
           IN  /\ q \in Request /\ q.op = r.op /\ q.name = r.name /\ q.body = r.body
               /\ q.got = r.got + 1 /\ q.ok = ok
<1> DEFINE g == r.got + 1
<1>1. g \in Nat
  BY DEF Request
<1> HIDE DEF g
<1>2. LET q == [r EXCEPT !.got = g, !.ok = ok]
      IN  /\ q \in Request /\ q.op = r.op /\ q.name = r.name /\ q.body = r.body
          /\ q.got = g /\ q.ok = ok
  BY <1>1 DEF Request
<1> QED  BY <1>2 DEF g

\* A buffer of the form's file is written, or the write fails.
LEMMA FormFlush ==
    ASSUME UInv, req.op = "form", NEW k \in Nat, req.got + k <= Size[req.body], NEW ok \in BOOLEAN,
           ok => req.ok,
           card' = IF ok THEN [card EXCEPT ![req.name] = Add(@, req.body, k)] ELSE card,
           UNCHANGED <<temp, cache, up, ws, says, answers>>
    PROVE  /\ CardIsPure' /\ UploadInProgress' /\ PromisesHold'
           /\ ok => /\ HalfWritten(card'[req.name], req.body, req.got + k)
                    /\ ws'.at # req.name /\ req.name \notin Kept'
           /\ up /\ req.name \in Name /\ req.body \in Body /\ req.got \in Nat
<1>1. Rest /\ CardIsPure /\ UploadInProgress /\ PromisesHold /\ RequestInProgress
  BY Unfold
<1>2. up /\ req.name \in Name /\ req.body \in Body /\ req.got \in Nat
  BY <1>1 DEF RequestInProgress
<1>3. CASE ok
  <2>1. Holds(req.name, req.body, req.got)
    BY <1>1, <1>3 DEF RequestInProgress
  <2>2. HalfWritten(card[req.name], req.body, req.got) /\ ws.at # req.name /\ req.name \notin Kept
    BY <2>1 DEF Holds, HalfWritten
  <2>3. /\ card' \in [Name -> Stored] /\ HalfWritten(card'[req.name], req.body, req.got + k)
        /\ \A m \in Name : m # req.name => card'[m] = card[m]
    BY <1>1, <1>2, <1>3, <2>2, CardGrows
  <2>4. CardIsPure'
    BY <1>1, <2>3 DEF CardIsPure
  <2>5. UploadInProgress'
    BY <1>1, <2>2, <2>3, UploadsFile, UploadKept
  <2>6. PromisesHold'
    BY <1>1, <2>2, <2>3, PromisesKept DEF PromisesHold
  <2>7. ws'.at # req.name /\ req.name \notin Kept'
    BY <2>2
  <2> QED  BY <1>2, <2>3, <2>4, <2>5, <2>6, <2>7
<1>4. CASE ~ok
  <2>1. UNCHANGED card
    BY <1>4
  <2> QED  BY <1>1, <1>2, <1>4, <2>1, UploadsFile, UploadKept, PromisesKept DEF CardIsPure, PromisesHold
<1> QED  BY <1>3, <1>4

LEMMA FormWriteStep == ASSUME UInv, FormWrite PROVE UInv'
<1>1. Rest /\ RequestInProgress
  BY Unfold
<1>2. req.op = "form" /\ req.got < Size[req.body] /\ UNCHANGED <<temp, cache, up, ws, says, answers>>
  BY DEF FormWrite
<1>3. PICK ok \in BOOLEAN :
        /\ ok => req.ok
        /\ card' = IF ok THEN [card EXCEPT ![req.name] = Add(@, req.body, 1)] ELSE card
        /\ req' = [req EXCEPT !.got = @ + 1, !.ok = ok]
  BY DEF FormWrite
<1>4. req.body \in Body /\ req.got \in Nat /\ Size[req.body] \in Nat
  BY <1>1, <1>2 DEF RequestInProgress
<1>5. req.got + 1 <= Size[req.body]
  BY <1>2, <1>4
<1>6. /\ CardIsPure' /\ UploadInProgress' /\ PromisesHold'
      /\ ok => /\ HalfWritten(card'[req.name], req.body, req.got + 1)
               /\ ws'.at # req.name /\ req.name \notin Kept'
      /\ up /\ req.name \in Name
  BY <1>2, <1>3, <1>5, FormFlush
<1>7. /\ req' \in Request /\ req'.op = "form" /\ req'.name = req.name /\ req'.body = req.body
      /\ req'.got = req.got + 1 /\ req'.ok = ok
  <2>1. req \in Request
    BY <1>1 DEF Rest
  <2>2. req' = [req EXCEPT !.got = @ + 1, !.ok = ok]
    BY <1>3
  <2> QED  BY <1>2, <2>1, <2>2, OneMore
<1>8. Rest'
  BY <1>1, <1>2, <1>7 DEF Rest
<1>9. RequestInProgress'
  BY <1>2, <1>4, <1>5, <1>6, <1>7 DEF RequestInProgress, Holds, HalfWritten
<1> QED  BY <1>6, <1>8, <1>9, Fold

LEMMA FormEndStep == ASSUME UInv, FormEnd PROVE UInv'
<1>1. Rest /\ RequestInProgress
  BY Unfold
<1>2. req.op = "form" /\ UNCHANGED <<temp, cache, up, ws, says, answers>>
  BY DEF FormEnd
<1> DEFINE k == Size[req.body] - req.got
<1>3. PICK ok \in BOOLEAN :
        /\ ok => req.ok
        /\ card' = IF ok THEN [card EXCEPT ![req.name] = Add(@, req.body, k)] ELSE card
        /\ req' = [req EXCEPT !.op = "formEnd", !.ok = ok]
  BY DEF FormEnd
<1>4. /\ req.body \in Body /\ req.got \in Nat /\ Size[req.body] \in Nat /\ req.got <= Size[req.body]
      /\ up /\ req.name \in Name
  BY <1>1, <1>2 DEF RequestInProgress
<1>5. k \in Nat /\ req.got + k <= Size[req.body] /\ req.got + k = Size[req.body]
  BY <1>4
<1> HIDE DEF k
<1>6. /\ CardIsPure' /\ UploadInProgress' /\ PromisesHold'
      /\ ok => /\ HalfWritten(card'[req.name], req.body, req.got + k)
               /\ ws'.at # req.name /\ req.name \notin Kept'
  BY <1>2, <1>3, <1>5, FormFlush
<1>7. /\ req' \in Request /\ req'.op = "formEnd" /\ req'.name = req.name /\ req'.body = req.body
      /\ req'.got = req.got /\ req'.ok = ok
  <2>1. req \in Request
    BY <1>1 DEF Rest
  <2> QED  BY <1>2, <1>3, <1>4, <2>1 DEF Request
<1>8. Rest'
  BY <1>1, <1>2, <1>7 DEF Rest
<1>9. RequestInProgress'
  BY <1>2, <1>4, <1>5, <1>6, <1>7 DEF RequestInProgress, Holds, HalfWritten
<1> QED  BY <1>6, <1>8, <1>9, Fold

\* The client is told that n holds its upload.
LEMMA AnswerStep ==
    ASSUME UInv, req.op \in {"formEnd", "putAnswer"}, req' = NoRequest, UNCHANGED <<card, temp, up, ws, says>>,
           IF req.ok THEN ClearBookCache(req.name) /\ Answered(req.name)
                     ELSE UNCHANGED <<cache, answers>>
    PROVE  UInv'
<1>1. Rest /\ CardIsPure /\ UploadInProgress /\ RequestInProgress /\ PromisesHold
  BY Unfold
<1>2. CardIsPure'
  BY <1>1 DEF CardIsPure
<1>3. RequestInProgress'
  BY NoUploadFacts DEF RequestInProgress
<1>4. req.name \in Name /\ req.body \in Body
  BY <1>1 DEF RequestInProgress
<1>5. CASE req.ok
  <2>1. Holds(req.name, req.body, Size[req.body])
    BY <1>1, <1>5 DEF RequestInProgress
  <2>2. HalfWritten(card[req.name], req.body, Size[req.body]) /\ ws.at # req.name
    BY <2>1 DEF Holds, HalfWritten
  <2>3. ClearBookCache(req.name) /\ Answered(req.name)
    BY <1>5
  <2>4. cache' \in [Name -> Body \cup {None}] /\ PromisesHold'
    BY <1>1, <1>4, <2>2, <2>3, PromiseMade
  <2>5. UploadInProgress'
    <3>1. /\ Kept' \subseteq Kept \cup {req.name}
          /\ ws.at # ws.path /\ ws.path \in strayed => ws.path \in strayed'
      BY <1>1, <1>4, <2>3, AnsweredFacts
    <3> QED  BY <1>1, <2>2, <3>1, UploadsFile, UploadKept
  <2>6. Rest'
    BY <1>1, <1>4, <2>3, <2>4, AnsweredFacts, NoUploadFacts DEF Rest
  <2> QED  BY <1>2, <1>3, <2>4, <2>5, <2>6, Fold
<1>6. CASE ~req.ok
  <2>1. UNCHANGED <<cache, answers>>
    BY <1>6
  <2>2. Rest' /\ UploadInProgress' /\ PromisesHold'
    BY <1>1, <2>1, UploadsFile, UploadKept, PromisesKept, NoUploadFacts DEF Rest
  <2> QED  BY <1>2, <1>3, <2>2, Fold
<1> QED  BY <1>5, <1>6

LEMMA FormAbortedStep == ASSUME UInv, FormAborted PROVE UInv'
<1>1. Rest /\ CardIsPure /\ UploadInProgress /\ RequestInProgress /\ PromisesHold
  BY Unfold
<1>2. /\ req.op = "form" /\ req' = NoRequest /\ UNCHANGED <<temp, cache, up, ws, says, answers>>
      /\ card' = IF req.ok THEN Put(card, req.name, None) ELSE card
  BY DEF FormAborted
<1>3. Rest' /\ RequestInProgress'
  BY <1>1, <1>2, NoUploadFacts DEF Rest, RequestInProgress
<1>4. /\ card' \in [Name -> Stored]
      /\ \A m \in Name : m \in Kept \/ ws.at = m => card'[m] = card[m]
  <2>1. CASE req.ok
    <3>1. req.name \in Name /\ Holds(req.name, req.body, req.got)
      BY <1>1, <1>2, <2>1 DEF RequestInProgress
    <3>2. card' \in [Name -> Stored] /\ \A m \in Name : m # req.name => card'[m] = card[m]
      BY <1>1, <1>2, <2>1, <3>1, NoneStored, PutFacts
    <3> QED  BY <3>1, <3>2 DEF Holds
  <2>2. CASE ~req.ok
    BY <1>1, <1>2, <2>2 DEF CardIsPure
  <2> QED  BY <2>1, <2>2
<1>5. CardIsPure'
  BY <1>1, <1>2, <1>4 DEF CardIsPure
<1>6. UploadInProgress'
  BY <1>1, <1>2, <1>4, UploadsFile, UploadKept
<1>7. PromisesHold'
  BY <1>1, <1>2, <1>4, PromisesKept DEF PromisesHold
<1> QED  BY <1>3, <1>5, <1>6, <1>7, Fold

-----------------------------------------------------------------------------
(* PUT.                                                                    *)

\* Nothing but the request and its temporary file changes.
LEMMA CardKept ==
    ASSUME CardIsPure, UploadInProgress, PromisesHold, Rest, UNCHANGED <<card, cache, up, ws, says, answers>>,
           temp' \in Stored, req' \in Request
    PROVE  Rest' /\ CardIsPure' /\ UploadInProgress' /\ PromisesHold'
BY UploadsFile, UploadKept, PromisesKept DEF Rest, CardIsPure

LEMMA PutStartStep ==
    ASSUME UInv, NEW n \in Name, NEW b \in Body, PutStart(n, b) PROVE UInv'
<1>1. Rest /\ CardIsPure /\ UploadInProgress /\ PromisesHold
  BY Unfold
<1>2. Serving /\ UNCHANGED <<card, cache, up, ws, says, answers>>
  BY DEF PutStart
<1>3. PICK ok \in BOOLEAN :
        /\ temp' = IF ok THEN Empty(b) ELSE None
        /\ req' = [NoRequest EXCEPT !.op = "put", !.name = n, !.body = b, !.ok = ok]
  BY DEF PutStart
<1>4. /\ req' \in Request /\ req'.op = "put" /\ req'.name = n /\ req'.body = b /\ req'.got = 0
      /\ req'.ok = ok
  BY <1>3 DEF NoRequest, Request
<1>5. Empty(b) \in Stored /\ HalfWritten(Empty(b), b, 0)
  BY EmptyIsPure, PureStored DEF HalfWritten
<1>6. temp' \in Stored /\ (ok => HalfWritten(temp', b, 0))
  BY <1>3, <1>5, NoneStored
<1>7. RequestInProgress'
  <2>1. up' /\ Size[b] \in Nat
    BY <1>2 DEF Serving
  <2> QED  BY <1>4, <1>6, <2>1 DEF RequestInProgress, HalfWritten
<1> QED  BY <1>1, <1>2, <1>4, <1>6, <1>7, CardKept, Fold

LEMMA PutWriteStep == ASSUME UInv, PutWrite PROVE UInv'
<1>1. Rest /\ CardIsPure /\ UploadInProgress /\ PromisesHold /\ RequestInProgress
  BY Unfold
<1>2. /\ req.op = "put" /\ req.got < Size[req.body]
      /\ UNCHANGED <<card, cache, up, ws, says, answers>>
  BY DEF PutWrite
<1>3. PICK ok \in BOOLEAN :
        /\ ok => req.ok
        /\ temp' = IF ok THEN Add(temp, req.body, 1) ELSE temp
        /\ req' = [req EXCEPT !.got = @ + 1, !.ok = ok]
  BY DEF PutWrite
<1>4. /\ req.body \in Body /\ req.got \in Nat /\ Size[req.body] \in Nat /\ req.got + 1 <= Size[req.body]
      /\ up /\ req.name \in Name /\ req \in Request
  BY <1>1, <1>2 DEF RequestInProgress, Rest
<1>5. /\ req' \in Request /\ req'.op = "put" /\ req'.name = req.name /\ req'.body = req.body
      /\ req'.got = req.got + 1 /\ req'.ok = ok
  <2>1. req' = [req EXCEPT !.got = @ + 1, !.ok = ok]
    BY <1>3
  <2> QED  BY <1>2, <1>4, <2>1, OneMore
<1>6. temp' \in Stored /\ (ok => HalfWritten(temp', req.body, req.got + 1))
  <2>1. CASE ok
    <3>1. HalfWritten(temp, req.body, req.got)
      BY <1>1, <1>2, <1>3, <2>1 DEF RequestInProgress
    <3>2. temp \in PureFile /\ temp.of = req.body /\ Amount(temp) = req.got
      BY <1>1, <3>1 DEF CardIsPure, HalfWritten, Stored
    <3>3. temp' = Add(temp, temp.of, 1)
      BY <1>3, <2>1, <3>2
    <3>4. temp' \in PureFile /\ temp'.of = req.body /\ Amount(temp') = req.got + 1
      BY <1>4, <3>2, <3>3, AddIsPure
    <3> QED  BY <3>4, PureStored DEF HalfWritten
  <2>2. CASE ~ok
    BY <1>1, <1>3, <2>2 DEF CardIsPure
  <2> QED  BY <2>1, <2>2
<1>7. RequestInProgress'
  BY <1>2, <1>4, <1>5, <1>6 DEF RequestInProgress, HalfWritten
<1> QED  BY <1>1, <1>2, <1>5, <1>6, <1>7, CardKept, Fold

LEMMA PutRemovesOldStep == ASSUME UInv, PutRemovesOld PROVE UInv'
<1>1. Rest /\ CardIsPure /\ UploadInProgress /\ PromisesHold /\ RequestInProgress
  BY Unfold
<1>2. /\ req.op = "put" /\ req.got = Size[req.body] /\ req.ok
      /\ card' = Put(card, req.name, None) /\ Follow(req.name, None)
      /\ promised' = promised \ {req.name} /\ req' = [req EXCEPT !.op = "putEnd"]
      /\ UNCHANGED <<temp, cache, up, says>>
  BY DEF PutRemovesOld, PutReplaces
<1>3. /\ req.name \in Name /\ up /\ req.body \in Body /\ req.got \in Nat
      /\ HalfWritten(temp, req.body, Size[req.body])
  BY <1>1, <1>2 DEF RequestInProgress
<1>4. /\ req' \in Request /\ req'.op = "putEnd" /\ req'.name = req.name /\ req'.body = req.body
      /\ req'.got = req.got
  BY <1>1, <1>2 DEF Rest, Request
<1>5. /\ card' \in [Name -> Stored] /\ card'[req.name] = None
      /\ \A m \in Name : m # req.name => card'[m] = card[m]
  BY <1>1, <1>2, <1>3, NoneStored, PutFacts
<1>6. ws' \in Upload /\ UploadInProgress' /\ ws'.at # req.name
  BY <1>1, <1>2, <1>3, <1>5, UploadLosesFile
<1>11. promised' \subseteq Name /\ strayed' \subseteq Name /\ Kept' \subseteq Kept \ {req.name}
  BY <1>1, <1>2, <1>3, FollowFacts
<1>7. Rest'
  BY <1>1, <1>2, <1>4, <1>6, <1>11 DEF Rest
<1>8. CardIsPure'
  BY <1>1, <1>2, <1>5 DEF CardIsPure
<1>9. RequestInProgress'
  BY <1>2, <1>3, <1>4, <1>5, <1>6, <1>11 DEF RequestInProgress, HalfWritten, Absent
<1>10. PromisesHold'
  BY <1>1, <1>2, <1>5, <1>11, PromisesKept DEF PromisesHold
<1> QED  BY <1>6, <1>7, <1>8, <1>9, <1>10, Fold

LEMMA PutRenamesStep == ASSUME UInv, PutRenames PROVE UInv'
<1>1. Rest /\ CardIsPure /\ UploadInProgress /\ PromisesHold /\ RequestInProgress
  BY Unfold
<1>2. req.op = "putEnd" /\ temp' = None /\ UNCHANGED <<cache, up, ws, says, answers>>
  BY DEF PutRenames
<1>3. PICK ok \in BOOLEAN :
        /\ card' = IF ok THEN Put(card, req.name, temp) ELSE card
        /\ req' = [req EXCEPT !.op = "putAnswer", !.ok = ok]
  BY DEF PutRenames
<1>4. /\ req.name \in Name /\ up /\ req.body \in Body /\ req.got \in Nat /\ req.got <= Size[req.body]
      /\ HalfWritten(temp, req.body, Size[req.body]) /\ Absent(req.name)
  BY <1>1, <1>2 DEF RequestInProgress
<1>5. /\ req' \in Request /\ req'.op = "putAnswer" /\ req'.name = req.name /\ req'.body = req.body
      /\ req'.got = req.got /\ req'.ok = ok
  <2>1. req \in Request
    BY <1>1 DEF Rest
  <2> QED  BY <1>3, <2>1 DEF Request
<1>6. temp \in Stored
  BY <1>1 DEF CardIsPure
<1>7. /\ card' \in [Name -> Stored] /\ (ok => card'[req.name] = temp)
      /\ \A m \in Name : m # req.name => card'[m] = card[m]
  <2>1. CASE ok
    BY <1>1, <1>3, <1>4, <1>6, <2>1, PutFacts
  <2>2. CASE ~ok
    BY <1>1, <1>3, <2>2 DEF CardIsPure
  <2> QED  BY <2>1, <2>2
<1>8. Rest'
  BY <1>1, <1>2, <1>5 DEF Rest
<1>9. CardIsPure'
  BY <1>2, <1>7, NoneStored DEF CardIsPure
<1>10. UploadInProgress'
  BY <1>1, <1>2, <1>4, <1>7, UploadsFile, UploadKept DEF Absent
<1>11. RequestInProgress'
  BY <1>2, <1>4, <1>5, <1>7 DEF RequestInProgress, HalfWritten, Absent, Holds
<1>12. PromisesHold'
  BY <1>1, <1>2, <1>4, <1>7, PromisesKept DEF PromisesHold, Absent
<1> QED  BY <1>8, <1>9, <1>10, <1>11, <1>12, Fold

LEMMA PutGivesUpStep == ASSUME UInv, PutFailed \/ PutAborted PROVE UInv'
<1>1. Rest /\ CardIsPure /\ UploadInProgress /\ PromisesHold
  BY Unfold
<1>2. temp' = None /\ req' = NoRequest /\ UNCHANGED <<card, cache, up, ws, says, answers>>
  BY DEF PutFailed, PutAborted
<1>3. RequestInProgress'
  BY <1>2, NoUploadFacts DEF RequestInProgress
<1> QED  BY <1>1, <1>2, <1>3, NoneStored, NoUploadFacts, CardKept, Fold

-----------------------------------------------------------------------------
(* Requests about files on the card.                                       *)

\* The file called n is deleted, with or without its cache.
LEMMA FileGoes ==
    ASSUME Rest, CardIsPure, UploadInProgress, PromisesHold, NEW n \in Name,
           card' = Put(card, n, None), Follow(n, None), promised' = promised \ {n},
           cache' \in [Name -> Body \cup {None}], \A m \in Name : cache'[m] \in {cache[m], None},
           req' \in Request, UNCHANGED <<temp, up, says>>
    PROVE  Rest' /\ CardIsPure' /\ UploadInProgress' /\ PromisesHold' /\ Absent(n)'
<1>1. card' \in [Name -> Stored] /\ card'[n] = None /\ \A m \in Name : m # n => card'[m] = card[m]
  BY NoneStored, PutFacts
<1>2. CardIsPure'
  BY <1>1 DEF CardIsPure
<1>3. ws' \in Upload /\ UploadInProgress' /\ ws'.at # n
  BY <1>1, UploadLosesFile
<1>6. promised' \subseteq Name /\ strayed' \subseteq Name /\ Kept' \subseteq Kept \ {n}
  BY FollowFacts
<1>4. Rest'
  BY <1>3, <1>6 DEF Rest
<1>5. PromisesHold'
  BY <1>1, <1>6, PromisesKept DEF PromisesHold
<1> QED  BY <1>1, <1>2, <1>3, <1>4, <1>5, <1>6 DEF Absent

LEMMA DavDeleteStep == ASSUME UInv, NEW n \in Name, DavDelete(n) PROVE UInv'
<1>1. Rest /\ CardIsPure /\ UploadInProgress /\ PromisesHold
  BY Unfold
<1>2. /\ Serving /\ ClearBookCache(n) /\ card' = Put(card, n, None) /\ Follow(n, None)
      /\ promised' = promised \ {n} /\ UNCHANGED <<temp, up, says, req>>
  BY DEF DavDelete
<1>3. req' \in Request
  BY <1>1, <1>2 DEF Rest
<1>4. cache' \in [Name -> Body \cup {None}] /\ \A m \in Name : cache'[m] \in {cache[m], None}
  BY <1>1, <1>2, CacheCleared
<1> QED  BY <1>1, <1>2, <1>3, <1>4, FileGoes, ServingKeepsRequest, Fold

LEMMA DeleteStep == ASSUME UInv, NEW n \in Name, Delete(n) PROVE UInv'
<1>1. Rest /\ CardIsPure /\ UploadInProgress /\ PromisesHold
  BY Unfold
<1>2. /\ Serving /\ card' = Put(card, n, None) /\ Follow(n, None)
      /\ promised' = promised \ {n} /\ UNCHANGED <<temp, cache, up, says>>
      /\ req' = [NoRequest EXCEPT !.op = "clear", !.name = n]
  BY DEF Delete
<1>3. req' \in Request /\ req'.op = "clear" /\ req'.name = n
  BY <1>2 DEF NoRequest, Request
<1>4. cache' \in [Name -> Body \cup {None}] /\ \A m \in Name : cache'[m] \in {cache[m], None}
  BY <1>1, <1>2 DEF Rest
<1>5. RequestInProgress'
  BY <1>2, <1>3 DEF RequestInProgress, Serving
<1> QED  BY <1>1, <1>2, <1>3, <1>4, <1>5, FileGoes, Fold

LEMMA DeleteClearsStep == ASSUME UInv, DeleteClears PROVE UInv'
<1>1. Rest /\ CardIsPure /\ UploadInProgress /\ PromisesHold
  BY Unfold
<1>2. ClearBookCache(req.name) /\ req' = NoRequest /\ UNCHANGED <<card, temp, up, ws, says, answers>>
  BY DEF DeleteClears
<1>3. cache' \in [Name -> Body \cup {None}] /\ \A m \in Name : cache'[m] \in {cache[m], None}
  BY <1>1, <1>2, CacheCleared
<1>4. Rest' /\ CardIsPure'
  BY <1>1, <1>2, <1>3, NoUploadFacts DEF Rest, CardIsPure
<1>5. UploadInProgress'
  BY <1>1, <1>2, UploadsFile, UploadKept
<1>6. PromisesHold'
  BY <1>1, <1>2, <1>3, PromisesKept DEF PromisesHold
<1>7. RequestInProgress'
  BY <1>2, NoUploadFacts DEF RequestInProgress
<1> QED  BY <1>4, <1>5, <1>6, <1>7, Fold

\* A file takes a name that is free, or keeps its own.
LEMMA FileMoves ==
    ASSUME Rest, CardIsPure, UploadInProgress, PromisesHold, NEW s \in Name, NEW d \in Name, s # d,
           Absent(d), card[s] # None, Renamed(s, d) \/ RenameFails, ClearBookCache(s),
           req' \in Request, UNCHANGED <<temp, up, says>>
    PROVE  Rest' /\ CardIsPure' /\ UploadInProgress' /\ PromisesHold'
<1>1. cache' \in [Name -> Body \cup {None}] /\ \A m \in Name : cache'[m] \in {cache[m], None}
  BY CacheCleared
<1>2. CASE RenameFails
  <2>1. UNCHANGED <<card, ws, answers>>
    BY <1>2 DEF RenameFails
  <2>2. UploadInProgress'
    BY <2>1, UploadsFile, UploadKept
  <2>3. PromisesHold'
    BY <1>1, <2>1, PromisesKept DEF PromisesHold
  <2> QED  BY <1>1, <2>1, <2>2, <2>3 DEF Rest, CardIsPure
<1>3. CASE Renamed(s, d)
  <2>1. /\ card' = [card EXCEPT ![s] = None, ![d] = card[s]] /\ Follow(s, d)
        /\ promised' = promised \ {s, d}
    BY <1>3 DEF Renamed
  <2>2. /\ card' \in [Name -> Stored] /\ card'[s] = None /\ card'[d] = card[s]
        /\ \A m \in Name \ {s, d} : card'[m] = card[m]
    BY <2>1, NoneStored DEF CardIsPure
  <2>3. CardIsPure'
    BY <2>2 DEF CardIsPure
  <2>7. /\ promised' \subseteq Name /\ strayed' \subseteq Name /\ Kept' \subseteq Kept \ {s, d}
        /\ strayed \subseteq strayed' /\ (ws.at = s /\ ws.path = s => s \in strayed')
    BY <2>1, FollowFacts
  <2>4. PromisesHold'
    BY <1>1, <2>2, <2>7, PromisesKept DEF PromisesHold
  <2>5. ws' \in Upload /\ UploadInProgress'
    <3>1. CASE ws.at = s
      <4>1. ws' = [ws EXCEPT !.at = d]
        BY <2>1, <3>1 DEF Follow
      <4>2. /\ ws' \in Upload /\ ws'.owner = ws.owner /\ ws'.path = ws.path /\ ws'.at = d
            /\ ws'.body = ws.body /\ ws'.got = ws.got
        BY <4>1 DEF Rest, Upload
      <4>3. ws.owner # None
        BY <3>1, NoUploadFacts DEF UploadInProgress
      <4>4. d \notin Kept' /\ HalfWritten(card[s], ws.body, ws.got) /\ ws.path \in strayed'
        BY <2>7, <3>1, <4>3 DEF UploadInProgress
      <4> QED  BY <2>2, <4>2, <4>3, <4>4 DEF UploadInProgress, HalfWritten
    <3>2. CASE ws.at # s
      <4>1. ws' = ws
        BY <2>1, <3>2 DEF Follow
      <4>2. ws.at # d
        BY DEF Absent
      <4> QED  BY <2>2, <2>7, <3>2, <4>1, <4>2, UploadsFile, UploadKept DEF Rest
    <3> QED  BY <3>1, <3>2
  <2>6. Rest'
    BY <1>1, <2>5, <2>7 DEF Rest
  <2> QED  BY <2>3, <2>4, <2>5, <2>6
<1> QED  BY <1>2, <1>3

LEMMA RenameStep == ASSUME UInv, NEW s \in Name, NEW d \in Name, Rename(s, d) PROVE UInv'
<1>1. Rest /\ CardIsPure /\ UploadInProgress /\ PromisesHold
  BY Unfold
<1>2. /\ Serving /\ card[s] # None /\ card[d] = None /\ ClearBookCache(s)
      /\ Renamed(s, d) \/ (RenameFails /\ UNCHANGED <<temp, up, says, req>>)
  BY DEF Rename
<1>3. UNCHANGED <<temp, up, says, req>>
  BY DEF Rename
<1>4. s # d /\ Absent(d) /\ req' \in Request
  BY <1>1, <1>2, <1>3, FreeIsAbsent DEF Rest
<1>5. Renamed(s, d) \/ RenameFails
  BY DEF Rename
<1> QED  BY <1>1, <1>2, <1>3, <1>4, <1>5, FileMoves, ServingKeepsRequest, Fold

LEMMA DavMoveStep == ASSUME UInv, NEW s \in Name, NEW d \in Name, DavMove(s, d) PROVE UInv'
<1>1. Rest /\ CardIsPure /\ UploadInProgress /\ PromisesHold
  BY Unfold
<1>2. /\ Serving /\ s # d /\ card[s] # None /\ card' = Put(card, d, None) /\ Follow(d, None)
      /\ promised' = promised \ {d} /\ UNCHANGED <<temp, cache, up, says>>
      /\ req' = [NoRequest EXCEPT !.op = "move", !.name = s, !.dst = d]
  BY DEF DavMove
<1>3. req' \in Request /\ req'.op = "move" /\ req'.name = s /\ req'.dst = d
  BY <1>2 DEF NoRequest, Request
<1>4. cache' \in [Name -> Body \cup {None}] /\ \A m \in Name : cache'[m] \in {cache[m], None}
  BY <1>1, <1>2 DEF Rest
<1>5. Rest' /\ CardIsPure' /\ UploadInProgress' /\ PromisesHold' /\ Absent(d)'
  BY <1>1, <1>2, <1>3, <1>4, FileGoes
<1>6. card'[s] # None
  BY <1>1, <1>2, NoneStored, PutFacts
<1>7. up'
  BY <1>2 DEF Serving
<1>8. card'[d] = None /\ ws'.at # d /\ d \notin Kept'
  BY <1>5 DEF Absent
<1>9. RequestInProgress'
  BY <1>2, <1>3, <1>6, <1>7, <1>8 DEF RequestInProgress, Absent
<1> QED  BY <1>5, <1>9, Fold

LEMMA DavMoveRenamesStep == ASSUME UInv, DavMoveRenames PROVE UInv'
<1>1. Rest /\ CardIsPure /\ UploadInProgress /\ PromisesHold /\ RequestInProgress
  BY Unfold
<1>2. req.op = "move" /\ ClearBookCache(req.name) /\ req' = NoRequest /\ UNCHANGED <<temp, up, says>>
  BY DEF DavMoveRenames
<1>3. Renamed(req.name, req.dst) \/ RenameFails
  BY DEF DavMoveRenames
<1>4. /\ req.name \in Name /\ req.dst \in Name /\ req.name # req.dst /\ card[req.name] # None
      /\ Absent(req.dst)
  BY <1>1, <1>2 DEF RequestInProgress
<1>5. RequestInProgress' /\ req' \in Request
  BY <1>2, NoUploadFacts DEF RequestInProgress
<1> QED  BY <1>1, <1>2, <1>3, <1>4, <1>5, FileMoves, Fold

LEMMA DavCopyStep == ASSUME UInv, NEW s \in Name, NEW d \in Name, DavCopy(s, d) PROVE UInv'
<1>1. Rest /\ CardIsPure /\ UploadInProgress /\ PromisesHold
  BY Unfold
<1>2. /\ Serving /\ s # d /\ card[s] # None /\ Follow(d, None)
      /\ promised' = promised \ {d} /\ UNCHANGED <<temp, cache, up, says>>
  BY DEF DavCopy
<1> DEFINE b == card[s].of
<1>3. PICK opened \in BOOLEAN :
        /\ card' = Put(card, d, IF opened THEN Empty(b) ELSE None)
        /\ req' = IF opened THEN [NoRequest EXCEPT !.op = "copy", !.name = s, !.dst = d] ELSE NoRequest
  BY DEF DavCopy
<1>4. b \in Body /\ card[s] \in PureFile /\ Amount(card[s]) \in Nat
  BY <1>1, <1>2, CardFacts, PureFacts
<1>5. Empty(b) \in Stored /\ HalfWritten(Empty(b), b, 0)
  BY <1>4, EmptyIsPure, PureStored DEF HalfWritten
<1>6. /\ card' \in [Name -> Stored] /\ card'[d] = IF opened THEN Empty(b) ELSE None
      /\ \A m \in Name : m # d => card'[m] = card[m]
  <2> DEFINE f == IF opened THEN Empty(b) ELSE None
  <2>1. f \in Stored /\ card' = Put(card, d, f)
    BY <1>3, <1>5, NoneStored
  <2> HIDE DEF f
  <2>2. card' \in [Name -> Stored] /\ card'[d] = f /\ \A m \in Name : m # d => card'[m] = card[m]
    BY <1>1, <2>1, PutFacts
  <2> QED  BY <2>2 DEF f
<1>7. CardIsPure'
  BY <1>1, <1>2, <1>6 DEF CardIsPure
<1>8. ws' \in Upload /\ UploadInProgress' /\ ws'.at # d
  BY <1>1, <1>2, <1>6, UploadLosesFile
<1>13. promised' \subseteq Name /\ strayed' \subseteq Name /\ Kept' \subseteq Kept \ {d}
  BY <1>1, <1>2, FollowFacts
<1>9. PromisesHold'
  BY <1>1, <1>2, <1>6, <1>13, PromisesKept DEF PromisesHold
<1>10. card'[s] = card[s]
  BY <1>2, <1>6
<1>11. CASE opened
  <2>1. /\ req' \in Request /\ req'.op = "copy" /\ req'.name = s /\ req'.dst = d /\ req'.got = 0
    BY <1>3, <1>11 DEF NoRequest, Request
  <2>2. Rest'
    BY <1>1, <1>2, <1>8, <1>13, <2>1 DEF Rest
  <2>3. HalfWritten(card'[d], b, 0) /\ d \notin Kept'
    BY <1>5, <1>6, <1>11, <1>13
  <2>4. up'
    BY <1>2 DEF Serving
  <2>5. RequestInProgress'
    BY <1>2, <1>4, <1>8, <1>10, <2>1, <2>3, <2>4 DEF RequestInProgress, HalfWritten, Holds
  <2> QED  BY <1>7, <1>8, <1>9, <2>2, <2>5, Fold
<1>12. CASE ~opened
  <2>1. req' = NoRequest
    BY <1>3, <1>12
  <2>2. Rest' /\ RequestInProgress'
    BY <1>1, <1>2, <1>8, <1>13, <2>1, NoUploadFacts DEF Rest, RequestInProgress
  <2> QED  BY <1>7, <1>8, <1>9, <2>2, Fold
<1> QED  BY <1>11, <1>12

LEMMA DavCopyWritesStep == ASSUME UInv, DavCopyWrites PROVE UInv'
<1>1. Rest /\ CardIsPure /\ UploadInProgress /\ PromisesHold /\ RequestInProgress
  BY Unfold
<1>2. /\ req.op = "copy" /\ req.got < Len(card[req.name].bytes)
      /\ card' = [card EXCEPT ![req.dst] = Add(@, card[req.name].bytes[req.got + 1], 1)]
      /\ req' = [req EXCEPT !.got = @ + 1]
      /\ UNCHANGED <<temp, cache, up, ws, says, answers>>
  BY DEF DavCopyWrites
<1> DEFINE f == card[req.name]
           d == req.dst
<1>3. /\ up /\ req.name \in Name /\ d \in Name /\ req.name # d /\ f # None /\ req.got \in Nat
      /\ Holds(d, f.of, req.got)
  BY <1>1, <1>2 DEF RequestInProgress
<1>4. f \in PureFile /\ f.of \in Body /\ Amount(f) \in Nat /\ Amount(f) <= Size[f.of] /\ Size[f.of] \in Nat
  BY <1>1, <1>3, CardFacts, PureFacts
<1>5. f.bytes[req.got + 1] = f.of /\ req.got + 1 <= Amount(f)
  <2>1. \A i \in 1 .. Len(f.bytes) : f.bytes[i] = f.of
    BY <1>4 DEF PureFile
  <2>2. Len(f.bytes) \in Nat /\ req.got < Len(f.bytes)
    BY <1>2, <1>4 DEF Amount
  <2> HIDE DEF f
  <2>3. req.got + 1 \in 1 .. Len(f.bytes)
    BY <1>3, <2>2
  <2> QED  BY <1>3, <2>1, <2>2, <2>3 DEF Amount
<1>6. req.got + 1 <= Size[f.of]
  BY <1>3, <1>4, <1>5
<1>7. HalfWritten(card[d], f.of, req.got) /\ ws.at # d /\ d \notin Kept
  BY <1>3 DEF HalfWritten, Holds
<1>8. card' = [card EXCEPT ![d] = Add(@, f.of, 1)]
  BY <1>2, <1>5
<1>9. req' \in Request /\ req'.op = "copy" /\ req'.name = req.name /\ req'.dst = d /\ req'.got = req.got + 1
  <2>1. req \in Request
    BY <1>1 DEF Rest
  <2> QED  BY <1>2, <1>3, <2>1 DEF Request
<1> HIDE DEF f, d
<1>10. /\ card' \in [Name -> Stored] /\ HalfWritten(card'[d], f.of, req.got + 1)
       /\ \A m \in Name : m # d => card'[m] = card[m]
  BY <1>1, <1>3, <1>4, <1>6, <1>7, <1>8, CardGrows
<1>11. card'[req.name] = f
  BY <1>3, <1>10 DEF f
<1>12. Rest' /\ CardIsPure'
  BY <1>1, <1>2, <1>9, <1>10 DEF Rest, CardIsPure
<1>13. UploadInProgress'
  BY <1>1, <1>2, <1>7, <1>10, UploadsFile, UploadKept
<1>14. PromisesHold'
  BY <1>1, <1>2, <1>7, <1>10, PromisesKept DEF PromisesHold
<1>15. RequestInProgress'
  BY <1>2, <1>3, <1>5, <1>7, <1>9, <1>10, <1>11 DEF RequestInProgress, HalfWritten, Holds
<1> QED  BY <1>12, <1>13, <1>14, <1>15, Fold

LEMMA DavCopyEndsStep == ASSUME UInv, DavCopyEnds PROVE UInv'
<1>1. Rest /\ CardIsPure /\ UploadInProgress /\ PromisesHold /\ RequestInProgress
  BY Unfold
<1>2. /\ req.op = "copy" /\ req' = NoRequest /\ UNCHANGED <<temp, cache, up, ws, says, answers>>
      /\ card' = card \/ card' = Put(card, req.dst, None)
  BY DEF DavCopyEnds
<1>3. req.dst \in Name /\ ws.at # req.dst /\ req.dst \notin Kept
  BY <1>1, <1>2 DEF RequestInProgress, Holds
<1>4. card' \in [Name -> Stored] /\ \A m \in Name : m # req.dst => card'[m] = card[m]
  <2>1. CASE card' = card
    BY <1>1, <2>1 DEF CardIsPure
  <2>2. CASE card' = Put(card, req.dst, None)
    BY <1>1, <1>3, <2>2, NoneStored, PutFacts
  <2> QED  BY <1>2, <2>1, <2>2
<1>5. Rest' /\ CardIsPure' /\ RequestInProgress'
  BY <1>1, <1>2, <1>4, NoUploadFacts DEF Rest, CardIsPure, RequestInProgress
<1>6. UploadInProgress'
  BY <1>1, <1>2, <1>3, <1>4, UploadsFile, UploadKept
<1>7. PromisesHold'
  BY <1>1, <1>2, <1>3, <1>4, PromisesKept DEF PromisesHold
<1> QED  BY <1>5, <1>6, <1>7, Fold

-----------------------------------------------------------------------------
(* The device.                                                             *)

LEMMA StartServerStep == ASSUME UInv, StartServer PROVE UInv'
<1>1. Rest /\ CardIsPure /\ UploadInProgress /\ PromisesHold /\ RequestInProgress
  BY Unfold
<1>2. ~up /\ up' = TRUE /\ UNCHANGED <<card, temp, cache, ws, says, req, answers>>
  BY DEF StartServer
<1>3. Rest' /\ CardIsPure' /\ PromisesHold'
  BY <1>1, <1>2 DEF Rest, CardIsPure, PromisesHold
<1>4. UploadInProgress' /\ RequestInProgress'
  BY <1>1, <1>2 DEF UploadInProgress, RequestInProgress
<1> QED  BY <1>3, <1>4, Fold

LEMMA OpenBookStep == ASSUME UInv, NEW n \in Name, OpenBook(n) PROVE UInv'
<1>1. Rest /\ CardIsPure /\ UploadInProgress /\ PromisesHold /\ RequestInProgress
  BY Unfold
<1>2. /\ ~up /\ IsWhole(card[n]) /\ cache' = [cache EXCEPT ![n] = card[n].of]
      /\ UNCHANGED <<card, temp, up, ws, says, req, answers>>
  BY DEF OpenBook
<1>3. card[n].of \in Body
  BY <1>1, <1>2, CardFacts, PureFacts DEF IsWhole
<1>4. Rest' /\ CardIsPure'
  BY <1>1, <1>2, <1>3 DEF Rest, CardIsPure
<1>5. cache'[n] = card[n].of /\ \A m \in Name : m # n => cache'[m] = cache[m]
  BY <1>1, <1>2 DEF Rest
<1>6. PromisesHold'
  BY <1>1, <1>2, <1>5 DEF PromisesHold
<1>7. UploadInProgress'
  BY <1>1, <1>2, UploadsFile, UploadKept
<1>8. RequestInProgress'
  BY <1>1, <1>2 DEF RequestInProgress
<1> QED  BY <1>4, <1>6, <1>7, <1>8, Fold

\* No file that is being written was promised to a client.
LEMMA PromisedAreClosed ==
    ASSUME Rest, UploadInProgress, RequestInProgress, NEW n \in Kept
    PROVE  n \notin OpenFiles
<1>1. ws.at # n
  BY UploadsFile, NameAssumption DEF Rest
<1>2. ~(req.op = "form" /\ req.ok /\ req.name = n)
  BY DEF RequestInProgress, Holds
<1>3. ~(req.op = "copy" /\ req.dst = n)
  BY DEF RequestInProgress, Holds
<1> QED  BY <1>1, <1>2, <1>3 DEF OpenFiles

\* Every file that is open is there.
LEMMA OpenFilesExist ==
    ASSUME Rest, UploadInProgress, RequestInProgress, NEW n \in OpenFiles
    PROVE  card[n] # None
<1>1. CASE ws.at = n
  BY <1>1, UploadsFile DEF OpenFiles
<1>2. CASE req.op = "form" /\ req.ok /\ req.name = n
  BY <1>2 DEF RequestInProgress, Holds
<1>3. CASE req.op = "copy" /\ req.dst = n
  BY <1>3 DEF RequestInProgress, Holds
<1> QED  BY <1>1, <1>2, <1>3 DEF OpenFiles

LEMMA PowerLossStep == ASSUME UInv, PowerLoss PROVE UInv'
<1>1. Rest /\ CardIsPure /\ UploadInProgress /\ PromisesHold /\ RequestInProgress
  BY Unfold
<1>2. /\ up' = FALSE /\ temp' = None /\ ws' = NoUpload /\ says' = [c \in Client |-> None]
      /\ req' = NoRequest /\ UNCHANGED <<cache, answers>>
  BY DEF PowerLoss
<1>3. PICK k \in [Name -> UNION {0 .. Size[b] : b \in Body}] :
        card' = [n \in Name |-> IF n \in OpenFiles THEN Cut(card[n], k[n]) ELSE card[n]]
  BY DEF PowerLoss
<1>4. ASSUME NEW n \in Name PROVE k[n] \in Nat
  <2>1. PICK b \in Body : k[n] \in 0 .. Size[b]
    BY <1>3
  <2> QED  BY <2>1
<1>5. ASSUME NEW n \in Name
      PROVE  card'[n] \in Stored /\ (n \notin OpenFiles => card'[n] = card[n])
  <2>1. CASE n \in OpenFiles
    <3>1. card[n] \in PureFile
      BY <1>1, <2>1, OpenFilesExist, CardFacts
    <3>2. card'[n] = Cut(card[n], k[n])
      BY <1>3, <2>1
    <3> QED  BY <1>4, <2>1, <3>1, <3>2, CutIsPure, PureStored
  <2>2. CASE n \notin OpenFiles
    BY <1>1, <1>3, <2>2, CardFacts
  <2> QED  BY <2>1, <2>2
<1>6. card' \in [Name -> Stored]
  BY <1>3, <1>5
<1>7. CardIsPure'
  BY <1>2, <1>6, NoneStored DEF CardIsPure
<1>8. Rest'
  BY <1>1, <1>2, NoUploadFacts DEF Rest
<1>9. UploadInProgress' /\ RequestInProgress'
  BY <1>2, NoUploadFacts DEF UploadInProgress, RequestInProgress
<1>10. Kept \subseteq Name
  BY <1>1 DEF Rest
<1>11. PromisesHold'
  BY <1>1, <1>2, <1>5, <1>10, PromisedAreClosed, PromisesKept
<1> QED  BY <1>7, <1>8, <1>9, <1>11, Fold

-----------------------------------------------------------------------------
LEMMA InitUInv == Init => UInv
<1> SUFFICES ASSUME Init PROVE UInv
  OBVIOUS
<1>1. CardIsPure
  BY NoneStored DEF Init, CardIsPure
<1>2. Rest
  BY NoUploadFacts DEF Init, Rest
<1>3. UploadInProgress /\ RequestInProgress /\ PromisesHold
  BY NoUploadFacts DEF Init, UploadInProgress, RequestInProgress, PromisesHold
<1> QED  BY <1>1, <1>2, <1>3, TypeParts DEF UInv

LEMMA NextUInv == UInv /\ [Next]_vars => UInv'
<1> SUFFICES ASSUME UInv, [Next]_vars PROVE UInv'
  OBVIOUS
<1>1. CASE UNCHANGED vars
  <2>1. Rest' /\ CardIsPure'
    BY <1>1, Unfold DEF vars, Rest, CardIsPure
  <2>2. UploadInProgress' /\ RequestInProgress' /\ PromisesHold'
    BY <1>1, Unfold DEF vars, UploadInProgress, RequestInProgress, PromisesHold, HalfWritten, Holds, Absent
  <2> QED  BY <2>1, <2>2, Fold
<1>2. CASE WebSocket
  <2>1. \A k \in 1 .. 2 : k \in Nat \ {0}
    OBVIOUS
  <2> QED  BY <1>2, <2>1, WsStartRefusedStep, WsStartStep, WsBinaryStep, WsDisconnectedStep DEF WebSocket
<1>3. CASE Form
  <2>1. ASSUME FormAnswer PROVE UInv'
    BY <2>1, AnswerStep DEF FormAnswer
  <2> QED  BY <1>3, <2>1, FormStartStep, FormWriteStep, FormEndStep, FormAbortedStep DEF Form
<1>4. CASE DavPut
  <2>1. ASSUME PutAnswer PROVE UInv'
    BY <2>1, AnswerStep DEF PutAnswer
  <2> QED
    BY <1>4, <2>1, PutStartStep, PutWriteStep, PutRemovesOldStep, PutRenamesStep, PutGivesUpStep DEF DavPut
<1>5. CASE Manage
  BY <1>5, DavDeleteStep, DeleteStep, DeleteClearsStep, RenameStep, DavMoveStep, DavMoveRenamesStep,
     DavCopyStep, DavCopyWritesStep, DavCopyEndsStep DEF Manage
<1>6. CASE Device
  BY <1>6, StartServerStep, StopServerStep, PowerLossStep, OpenBookStep DEF Device
<1> QED  BY <1>1, <1>2, <1>3, <1>4, <1>5, <1>6 DEF Next

LEMMA UploadsInvariant == Spec => []UInv
BY InitUInv, NextUInv, PTL DEF Spec

-----------------------------------------------------------------------------
(* A complete file goes only when a request says so.                       *)

LEMMA OnlyThere ==
    ASSUME CardIsPure, NEW m \in Name, NEW f, card' = [card EXCEPT ![m] = f]
    PROVE  \A n \in Name : n # m => card'[n] = card[n]
BY DEF CardIsPure

\* n is the file of a WebSocket upload that is given up, and not of its own file.
LEMMA AbortTakesItsName ==
    ASSUME UInv, ws.owner # None, AbortWsUpload, NEW n \in Name, n \notin OpenFiles, card'[n] # card[n]
    PROVE  AbortTakes(n)
<1>1. CardIsPure /\ ws.path \in Name
  BY Unfold DEF UploadInProgress
<1>2. card' = [card EXCEPT ![ws.path] = None] /\ ws' = NoUpload
  BY DEF AbortWsUpload, Put
<1>3. ws.path = n
  BY <1>1, <1>2, OnlyThere
<1> QED  BY <1>2, <1>3 DEF OpenFiles, AbortTakes

LEMMA WebSocketStays ==
    ASSUME UInv, WebSocket, NEW n \in Name, n \notin OpenFiles, IsWhole(card[n]), card'[n] # card[n]
    PROVE  AbortTakes(n)
<1>1. CardIsPure /\ ws.at # n /\ (ws.at # None => ws.at \in Name)
  BY Unfold DEF OpenFiles, Rest, Upload
<1>2. ASSUME NEW c \in Client, NEW b \in Body, WsStartRefused(c, b) PROVE FALSE
  BY <1>2 DEF WsStartRefused
<1>3. ASSUME NEW c \in Client, NEW m \in Name, NEW b \in Body, WsStart(c, m, b) PROVE FALSE
  <2>1. card[m] = None /\ card' = [card EXCEPT ![m] = Empty(b)]
    BY <1>3 DEF WsStart, Put
  <2>2. n = m
    BY <1>1, <2>1, OnlyThere
  <2> QED  BY <2>1, <2>2 DEF IsWhole
<1>4. ASSUME NEW c \in Client, NEW k \in 1 .. 2, WsBinary(c, k) PROVE ws.owner # None /\ AbortWsUpload
  <2>1. ws.owner # None
    BY <1>4 DEF WsBinary, WsTakes
  <2>2. ASSUME ~AbortWsUpload PROVE FALSE
    <3>1. card' = IF ws.at = None THEN card ELSE [card EXCEPT ![ws.at] = Add(@, says[c], k)]
      BY <1>4, <2>2 DEF WsBinary
    <3>2. ws.at # None
      BY <3>1
    <3> QED  BY <1>1, <3>1, <3>2, OnlyThere
  <2> QED  BY <2>1, <2>2
<1>5. ASSUME NEW c \in Client, WsDisconnected(c) PROVE ws.owner # None /\ AbortWsUpload
  BY <1>5 DEF WsDisconnected, WsTakes
<1> QED  BY <1>2, <1>3, <1>4, <1>5, AbortTakesItsName DEF WebSocket

LEMMA FormStays ==
    ASSUME UInv, Form, NEW n \in Name, n \notin OpenFiles, IsWhole(card[n]), card'[n] # card[n]
    PROVE  FALSE
<1>1. CardIsPure /\ RequestInProgress
  BY Unfold
<1>2. req.op = "form" => req.name \in Name /\ (req.ok => req.name # n)
  BY <1>1 DEF RequestInProgress, OpenFiles
<1>3. ASSUME NEW m \in Name, NEW b \in Body, FormStart(m, b) PROVE FALSE
  <2>1. card[m] = None /\ card' = [card EXCEPT ![m] = Empty(b)]
    BY <1>3 DEF FormStart, FormOpens, Put
  <2>2. n = m
    BY <1>1, <2>1, OnlyThere
  <2> QED  BY <2>1, <2>2 DEF IsWhole
<1>4. ASSUME FormWrite \/ FormEnd \/ FormAborted PROVE FALSE
  <2>1. PICK f : req.op = "form" /\ req.ok /\ card' = [card EXCEPT ![req.name] = f]
    BY <1>4 DEF FormWrite, FormEnd, FormAborted, Put
  <2> QED  BY <1>1, <1>2, <2>1, OnlyThere
<1>5. ASSUME FormAnswer PROVE FALSE
  BY <1>5 DEF FormAnswer
<1> QED  BY <1>3, <1>4, <1>5 DEF Form

LEMMA PutStays ==
    ASSUME UInv, DavPut, NEW n \in Name, IsWhole(card[n]), card'[n] # card[n]
    PROVE  req.op = "put" /\ req.name = n /\ IsWhole(temp) /\ temp' = temp
<1>1. CardIsPure /\ RequestInProgress
  BY Unfold
<1>2. ASSUME UNCHANGED card PROVE FALSE
  BY <1>2
<1>3. ASSUME PutRemovesOld
      PROVE  req.op = "put" /\ req.name = n /\ IsWhole(temp) /\ temp' = temp
  <2>1. /\ req.op = "put" /\ req.got = Size[req.body] /\ req.ok /\ temp' = temp
        /\ card' = [card EXCEPT ![req.name] = None]
    BY <1>3 DEF PutRemovesOld, PutReplaces, Put
  <2>2. req.name \in Name /\ HalfWritten(temp, req.body, Size[req.body])
    BY <1>1, <2>1 DEF RequestInProgress
  <2>3. n = req.name
    BY <1>1, <2>1, <2>2, OnlyThere
  <2>4. temp \in PureFile /\ Amount(temp) = Size[temp.of]
    BY <1>1, <2>2 DEF HalfWritten, CardIsPure, Stored
  <2>5. IsWhole(temp)
    BY <2>4, WholeIsLongest
  <2> QED  BY <2>1, <2>3, <2>5
<1>4. ASSUME PutRenames PROVE FALSE
  <2>1. req.op = "putEnd" /\ card' = [card EXCEPT ![req.name] = temp]
    BY <1>4 DEF PutRenames, Put
  <2>2. req.name \in Name /\ card[req.name] = None
    BY <1>1, <2>1 DEF RequestInProgress, Absent
  <2>3. n = req.name
    BY <1>1, <2>1, <2>2, OnlyThere
  <2> QED  BY <2>2, <2>3 DEF IsWhole
<1>5. PutRemovesOld \/ PutRenames \/ UNCHANGED card
  BY DEF DavPut, PutStart, PutWrite, PutFailed, PutAnswer, PutAborted
<1> QED  BY <1>2, <1>3, <1>4, <1>5

LEMMA ManageStays ==
    ASSUME UInv, Manage, NEW n \in Name, n \notin OpenFiles, IsWhole(card[n]), card'[n] # card[n]
    PROVE  NamedByUser(n)
<1>1. CardIsPure /\ RequestInProgress
  BY Unfold
<1>2. ASSUME NEW m \in Name, DavDelete(m) \/ Delete(m) PROVE NamedByUser(n)
  <2>1. card' = [card EXCEPT ![m] = None]
    BY <1>2 DEF DavDelete, Delete, Put
  <2>2. n = m
    BY <1>1, <2>1, OnlyThere
  <2> QED  BY <1>2, <2>2 DEF NamedByUser
<1>3. ASSUME NEW s \in Name, NEW d \in Name, Rename(s, d) PROVE NamedByUser(n)
  <2>1. card[d] = None /\ (card' = [card EXCEPT ![s] = None, ![d] = card[s]] \/ card' = card)
    BY <1>3 DEF Rename, Renamed, RenameFails
  <2>2. n = s \/ n = d
    BY <1>1, <2>1 DEF CardIsPure
  <2>3. n = s
    BY <2>1, <2>2 DEF IsWhole
  <2> QED  BY <1>3, <2>3 DEF NamedByUser
<1>4. ASSUME NEW s \in Name, NEW d \in Name, DavMove(s, d) \/ DavCopy(s, d) PROVE NamedByUser(n)
  <2>1. PICK f : card' = [card EXCEPT ![d] = f]
    BY <1>4 DEF DavMove, DavCopy, Put
  <2>2. n = d
    BY <1>1, <2>1, OnlyThere
  <2> QED  BY <1>4, <2>2 DEF NamedByUser
<1>5. ASSUME DavMoveRenames PROVE NamedByUser(n)
  <2>1. /\ req.op = "move"
        /\ card' = [card EXCEPT ![req.name] = None, ![req.dst] = card[req.name]] \/ card' = card
    BY <1>5 DEF DavMoveRenames, Renamed, RenameFails
  <2>2. n = req.name \/ n = req.dst
    BY <1>1, <2>1 DEF CardIsPure
  <2> QED  BY <2>1, <2>2 DEF NamedByUser
<1>6. ASSUME DavCopyWrites \/ DavCopyEnds PROVE NamedByUser(n)
  <2>1. req.op = "copy" /\ (card' = card \/ \E f : card' = [card EXCEPT ![req.dst] = f])
    BY <1>6 DEF DavCopyWrites, DavCopyEnds, Put
  <2>2. PICK f : card' = [card EXCEPT ![req.dst] = f]
    BY <2>1
  <2>3. n = req.dst
    BY <1>1, <2>1, <2>2, OnlyThere DEF RequestInProgress
  <2> QED  BY <2>1, <2>3 DEF NamedByUser
<1>7. ASSUME DeleteClears PROVE FALSE
  BY <1>7 DEF DeleteClears
<1> QED  BY <1>2, <1>3, <1>4, <1>5, <1>6, <1>7 DEF Manage

LEMMA DeviceStays ==
    ASSUME UInv, Device, NEW n \in Name, n \notin OpenFiles, card'[n] # card[n]
    PROVE  AbortTakes(n)
<1>1. ~PowerLoss
  BY DEF PowerLoss
<1>2. StopServer
  BY <1>1 DEF Device, StartServer, OpenBook
<1>3. ws.owner # None /\ AbortWsUpload
  BY <1>2 DEF StopServer
<1> QED  BY <1>3, AbortTakesItsName

-----------------------------------------------------------------------------
(* The theorems.                                                           *)

\* CrossPointWebServer and WebDAVHandler: what they keep has its type, and no file is longer
\* than the upload it was created for.
THEOREM UploadsTypeCorrect == Spec => []TypeOK
<1>1. UInv => TypeOK
  BY DEF UInv
<1> QED  BY <1>1, UploadsInvariant, PTL

\* onWebSocketEvent(), handleUpload(), handlePut() and the copies of WebDAV never mix the bytes
\* of two uploads in a file, in whatever order messages, requests and losses of power come.
THEOREM FilesAreOneClients == Spec => []OneClientsBytes
<1>1. UInv => OneClientsBytes
  <2> SUFFICES ASSUME UInv, NEW f \in ({card[n] : n \in Name} \cup {temp}) \ {None}
               PROVE  \A i \in 1 .. Len(f.bytes) : f.bytes[i] = f.of
    BY DEF OneClientsBytes
  <2>1. f \in PureFile
    BY Unfold DEF CardIsPure, Stored
  <2> QED  BY <2>1 DEF PureFile
<1> QED  BY <1>1, UploadsInvariant, PTL

\* The answers DONE, 200, 201 and 204: the name holds the whole upload, and no older book's
\* cache, until a request about that name; but for names whose upload lost its file to a request.
THEOREM PromisesAreKept == Spec => []PromisedFilesLast
<1>1. UInv => PromisedFilesLast
  <2> SUFFICES ASSUME UInv, NEW n \in Kept PROVE IsWhole(card[n]) /\ cache[n] \in {None, card[n].of}
    BY DEF PromisedFilesLast
  <2>1. CardIsPure /\ n \in Name /\ card[n] # None /\ Amount(card[n]) = Size[card[n].of]
        /\ cache[n] \in {None, card[n].of}
    BY Unfold DEF PromisesHold
  <2>2. IsWhole(card[n])
    BY <2>1, CardFacts, WholeIsLongest
  <2> QED  BY <2>1, <2>2
<1> QED  BY <1>1, UploadsInvariant, PTL

\* A closed, complete file is lost only to a request that names it, to the new one a PUT has ready,
\* or to the one kind of abort that deletes by a name another file has (abortWsUpload()).
THEOREM CompleteFilesStay == Spec => WholeFilesStay
<1>1. ASSUME UInv, [Next]_vars
      PROVE  [\A n \in Name \ OpenFiles : card'[n] # card[n] /\ IsWhole(card[n]) =>
                \/ NamedByUser(n)
                \/ req.op = "put" /\ req.name = n /\ IsWhole(temp) /\ temp' = temp
                \/ AbortTakes(n)]_vars
  <2>1. CASE UNCHANGED vars
    BY <2>1
  <2>2. CASE Next
    <3> SUFFICES ASSUME NEW n \in Name, n \notin OpenFiles, IsWhole(card[n]), card'[n] # card[n]
                 PROVE  \/ NamedByUser(n)
                        \/ req.op = "put" /\ req.name = n /\ IsWhole(temp) /\ temp' = temp
                        \/ AbortTakes(n)
      OBVIOUS
    <3> QED  BY <1>1, <2>2, WebSocketStays, FormStays, PutStays, ManageStays, DeviceStays DEF Next
  <2> QED  BY <1>1, <2>1, <2>2
<1> QED  BY <1>1, UploadsInvariant, PTL DEF Spec, WholeFilesStay

-----------------------------------------------------------------------------
(* The shelf: what each step does to the books on the card.                *)

\* Whether it is open and how much of its body it holds decides what book a file is.
LEMMA BookFacts ==
    ASSUME NEW f \in Stored, NEW open
    PROVE  /\ BookOf(f, open) \in Body \cup {None}
           /\ f = None \/ open => BookOf(f, open) = None
BY PureFacts DEF Stored, BookOf, IsWhole

LEMMA BookIsPart ==
    ASSUME NEW f \in Stored, NEW open, NEW b \in Body, NEW k \in Nat, HalfWritten(f, b, k), k # Size[b]
    PROVE  BookOf(f, open) = None
BY WholeIsLongest DEF HalfWritten, Stored, BookOf

LEMMA BookIsWhole ==
    ASSUME NEW f \in Stored, NEW b \in Body, HalfWritten(f, b, Size[b])
    PROVE  BookOf(f, FALSE) = b /\ b # None
BY WholeIsLongest DEF HalfWritten, Stored, BookOf

BookCalled(n) == BookOf(card[n], n \in OpenFiles)

\* The books of the other names stay as they are.
OthersStay(S) == \A m \in Name \ S : BookCalled(m)' = BookCalled(m)

LEMMA BooksAre == Books = [m \in Name |-> BookCalled(m)] /\ Books' = [m \in Name |-> BookCalled(m)']
BY DEF Books, BookCalled

LEMMA ShelfStays == ASSUME OthersStay({}), UNCHANGED answers PROVE [Shelf!Next]_Shelf!vars
<1>1. Books' = Books
  BY BooksAre DEF OthersStay
<1> QED  BY <1>1 DEF Shelf!vars

\* The name of an upload that is not where its name says is stray.
LEMMA StrayFacts ==
    ASSUME Rest, UploadInProgress PROVE \A n \in Name : ws.path = n /\ ws.at # n => n \in strayed
BY NoUploadFacts, NameAssumption DEF UploadInProgress, NoUpload

\* A client hears that its upload is complete: of a book that is there, or of a name that is stray.
LEMMA BookIsSaid ==
    ASSUME Rest, UploadInProgress, NEW n \in Name, Answered(n), BookCalled(n)' # None \/ (ws.path = n /\ ws.at # n)
    PROVE  Shelf!Says(n)
<1>1. Books'[n] = BookCalled(n)'
  BY BooksAre
<1>2. ws.path = n /\ ws.at # n => n \in strayed
  BY StrayFacts
<1>3. CASE ws.path = n /\ ws.at # n
  BY <1>2, <1>3 DEF Shelf!Says, Answered
<1>4. CASE ~(ws.path = n /\ ws.at # n)
  BY <1>1, <1>4 DEF Shelf!Says, Answered
<1> QED  BY <1>3, <1>4

LEMMA BookArrives ==
    ASSUME NEW n \in Name, NEW b \in Body, BookCalled(n) = None, BookCalled(n)' = b, OthersStay({n}),
           UNCHANGED answers \/ \E m \in Name : Shelf!Says(m)
    PROVE  [Shelf!Next]_Shelf!vars
<1>1. Books[n] = None /\ Books' = [Books EXCEPT ![n] = b]
  BY BooksAre DEF OthersStay
<1> QED  BY <1>1 DEF Shelf!Next, Shelf!Arrive

LEMMA BookIsTold ==
    ASSUME NEW n \in Name, OthersStay({}), Shelf!Says(n) PROVE [Shelf!Next]_Shelf!vars
<1>1. Books' = Books
  BY BooksAre DEF OthersStay
<1> QED  BY <1>1 DEF Shelf!Next, Shelf!Tell

\* A file that is renamed or removed is no book if it is that of the upload in progress.
LEMMA BookIsTaken ==
    ASSUME NEW n \in Name, NEW m, Follow(n, m), ws.at = n => BookCalled(n) = None
    PROVE  Shelf!Taken(n)
<1>1. Books[n] = BookCalled(n)
  BY BooksAre
<1> QED  BY <1>1 DEF Shelf!Taken, Follow

LEMMA BookGoes ==
    ASSUME NEW n \in Name, BookCalled(n)' = None, OthersStay({n}), promised' = promised \ {n}, Shelf!Taken(n)
    PROVE  [Shelf!Next]_Shelf!vars
<1>1. Books' = [Books EXCEPT ![n] = None]
  BY BooksAre DEF OthersStay
<1> QED  BY <1>1 DEF Shelf!Next, Shelf!Remove

LEMMA BookIsLost ==
    ASSUME NEW n \in Name, n \in strayed, BookCalled(n)' = None, OthersStay({n}), UNCHANGED answers
    PROVE  [Shelf!Next]_Shelf!vars
<1>1. Books' = [Books EXCEPT ![n] = None]
  BY BooksAre DEF OthersStay
<1> QED  BY <1>1 DEF Shelf!Next, Shelf!Lose

LEMMA BookMoves ==
    ASSUME NEW s \in Name, NEW d \in Name, s # d, BookCalled(d) = None, BookCalled(s)' = None,
           BookCalled(d)' = BookCalled(s), OthersStay({s, d}), promised' = promised \ {s, d}, Shelf!Taken(s)
    PROVE  [Shelf!Next]_Shelf!vars
<1>1. Books[d] = None /\ Books' = [Books EXCEPT ![s] = None, ![d] = Books[s]]
  BY BooksAre DEF OthersStay
<1> QED  BY <1>1 DEF Shelf!Next, Shelf!Move

\* While no request is served only the upload in progress has its file open.
LEMMA OpenWhileServing ==
    ASSUME Serving, NEW n \in Name PROVE n \in OpenFiles <=> ws.at = n
BY DEF Serving, OpenFiles

\* The upload of a file may end without an answer.
LEMMA BookMayArrive ==
    ASSUME NEW n \in Name, BookCalled(n) = None, BookCalled(n)' \in Body \cup {None}, OthersStay({n}),
           UNCHANGED answers
    PROVE  [Shelf!Next]_Shelf!vars
<1>1. CASE BookCalled(n)' = None
  <2>1. OthersStay({})
    BY <1>1 DEF OthersStay
  <2> QED  BY <2>1, ShelfStays
<1>2. CASE BookCalled(n)' # None
  <2>1. PICK b \in Body : BookCalled(n)' = b
    BY <1>2
  <2> QED  BY <2>1, BookArrives
<1> QED  BY <1>1, <1>2

\* A file that is not written to, and not opened or closed, is the same book.
LEMMA Others ==
    ASSUME NEW S, \A m \in Name \ S : card'[m] = card[m] /\ ((m \in OpenFiles)' <=> m \in OpenFiles)
    PROVE  OthersStay(S)
<1> SUFFICES ASSUME NEW m \in Name \ S PROVE BookCalled(m)' = BookCalled(m)
  BY DEF OthersStay
<1>1. card'[m] = card[m] /\ (m \in OpenFiles)' = (m \in OpenFiles)
  OBVIOUS
<1> QED  BY <1>1 DEF BookCalled

\* The steps that leave the files as they are, and what is open.
LEMMA NothingOpened ==
    ASSUME UNCHANGED <<card, answers>>, \A m \in Name : (m \in OpenFiles)' <=> m \in OpenFiles
    PROVE  [Shelf!Next]_Shelf!vars
<1>1. OthersStay({})
  BY DEF OthersStay, BookCalled
<1> QED  BY <1>1, ShelfStays

-----------------------------------------------------------------------------
LEMMA WsStartShelf ==
    ASSUME UInv, UInv', NEW c \in Client, NEW n \in Name, NEW b \in Body, WsStart(c, n, b)
    PROVE  [Shelf!Next]_Shelf!vars
<1>1. Rest /\ CardIsPure /\ UploadInProgress /\ CardIsPure'
  BY Unfold DEF UInv
<1>2. Serving /\ Serving' /\ ws.owner = None /\ card[n] = None /\ card' = Put(card, n, Empty(b))
  BY DEF WsStart, Serving
<1>3. ws.at = None
  BY <1>1, <1>2, NoUploadFacts DEF UploadInProgress
<1>4. card'[n] = Empty(b) /\ \A m \in Name : m # n => card'[m] = card[m]
  BY <1>1, <1>2 DEF CardIsPure, Put
<1>5. card'[n] \in Stored /\ HalfWritten(card'[n], b, 0) /\ card[n] \in Stored
  BY <1>1, <1>4, EmptyIsPure, PureStored, CardFacts DEF HalfWritten
<1>6. BookCalled(n) = None
  BY <1>2, <1>5, BookFacts DEF BookCalled
<1>7. CASE Size[b] = 0
  <2>1. ws' = ws /\ Answered(n)
    BY <1>7 DEF WsStart
  <2>2. \A m \in Name : m \notin OpenFiles /\ ~(m \in OpenFiles)'
    BY <1>2, <1>3, <2>1 DEF Serving, OpenFiles
  <2>3. BookCalled(n)' = b
    <3>1. HalfWritten(card'[n], b, Size[b])
      BY <1>5, <1>7
    <3>2. (n \in OpenFiles)' = FALSE
      BY <2>2
    <3> QED  BY <1>5, <3>1, <3>2, BookIsWhole DEF BookCalled
  <2>4. OthersStay({n})
    BY <1>4, <2>2 DEF OthersStay, BookCalled
  <2>5. Shelf!Says(n)
    BY <1>1, <2>1, <2>3, NameAssumption, BookIsSaid
  <2> QED  BY <1>6, <2>3, <2>4, <2>5, BookArrives
<1>8. CASE Size[b] # 0
  <2>1. ws'.at = n /\ UNCHANGED answers
    BY <1>8 DEF WsStart
  <2>2. \A m \in Name : m \notin OpenFiles /\ ((m \in OpenFiles)' <=> m = n)
    BY <1>2, <1>3, <2>1 DEF Serving, OpenFiles
  <2>3. BookCalled(n)' = None
    BY <1>5, <2>2, BookFacts DEF BookCalled
  <2>4. OthersStay({})
    BY <1>4, <1>6, <2>2, <2>3 DEF OthersStay, BookCalled
  <2> QED  BY <2>1, <2>4, ShelfStays
<1> QED  BY <1>7, <1>8

\* abortWsUpload(), when what is called that is the upload's own file and when it is not.
LEMMA AbortShelf ==
    ASSUME UInv, Serving, ws.owner # None, AbortWsUpload, req' = req
    PROVE  [Shelf!Next]_Shelf!vars
<1>1. CardIsPure /\ UploadInProgress
  BY Unfold
<1>2. PICK p \in Name : p = ws.path
  BY <1>1 DEF UploadInProgress
<1>3. card' = Put(card, p, None) /\ ws' = NoUpload /\ UNCHANGED answers
  BY <1>2 DEF AbortWsUpload
<1>4. card'[p] = None /\ \A m \in Name : card[m] \in Stored /\ (m # p => card'[m] = card[m])
  BY <1>1, <1>3 DEF CardIsPure, Put
<1>5. \A m \in Name : ~(m \in OpenFiles)' /\ (m \in OpenFiles <=> ws.at = m)
  BY <1>3, NoUploadFacts, NameAssumption DEF Serving, OpenFiles
<1>6. BookCalled(p)' = None
  BY <1>4, NoneStored, BookFacts DEF BookCalled
<1>7. OthersStay({p})
  <2> SUFFICES ASSUME NEW m \in Name, m # p PROVE BookCalled(m)' = BookCalled(m)
    BY DEF OthersStay
  <2>1. CASE ws.at # m
    <3>1. card'[m] = card[m] /\ (m \in OpenFiles)' = (m \in OpenFiles)
      BY <1>4, <1>5, <2>1
    <3> QED  BY <3>1 DEF BookCalled
  <2>2. CASE ws.at = m
    <3>1. /\ HalfWritten(card[m], ws.body, ws.got) /\ ws.body \in Body /\ ws.got \in Nat
          /\ ws.got < Size[ws.body] /\ card[m] \in Stored
      BY <1>1, <1>4, <2>2, NameAssumption DEF UploadInProgress
    <3>2. ws.got # Size[ws.body]
      BY <3>1
    <3>3. BookOf(card[m], (m \in OpenFiles)') = None /\ BookOf(card[m], m \in OpenFiles) = None
      BY <3>1, <3>2, BookIsPart
    <3>4. card'[m] = card[m]
      BY <1>4
    <3> QED  BY <3>3, <3>4 DEF BookCalled
  <2> QED  BY <2>1, <2>2
<1>8. CASE ws.at = p
  <2>1. BookCalled(p) = None
    BY <1>4, <1>5, <1>8, BookFacts DEF BookCalled
  <2>2. OthersStay({})
    BY <1>6, <1>7, <2>1 DEF OthersStay
  <2> QED  BY <1>3, <2>2, ShelfStays
<1>9. CASE ws.at # p
  <2>1. p \in strayed
    BY <1>1, <1>2, <1>9 DEF UploadInProgress
  <2> QED  BY <1>3, <1>6, <1>7, <2>1, BookIsLost
<1> QED  BY <1>8, <1>9

LEMMA WsBinaryShelf ==
    ASSUME UInv, UInv', NEW c \in Client, NEW k \in Nat \ {0}, WsBinary(c, k)
    PROVE  [Shelf!Next]_Shelf!vars
<1>1. Rest /\ CardIsPure /\ UploadInProgress /\ CardIsPure'
  BY Unfold DEF UInv
<1>2. Serving /\ ws.owner = c /\ c # None /\ UNCHANGED <<up, req>>
  BY DEF WsBinary, WsTakes
<1>3. CASE AbortWsUpload
  BY <1>2, <1>3, AbortShelf
<1>4. CASE ~AbortWsUpload
  <2>1. /\ ~Overflows(k)
        /\ card' = IF ws.at = None THEN card ELSE [card EXCEPT ![ws.at] = Add(@, says[c], k)]
        /\ IF ws.got + k < Size[ws.body]
           THEN ws' = [ws EXCEPT !.got = @ + k] /\ UNCHANGED answers
           ELSE ws' = NoUpload /\ Answered(ws.path)
    BY <1>4 DEF WsBinary
  <2>2. /\ ws.path \in Name /\ ws.body \in Body /\ ws.got \in Nat /\ Size[ws.body] \in Nat
        /\ says[c] = ws.body /\ ws.got + k <= Size[ws.body]
    BY <1>1, <1>2, <2>1 DEF UploadInProgress, Overflows
  <2>3. \A m \in Name : /\ m \in OpenFiles <=> ws.at = m
                        /\ (m \in OpenFiles)' <=> ws'.at = m
    BY <1>2 DEF Serving, OpenFiles
  <2>4. ws.got + k < Size[ws.body] => ws'.at = ws.at
    BY <1>1, <2>1 DEF Rest, Upload
  <2>7. PICK p \in Name : p = ws.path
    BY <2>2
  <2>5. CASE ws.at = None
    <3>1. UNCHANGED card /\ ws'.at = ws.at
      BY <2>1, <2>2, <2>4, <2>5, NoUploadFacts
    <3>2. CASE ws.got + k < Size[ws.body]
      BY <2>1, <2>3, <3>1, <3>2, NothingOpened
    <3>3. CASE ~(ws.got + k < Size[ws.body])
      <4>1. Shelf!Says(p)
        BY <1>1, <2>1, <2>5, <2>7, <3>3, NameAssumption, BookIsSaid
      <4>2. OthersStay({})
        BY <2>3, <3>1, Others
      <4> QED  BY <4>1, <4>2, BookIsTold
    <3> QED  BY <3>2, <3>3
  <2>6. CASE ws.at # None
    <3>1. PICK a \in Name : a = ws.at /\ HalfWritten(card[a], ws.body, ws.got)
      BY <1>1, <1>2, <2>6 DEF UploadInProgress
    <3>2. card' = [card EXCEPT ![a] = Add(@, ws.body, k)]
      BY <2>1, <2>2, <2>6, <3>1
    <3>3. /\ HalfWritten(card'[a], ws.body, ws.got + k)
          /\ \A m \in Name : m # a => card'[m] = card[m]
      BY <1>1, <2>2, <3>1, <3>2, CardGrows
    <3>4. card[a] \in Stored /\ card'[a] \in Stored /\ a \in OpenFiles
      BY <1>1, <2>3, <3>1 DEF CardIsPure
    <3>5. BookCalled(a) = None
      BY <3>4, BookFacts DEF BookCalled
    <3>6. CASE ws.got + k < Size[ws.body]
      <4>1. (a \in OpenFiles)' /\ OthersStay({a}) /\ UNCHANGED answers
        BY <2>1, <2>3, <2>4, <3>1, <3>3, <3>6, Others
      <4>2. BookCalled(a)' = None
        BY <3>4, <4>1, BookFacts DEF BookCalled
      <4> QED  BY <3>5, <4>1, <4>2, BookMayArrive
    <3>7. CASE ~(ws.got + k < Size[ws.body])
      <4>1. ws'.at = None /\ Answered(p)
        BY <2>1, <2>7, <3>7, NoUploadFacts
      <4>2. HalfWritten(card'[a], ws.body, Size[ws.body])
        <5>1. ws.got + k = Size[ws.body]
          BY <2>2, <3>7
        <5> QED  BY <3>3, <5>1
      <4>3. ~(a \in OpenFiles)' /\ OthersStay({a})
        BY <2>3, <3>1, <3>3, <4>1, NameAssumption, Others
      <4>4. PICK b \in Body : b = ws.body
        BY <2>2
      <4>5. BookCalled(a)' = b
        <5>1. (a \in OpenFiles)' = FALSE
          BY <4>3
        <5> QED  BY <3>4, <4>2, <4>4, <5>1, BookIsWhole DEF BookCalled
      <4>6. Shelf!Says(p)
        BY <1>1, <2>7, <3>1, <4>1, <4>4, <4>5, NameAssumption, BookIsSaid
      <4> QED  BY <3>5, <4>3, <4>4, <4>5, <4>6, BookArrives
    <3> QED  BY <3>6, <3>7
  <2> QED  BY <2>5, <2>6
<1> QED  BY <1>3, <1>4

LEMMA WebSocketShelf == ASSUME UInv, UInv', WebSocket PROVE [Shelf!Next]_Shelf!vars
<1>1. ASSUME NEW c \in Client, NEW b \in Body, WsStartRefused(c, b) PROVE [Shelf!Next]_Shelf!vars
  BY <1>1, NothingOpened DEF WsStartRefused, OpenFiles
<1>2. ASSUME NEW c \in Client, NEW k \in 1 .. 2, WsBinary(c, k) PROVE [Shelf!Next]_Shelf!vars
  BY <1>2, WsBinaryShelf
<1>3. ASSUME NEW c \in Client, WsDisconnected(c) PROVE [Shelf!Next]_Shelf!vars
  <2>1. Serving /\ UNCHANGED req /\ IF ws.owner = c THEN AbortWsUpload ELSE UNCHANGED <<card, ws, answers, cache>>
    BY <1>3 DEF WsDisconnected, WsTakes
  <2>2. CASE ws.owner = c
    BY <2>1, <2>2, NameAssumption, AbortShelf
  <2>3. CASE ws.owner # c
    BY <2>1, <2>3, NothingOpened DEF OpenFiles
  <2> QED  BY <2>2, <2>3
<1> QED  BY <1>1, <1>2, <1>3, WsStartShelf DEF WebSocket

-----------------------------------------------------------------------------
LEMMA FormStartShelf ==
    ASSUME UInv, UInv', NEW n \in Name, NEW b \in Body, FormStart(n, b)
    PROVE  [Shelf!Next]_Shelf!vars
<1>1. CardIsPure /\ CardIsPure' /\ Serving /\ UNCHANGED <<ws, answers>>
  BY Unfold DEF UInv, FormStart
<1>2. PICK opened \in BOOLEAN :
        /\ opened => card[n] = None
        /\ req' = [NoRequest EXCEPT !.op = "form", !.name = n, !.body = b, !.ok = opened]
        /\ card' = IF opened THEN Put(card, n, Empty(b)) ELSE card
  BY DEF FormStart, FormOpens
<1>3. req'.op = "form" /\ req'.name = n /\ req'.ok = opened
  BY <1>2 DEF NoRequest
<1>4. CASE opened
  <2>1. \A m \in Name \ {n} : card'[m] = card[m] /\ ((m \in OpenFiles)' <=> m \in OpenFiles)
    BY <1>1, <1>2, <1>3, <1>4 DEF CardIsPure, Put, Serving, OpenFiles
  <2>2. (n \in OpenFiles)'
    BY <1>3, <1>4 DEF OpenFiles
  <2>3. card[n] \in Stored /\ card'[n] \in Stored
    BY <1>1 DEF CardIsPure
  <2>4. BookCalled(n) = None /\ BookCalled(n)' = None
    BY <1>2, <1>4, <2>2, <2>3, BookFacts DEF BookCalled
  <2> QED  BY <1>1, <2>1, <2>4, Others, BookMayArrive
<1>5. CASE ~opened
  <2>1. \A m \in Name : (m \in OpenFiles)' <=> m \in OpenFiles
    BY <1>1, <1>3, <1>5 DEF Serving, OpenFiles
  <2> QED  BY <1>1, <1>2, <1>5, <2>1, NothingOpened
<1> QED  BY <1>4, <1>5

\* A form's file is written or its write fails, and it may be closed.
LEMMA FlushShelf ==
    ASSUME UInv, UInv', req.op = "form", NEW k \in Nat, req.got + k <= Size[req.body], NEW ok \in BOOLEAN,
           ok => req.ok, UNCHANGED <<temp, cache, up, ws, says, answers>>,
           card' = IF ok THEN [card EXCEPT ![req.name] = Add(@, req.body, k)] ELSE card,
           req'.op \in {"form", "formEnd"}, req'.name = req.name, req'.ok = ok
    PROVE  [Shelf!Next]_Shelf!vars
<1>1. CardIsPure /\ CardIsPure' /\ RequestInProgress
  BY Unfold DEF UInv
<1>2. PICK n \in Name : n = req.name
  BY <1>1 DEF RequestInProgress
<1>3. card[n] \in Stored /\ card'[n] \in Stored
  BY <1>1 DEF CardIsPure
<1>4. CASE req.ok
  <2>1. n \in OpenFiles
    BY <1>2, <1>4 DEF OpenFiles
  <2>2. BookCalled(n) = None
    BY <1>3, <2>1, BookFacts DEF BookCalled
  <2>3. \A m \in Name \ {n} : card'[m] = card[m] /\ ((m \in OpenFiles)' <=> m \in OpenFiles)
    BY <1>1, <1>2 DEF OpenFiles, CardIsPure
  <2>4. BookCalled(n)' \in Body \cup {None}
    BY <1>3, BookFacts DEF BookCalled
  <2> QED  BY <2>2, <2>3, <2>4, Others, BookMayArrive
<1>5. CASE ~req.ok
  <2>1. card' = card /\ \A m \in Name : (m \in OpenFiles)' <=> m \in OpenFiles
    BY <1>5 DEF OpenFiles
  <2> QED  BY <2>1, NothingOpened
<1> QED  BY <1>4, <1>5

\* A client is told of the file called n.
LEMMA AnswerShelf ==
    ASSUME UInv, req.op \in {"formEnd", "putAnswer"}, req' = NoRequest, UNCHANGED <<card, ws>>,
           IF req.ok THEN Answered(req.name) ELSE UNCHANGED answers
    PROVE  [Shelf!Next]_Shelf!vars
<1>1. Rest /\ CardIsPure /\ UploadInProgress /\ RequestInProgress
  BY Unfold
<1>2. \A m \in Name : /\ m \in OpenFiles <=> ws.at = m
                      /\ (m \in OpenFiles)' <=> m \in OpenFiles
  BY NoUploadFacts DEF OpenFiles
<1>3. CASE req.ok
  <2>1. PICK n \in Name : n = req.name
    BY <1>1 DEF RequestInProgress
  <2>2. HalfWritten(card[n], req.body, Size[req.body]) /\ ws.at # n /\ req.body \in Body
    BY <1>1, <1>3, <2>1 DEF RequestInProgress, Holds, HalfWritten
  <2>3. card[n] \in Stored
    BY <1>1 DEF CardIsPure
  <2>4. BookCalled(n) # None
    <3>1. (n \in OpenFiles) = FALSE
      BY <1>2, <2>2
    <3> QED  BY <2>2, <2>3, <3>1, BookIsWhole DEF BookCalled
  <2>5. OthersStay({})
    BY <1>2, Others
  <2>6. Shelf!Says(n)
    <3>1. BookCalled(n)' = BookCalled(n)
      BY <2>5 DEF OthersStay
    <3> QED  BY <1>1, <1>3, <2>1, <2>4, <3>1, BookIsSaid
  <2> QED  BY <2>5, <2>6, BookIsTold
<1>4. CASE ~req.ok
  BY <1>2, <1>4, NothingOpened
<1> QED  BY <1>3, <1>4

LEMMA FormShelf == ASSUME UInv, UInv', Form PROVE [Shelf!Next]_Shelf!vars
<1>1. Rest /\ CardIsPure /\ CardIsPure' /\ RequestInProgress
  BY Unfold DEF UInv
<1>2. req.op = "form" => /\ req.body \in Body /\ req.got \in Nat /\ Size[req.body] \in Nat
                         /\ req.got <= Size[req.body] /\ req \in Request
  BY <1>1 DEF RequestInProgress, Rest
<1>3. ASSUME FormWrite PROVE [Shelf!Next]_Shelf!vars
  <2>1. req.op = "form" /\ req.got + 1 <= Size[req.body] /\ UNCHANGED <<temp, cache, up, ws, says, answers>>
    BY <1>2, <1>3 DEF FormWrite
  <2>2. PICK ok \in BOOLEAN :
          /\ ok => req.ok
          /\ card' = IF ok THEN [card EXCEPT ![req.name] = Add(@, req.body, 1)] ELSE card
          /\ req' = [req EXCEPT !.got = @ + 1, !.ok = ok]
    BY <1>3 DEF FormWrite
  <2>3. req'.op = "form" /\ req'.name = req.name /\ req'.ok = ok
    BY <1>2, <2>1, <2>2, OneMore
  <2> QED  BY <2>1, <2>2, <2>3, FlushShelf
<1>4. ASSUME FormEnd PROVE [Shelf!Next]_Shelf!vars
  <2> DEFINE k == Size[req.body] - req.got
  <2>1. req.op = "form" /\ UNCHANGED <<temp, cache, up, ws, says, answers>>
    BY <1>4 DEF FormEnd
  <2>2. k \in Nat /\ req.got + k <= Size[req.body]
    BY <1>2, <2>1
  <2>3. PICK ok \in BOOLEAN :
          /\ ok => req.ok
          /\ card' = IF ok THEN [card EXCEPT ![req.name] = Add(@, req.body, k)] ELSE card
          /\ req' = [req EXCEPT !.op = "formEnd", !.ok = ok]
    BY <1>4 DEF FormEnd
  <2> HIDE DEF k
  <2>4. req'.op = "formEnd" /\ req'.name = req.name /\ req'.ok = ok
    BY <1>2, <2>1, <2>3 DEF Request
  <2> QED  BY <2>1, <2>2, <2>3, <2>4, FlushShelf
<1>5. ASSUME FormAnswer PROVE [Shelf!Next]_Shelf!vars
  BY <1>5, AnswerShelf DEF FormAnswer
<1>6. ASSUME FormAborted PROVE [Shelf!Next]_Shelf!vars
  <2>1. /\ req.op = "form" /\ req' = NoRequest /\ UNCHANGED <<ws, answers>>
        /\ card' = IF req.ok THEN Put(card, req.name, None) ELSE card
    BY <1>6 DEF FormAborted
  <2>2. PICK n \in Name : n = req.name
    BY <1>1, <2>1 DEF RequestInProgress
  <2>3. CASE req.ok
    <3>1. n \in OpenFiles /\ card[n] \in Stored /\ card'[n] = None
      BY <1>1, <2>1, <2>2, <2>3 DEF OpenFiles, CardIsPure, Put
    <3>2. BookCalled(n) = None /\ BookCalled(n)' = None
      BY <3>1, NoneStored, BookFacts DEF BookCalled
    <3>3. \A m \in Name \ {n} : card'[m] = card[m] /\ ((m \in OpenFiles)' <=> m \in OpenFiles)
      BY <1>1, <2>1, <2>2, <2>3, NoUploadFacts DEF OpenFiles, CardIsPure, Put
    <3> QED  BY <2>1, <3>2, <3>3, Others, BookMayArrive
  <2>4. CASE ~req.ok
    <3>1. \A m \in Name : (m \in OpenFiles)' <=> m \in OpenFiles
      BY <2>1, <2>4, NoUploadFacts DEF OpenFiles
    <3> QED  BY <2>1, <2>4, <3>1, NothingOpened
  <2> QED  BY <2>3, <2>4
<1> QED  BY <1>3, <1>4, <1>5, <1>6, FormStartShelf DEF Form

-----------------------------------------------------------------------------
\* Where the open file of the upload is after a file was renamed or removed.
LEMMA FollowedAt ==
    ASSUME Rest, NEW n, NEW m, Follow(n, m) PROVE ws'.at = IF ws.at = n THEN m ELSE ws.at
BY DEF Follow, Rest, Upload

\* What is called n is removed, and perhaps written anew.
LEMMA FileGoesShelf ==
    ASSUME Rest, CardIsPure, CardIsPure', NEW n \in Name, NEW f, card' = Put(card, n, f),
           Follow(n, None), promised' = promised \ {n},
           f = None \/ (n \in OpenFiles)',
           \A m \in Name \ {n} : (m \in OpenFiles)' <=> ws'.at = m, \A m \in Name \ {n} : m \in OpenFiles <=> ws.at = m
    PROVE  [Shelf!Next]_Shelf!vars
<1>1. card'[n] = f /\ card'[n] \in Stored /\ \A m \in Name \ {n} : card'[m] = card[m]
  BY DEF CardIsPure, Put
<1>2. BookCalled(n)' = None
  BY <1>1, BookFacts DEF BookCalled
<1>3. \A m \in Name \ {n} : (m \in OpenFiles)' <=> m \in OpenFiles
  <2>1. \A m \in Name \ {n} : ws'.at = m <=> ws.at = m
    BY FollowedAt, NameAssumption
  <2> QED  BY <2>1
<1>4. Shelf!Taken(n)
  <2>1. ws.at = n => BookCalled(n) = None
    <3>1. ws.at = n => n \in OpenFiles
      BY DEF OpenFiles
    <3>2. card[n] \in Stored
      BY DEF CardIsPure
    <3> QED  BY <3>1, <3>2, BookFacts DEF BookCalled
  <2> QED  BY <2>1, BookIsTaken
<1> QED  BY <1>1, <1>2, <1>3, <1>4, Others, BookGoes

LEMMA PutShelf == ASSUME UInv, UInv', DavPut PROVE [Shelf!Next]_Shelf!vars
<1>1. Rest /\ CardIsPure /\ CardIsPure' /\ RequestInProgress
  BY Unfold DEF UInv
<1>2. ASSUME NEW n \in Name, NEW b \in Body, PutStart(n, b) PROVE [Shelf!Next]_Shelf!vars
  <2>1. UNCHANGED <<card, ws, answers>> /\ req.op = "none" /\ req'.op = "put"
    BY <1>2 DEF PutStart, NoRequest, Serving
  <2> QED  BY <2>1, NothingOpened DEF OpenFiles
<1>3. ASSUME PutWrite \/ PutFailed \/ PutAborted PROVE [Shelf!Next]_Shelf!vars
  <2>1. UNCHANGED <<card, ws, answers>> /\ req.op = "put"
    BY <1>3 DEF PutWrite, PutFailed, PutAborted
  <2>2. req'.op \in {"put", "none"}
    BY <1>1, <1>3, NoUploadFacts DEF PutWrite, PutFailed, PutAborted, Rest, Request
  <2> QED  BY <2>1, <2>2, NothingOpened DEF OpenFiles
<1>4. ASSUME PutRemovesOld PROVE [Shelf!Next]_Shelf!vars
  <2>1. PICK n \in Name : n = req.name
    BY <1>1, <1>4 DEF RequestInProgress, PutRemovesOld, PutReplaces
  <2>2. /\ card' = Put(card, n, None) /\ Follow(n, None) /\ promised' = promised \ {n}
        /\ req.op = "put" /\ req' = [req EXCEPT !.op = "putEnd"]
    BY <1>4, <2>1 DEF PutRemovesOld, PutReplaces
  <2>3. req'.op = "putEnd"
    BY <1>1, <2>2 DEF Rest, Request
  <2>4. \A m \in Name : ((m \in OpenFiles)' <=> ws'.at = m) /\ (m \in OpenFiles <=> ws.at = m)
    BY <2>2, <2>3 DEF OpenFiles
  <2> QED  BY <1>1, <2>2, <2>4, FileGoesShelf
<1>5. ASSUME PutRenames PROVE [Shelf!Next]_Shelf!vars
  <2>1. PICK n \in Name : n = req.name
    BY <1>1, <1>5 DEF RequestInProgress, PutRenames
  <2>2. /\ req.op = "putEnd" /\ UNCHANGED <<ws, answers>> /\ card' \in {card, Put(card, n, temp)}
        /\ \E ok \in BOOLEAN : req' = [req EXCEPT !.op = "putAnswer", !.ok = ok]
    BY <1>5, <2>1 DEF PutRenames
  <2>3. req'.op = "putAnswer"
    BY <1>1, <2>2 DEF Rest, Request
  <2>4. \A m \in Name : card[m] \in Stored /\ card'[m] \in Stored /\ (m # n => card'[m] = card[m])
    BY <1>1, <2>2 DEF CardIsPure, Put
  <2>5. \A m \in Name : (m \in OpenFiles)' <=> m \in OpenFiles
    BY <2>2, <2>3 DEF OpenFiles
  <2>6. card[n] = None
    BY <1>1, <2>1, <2>2 DEF RequestInProgress, Absent
  <2>7. BookCalled(n) = None /\ BookCalled(n)' \in Body \cup {None}
    BY <2>4, <2>6, BookFacts DEF BookCalled
  <2> QED  BY <2>2, <2>4, <2>5, <2>7, Others, BookMayArrive
<1>6. ASSUME PutAnswer PROVE [Shelf!Next]_Shelf!vars
  BY <1>6, AnswerShelf DEF PutAnswer
<1> QED  BY <1>2, <1>3, <1>4, <1>5, <1>6 DEF DavPut

-----------------------------------------------------------------------------
\* A file takes another name, or not.
LEMMA FileMovesShelf ==
    ASSUME UInv, NEW s \in Name, NEW d \in Name, s # d, Absent(d), card[s] # None,
           Renamed(s, d) \/ RenameFails, req.op \in {"none", "move"}, req'.op = "none"
    PROVE  [Shelf!Next]_Shelf!vars
<1>1. Rest /\ CardIsPure
  BY Unfold
<1>2. \A m \in Name : ((m \in OpenFiles)' <=> ws'.at = m) /\ (m \in OpenFiles <=> ws.at = m)
  BY DEF OpenFiles
<1>3. CASE RenameFails
  BY <1>2, <1>3, NothingOpened DEF RenameFails
<1>4. CASE Renamed(s, d)
  <2>1. /\ card' = [card EXCEPT ![s] = None, ![d] = card[s]] /\ Follow(s, d)
        /\ promised' = promised \ {s, d}
    BY <1>4 DEF Renamed
  <2>2. ws'.at = IF ws.at = s THEN d ELSE ws.at
    BY <1>1, <2>1, FollowedAt
  <2>3. /\ card'[s] = None /\ card'[d] = card[s] /\ \A m \in Name \ {s, d} : card'[m] = card[m]
        /\ card[s] \in Stored /\ card[d] \in Stored
    BY <1>1, <2>1 DEF CardIsPure
  <2>4. card[d] = None /\ ws.at # d
    BY DEF Absent
  <2>5. \A m \in Name \ {s, d} : (m \in OpenFiles)' <=> m \in OpenFiles
    BY <1>2, <2>2
  <2>6. (d \in OpenFiles)' = (s \in OpenFiles)
    BY <1>2, <2>2, <2>4
  <2>7. BookCalled(d) = None /\ BookCalled(s)' = None
    BY <2>3, <2>4, NoneStored, BookFacts DEF BookCalled
  <2>8. BookCalled(d)' = BookCalled(s)
    BY <2>3, <2>6 DEF BookCalled
  <2>9. Shelf!Taken(s)
    <3>1. ws.at = s => BookCalled(s) = None
      BY <1>2, <2>3, BookFacts DEF BookCalled
    <3> QED  BY <2>1, <3>1, BookIsTaken
  <2> QED  BY <2>1, <2>3, <2>5, <2>7, <2>8, <2>9, Others, BookMoves
<1> QED  BY <1>3, <1>4

LEMMA DavCopyShelf ==
    ASSUME UInv, UInv', NEW s \in Name, NEW d \in Name, DavCopy(s, d) PROVE [Shelf!Next]_Shelf!vars
<1>1. Rest /\ CardIsPure /\ CardIsPure'
  BY Unfold DEF UInv
<1>2. Serving /\ Follow(d, None) /\ promised' = promised \ {d}
  BY DEF DavCopy
<1>3. PICK opened \in BOOLEAN :
        /\ card' = Put(card, d, IF opened THEN Empty(card[s].of) ELSE None)
        /\ req' = IF opened THEN [NoRequest EXCEPT !.op = "copy", !.name = s, !.dst = d] ELSE NoRequest
  BY DEF DavCopy
<1>4. IF opened THEN req'.op = "copy" /\ req'.dst = d ELSE req'.op = "none"
  BY <1>3 DEF NoRequest
<1>5. \A m \in Name \ {d} : ((m \in OpenFiles)' <=> ws'.at = m) /\ (m \in OpenFiles <=> ws.at = m)
  BY <1>2, <1>4 DEF Serving, OpenFiles
<1>6. opened => (d \in OpenFiles)'
  BY <1>4 DEF OpenFiles
<1> DEFINE f == IF opened THEN Empty(card[s].of) ELSE None
<1>7. card' = Put(card, d, f) /\ (f = None \/ (d \in OpenFiles)')
  BY <1>3, <1>6
<1> HIDE DEF f
<1> QED  BY <1>1, <1>2, <1>5, <1>7, FileGoesShelf

\* The target of a COPY is open until the end.
LEMMA CopiesShelf == ASSUME UInv, UInv', DavCopyWrites \/ DavCopyEnds PROVE [Shelf!Next]_Shelf!vars
<1>1. Rest /\ CardIsPure /\ CardIsPure' /\ RequestInProgress
  BY Unfold DEF UInv
<1>2. req.op = "copy" /\ UNCHANGED <<ws, answers>>
  BY DEF DavCopyWrites, DavCopyEnds
<1>3. PICK d \in Name : d = req.dst
  BY <1>1, <1>2 DEF RequestInProgress
<1>4. \A m \in Name : card[m] \in Stored /\ card'[m] \in Stored /\ (m # d => card'[m] = card[m])
  BY <1>1, <1>3 DEF CardIsPure, Put, DavCopyWrites, DavCopyEnds
<1>5. IF DavCopyWrites THEN req'.op = "copy" /\ req'.dst = d ELSE req'.op = "none"
  BY <1>1, <1>2, <1>3, NoUploadFacts DEF DavCopyWrites, DavCopyEnds, Rest, Request
<1>6. \A m \in Name \ {d} : (m \in OpenFiles)' <=> m \in OpenFiles
  BY <1>2, <1>3, <1>5 DEF OpenFiles
<1>7. d \in OpenFiles
  BY <1>2, <1>3 DEF OpenFiles
<1>8. BookCalled(d) = None /\ BookCalled(d)' \in Body \cup {None}
  BY <1>4, <1>7, BookFacts DEF BookCalled
<1> QED  BY <1>2, <1>4, <1>6, <1>8, Others, BookMayArrive

LEMMA ManageShelf == ASSUME UInv, UInv', Manage PROVE [Shelf!Next]_Shelf!vars
<1>1. Rest /\ CardIsPure /\ CardIsPure' /\ UploadInProgress /\ PromisesHold /\ RequestInProgress
  BY Unfold DEF UInv
<1>2. ASSUME NEW n \in Name, DavDelete(n) \/ Delete(n) PROVE [Shelf!Next]_Shelf!vars
  <2>1. Serving /\ card' = Put(card, n, None) /\ Follow(n, None) /\ promised' = promised \ {n}
    BY <1>2 DEF DavDelete, Delete
  <2>2. req'.op \in {"none", "clear"}
    BY <1>2 DEF DavDelete, Delete, NoRequest, Serving
  <2>3. \A m \in Name : ((m \in OpenFiles)' <=> ws'.at = m) /\ (m \in OpenFiles <=> ws.at = m)
    BY <2>1, <2>2 DEF OpenFiles, Serving
  <2> QED  BY <1>1, <2>1, <2>3, FileGoesShelf
<1>3. ASSUME NEW s \in Name, NEW d \in Name, Rename(s, d) PROVE [Shelf!Next]_Shelf!vars
  <2>1. /\ Serving /\ card[s] # None /\ card[d] = None /\ (Renamed(s, d) \/ RenameFails) /\ UNCHANGED req
    BY <1>3 DEF Rename
  <2>2. Absent(d) /\ s # d
    BY <1>1, <2>1, FreeIsAbsent
  <2> QED  BY <2>1, <2>2, FileMovesShelf DEF Serving
<1>4. ASSUME NEW s \in Name, NEW d \in Name, DavMove(s, d) PROVE [Shelf!Next]_Shelf!vars
  <2>1. Serving /\ card' = Put(card, d, None) /\ Follow(d, None) /\ promised' = promised \ {d}
    BY <1>4 DEF DavMove
  <2>2. req'.op = "move"
    BY <1>4 DEF DavMove, NoRequest
  <2>3. \A m \in Name : ((m \in OpenFiles)' <=> ws'.at = m) /\ (m \in OpenFiles <=> ws.at = m)
    BY <2>1, <2>2 DEF OpenFiles, Serving
  <2> QED  BY <1>1, <2>1, <2>3, FileGoesShelf
<1>5. ASSUME DavMoveRenames PROVE [Shelf!Next]_Shelf!vars
  <2>1. PICK s \in Name, d \in Name : s = req.name /\ d = req.dst
    BY <1>1, <1>5 DEF RequestInProgress, DavMoveRenames
  <2>2. /\ req.op = "move" /\ (Renamed(s, d) \/ RenameFails) /\ req' = NoRequest
    BY <1>5, <2>1 DEF DavMoveRenames
  <2>3. s # d /\ card[s] # None /\ Absent(d)
    BY <1>1, <2>1, <2>2 DEF RequestInProgress
  <2> QED  BY <2>2, <2>3, NoUploadFacts, FileMovesShelf
<1>6. ASSUME DeleteClears PROVE [Shelf!Next]_Shelf!vars
  BY <1>6, NoUploadFacts, NothingOpened DEF DeleteClears, OpenFiles
<1> QED  BY <1>2, <1>3, <1>4, <1>5, <1>6, DavCopyShelf, CopiesShelf DEF Manage

-----------------------------------------------------------------------------
\* What was open when the power failed is there as a whole, or not at all.
LEMMA PowerLossShelf == ASSUME UInv, UInv', PowerLoss PROVE [Shelf!Next]_Shelf!vars
<1>1. CardIsPure /\ CardIsPure'
  BY Unfold DEF UInv
<1>2. PICK k \in [Name -> UNION {0 .. Size[b] : b \in Body}] :
        card' = [n \in Name |-> IF n \in OpenFiles THEN Cut(card[n], k[n]) ELSE card[n]]
  BY DEF PowerLoss
<1>3. UNCHANGED answers /\ ws' = NoUpload /\ req' = NoRequest
  BY DEF PowerLoss
<1>4. \A n \in Name : ~(n \in OpenFiles)'
  BY <1>3, NoUploadFacts, NameAssumption DEF OpenFiles
<1>5. \A n \in Name : BookCalled(n)' \in Body \cup {None} /\ card[n] \in Stored
  BY <1>1, BookFacts DEF BookCalled, CardIsPure
<1>6. ASSUME NEW n \in Name, BookCalled(n) # None PROVE BookCalled(n)' = BookCalled(n)
  <2>1. n \notin OpenFiles
    BY <1>5, <1>6, BookFacts DEF BookCalled
  <2>2. card'[n] = card[n] /\ (n \in OpenFiles)' = (n \in OpenFiles)
    BY <1>2, <1>4, <2>1
  <2> QED  BY <2>2 DEF BookCalled
<1>7. Books' \in [Name -> Body \cup {None}] /\ \A n \in Name : Books[n] # None => Books'[n] = Books[n]
  BY <1>5, <1>6, BooksAre
<1> QED  BY <1>3, <1>7 DEF Shelf!Next, Shelf!Restart

LEMMA DeviceShelf == ASSUME UInv, UInv', Device PROVE [Shelf!Next]_Shelf!vars
<1>1. ASSUME StartServer \/ \E n \in Name : OpenBook(n) PROVE [Shelf!Next]_Shelf!vars
  BY <1>1, NothingOpened DEF StartServer, OpenBook, OpenFiles
<1>2. ASSUME StopServer PROVE [Shelf!Next]_Shelf!vars
  <2>1. Serving /\ UNCHANGED req /\ IF ws.owner # None THEN AbortWsUpload ELSE UNCHANGED <<card, ws, answers, cache>>
    BY <1>2 DEF StopServer
  <2>2. CASE ws.owner # None
    BY <2>1, <2>2, AbortShelf
  <2>3. CASE ws.owner = None
    BY <2>1, <2>3, NothingOpened DEF OpenFiles
  <2> QED  BY <2>2, <2>3
<1> QED  BY <1>1, <1>2, PowerLossShelf DEF Device

\* The ways to put books on the card, together and whatever the order of their messages, requests and losses of power,
\* do what one shelf would: a book appears, moves and goes in one step, and a client is told of a book that is there,
\* but for the names whose upload lost its file to a request while it was open.
THEOREM UploadsRefinement == Spec => ImplementsBookShelf
<1>1. Init => Shelf!Init
  <2> SUFFICES ASSUME Init PROVE Books = [n \in Name |-> None] /\ promised = {} /\ strayed = {}
    BY DEF Shelf!Init
  <2>1. \A n \in Name : BookOf(card[n], n \in OpenFiles) = None
    BY NoneStored, BookFacts DEF Init
  <2> QED  BY <2>1 DEF Init, Books
<1>2. UInv /\ UInv' /\ [Next]_vars => [Shelf!Next]_Shelf!vars
  <2>1. ASSUME UNCHANGED vars PROVE [Shelf!Next]_Shelf!vars
    BY <2>1, NothingOpened DEF vars, OpenFiles
  <2> QED  BY <2>1, WebSocketShelf, FormShelf, PutShelf, ManageShelf, DeviceShelf DEF Next
<1> QED  BY <1>1, <1>2, UploadsInvariant, PTL DEF Spec, ImplementsBookShelf, Shelf!Spec
=============================================================================
