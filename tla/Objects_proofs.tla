--------------------------- MODULE Objects_proofs ---------------------------
(***************************************************************************)
(* Proofs about the bytes, where they are kept: uploads that are streamed  *)
(* to S3, the directory of the file adapter, and its upload tokens; and    *)
(* about listing files by pages.  A behaviour of MCServices is about one   *)
(* part, and the others stand still: what is proved of a part is an        *)
(* invariant of the steps of that part, under the guard that it is the one.*)
(***************************************************************************)
EXTENDS MCServices, FiniteSetTheorems, SequenceTheorems, WellFoundedInduction, TLAPS

(* A behaviour stays with its part. *)
LEMMA PartStands == [Next]_vars => part' = part
BY DEF Next, vars

-----------------------------------------------------------------------------
(* Sets of natural numbers: the form in which the proofs use induction. *)

LEMMA LeastOf ==
  ASSUME NEW S, S \subseteq Nat, S # {}
  PROVE  \E x \in S : \A y \in S : x <= y
<1>1. PICK x \in S : \A y \in S : <<y, x>> \notin OpToRel(<, Nat)
  BY NatLessThanWellFounded, WFMin
<1>2. \A y \in S : ~(y < x)
  BY <1>1 DEF OpToRel
<1>. QED
  BY <1>2

LEMMA GreatestOf ==
  ASSUME NEW S, S \subseteq Nat, S # {}, NEW n \in Nat, \A k \in S : k <= n
  PROVE  \E x \in S : \A y \in S : y <= x
<1>. DEFINE U == {u \in Nat : \A y \in S : y <= u}
<1>1. PICK x \in U : \A u \in U : x <= u
  BY LeastOf
<1>2. CASE x \in S
  BY <1>2
<1>3. CASE x \notin S
  <2>1. \A y \in S : y < x
    BY <1>1, <1>3
  <2>2. PICK z \in S : z \in Nat /\ z < x
    BY <2>1
  <2>3. x - 1 \in Nat /\ \A y \in S : y <= x - 1
    BY <1>1, <2>1, <2>2
  <2>4. x - 1 \in U
    BY <2>3
  <2>5. x \in Nat /\ x <= x - 1
    BY <1>1, <2>4
  <2>. QED
    BY <2>5
<1>. QED
  BY <1>2, <1>3

-----------------------------------------------------------------------------
(* Upload tokens. *)

(* What the token says of its time, and every answer it was good for was given
   at an instant at which it held.                                          *)
TokenHolds ==
  /\ token \in [key : {1}, signed : Nat, exp : Nat, accepted : SUBSET Nat, refused : SUBSET Nat]
  /\ token.exp = (token.signed \div Second) + Ttl
  /\ \A t \in token.accepted : token.exp * Second > t
  /\ \A t \in token.refused  : token.exp * Second <= t

TokenInv ==
  /\ now \in Nat
  /\ fsCall = [c \in Calls |-> fsCall[c]]
  /\ \A c \in Calls : "stage" \in DOMAIN fsCall[c]
  /\ token # None \/ (\E c \in Calls : fsCall[c].stage = "body") => TokenHolds

LEMMA TokensFit == Ttl \in Nat \ {0} /\ Second \in Nat \ {0} /\ None \notin Nat
BY ConstantsFit DEF Direct!FsStorageConstants

LEMMA TokensBegin == Init /\ part = "direct" => TokenInv
<1>. SUFFICES ASSUME Init, part = "direct" PROVE TokenInv
  OBVIOUS
<1>1. Direct!FsInit
  BY DEF Init
<1>2. now = 0 /\ fsCall = [c \in Calls |-> [stage |-> "idle"]] /\ token = None
  BY <1>1 DEF Direct!FsInit, Direct!Unused
<1>3. \A c \in Calls : fsCall[c] = [stage |-> "idle"]
  BY <1>2
<1>. QED
  BY <1>2, <1>3 DEF TokenInv

LEMMA TokensStep ==
  ASSUME TokenInv, Direct!FsNext
  PROVE  TokenInv'
<1>. USE TokensFit
<1>1. /\ now \in Nat /\ fsCall = [c \in Calls |-> fsCall[c]]
      /\ \A c \in Calls : "stage" \in DOMAIN fsCall[c]
  BY DEF TokenInv
(* The calls remain calls, and nobody more waits for a body. *)
<1>. DEFINE Remain == /\ fsCall' = [c \in Calls |-> fsCall'[c]]
                      /\ \A c \in Calls : "stage" \in DOMAIN fsCall'[c]
            NoneMore == \A c \in Calls : fsCall'[c].stage = "body" => fsCall[c].stage = "body"
<1>2. ASSUME NEW c \in Calls, NEW l, fsCall' = [fsCall EXCEPT ![c] = l], "stage" \in DOMAIN l
      PROVE  Remain /\ (l.stage # "body" => NoneMore)
  BY <1>1, <1>2
<1>3. ASSUME NEW c \in Calls, NEW stage, Direct!Goes(c, stage)
      PROVE  Remain /\ (stage # "body" => NoneMore)
  <2>1. fsCall' = [fsCall EXCEPT ![c] = IF stage = "idle" THEN [stage |-> "idle"]
                                        ELSE [fsCall[c] EXCEPT !.stage = stage]]
    BY <1>3 DEF Direct!Goes, Direct!Unused
  <2>. QED
    BY <1>1, <1>2, <2>1
<1>. HIDE DEF Remain, NoneMore
<1>4. ASSUME NEW c \in Calls, NEW k,
             Direct!BeginPut(c, k) \/ Direct!OpenStream(c, k) \/ Direct!BeginList(c)
      PROVE  Remain /\ NoneMore /\ UNCHANGED <<now, token>>
  <2>1. CASE Direct!BeginPut(c, k)
    <3>. DEFINE l == [stage |-> "create", key |-> k, file |-> puts + 1]
    <3>1. UNCHANGED <<now, token>> /\ fsCall' = [fsCall EXCEPT ![c] = l]
      BY <2>1 DEF Direct!BeginPut, Direct!StartsPut
    <3>2. "stage" \in DOMAIN l /\ l.stage # "body"
      OBVIOUS
    <3>. HIDE DEF l
    <3>. QED
      BY <1>2, <3>1, <3>2
  <2>2. CASE Direct!OpenStream(c, k)
    <3>. DEFINE l == [stage |-> "read", file |-> path[k], got |-> 0]
    <3>1. UNCHANGED <<now, token>> /\ fsCall' = [fsCall EXCEPT ![c] = l]
      BY <2>2 DEF Direct!OpenStream
    <3>2. "stage" \in DOMAIN l /\ l.stage # "body"
      OBVIOUS
    <3>. HIDE DEF l
    <3>. QED
      BY <1>2, <3>1, <3>2
  <2>3. CASE Direct!BeginList(c)
    <3>. DEFINE l == [stage |-> "walk", todo |-> {1}, found |-> {},
                                          after |-> Direct!NoKey, seen |-> [k0 \in {1} |-> 0]]
    <3>1. UNCHANGED <<now, token>> /\ fsCall' = [fsCall EXCEPT ![c] = l]
      BY <2>3 DEF Direct!BeginList
    <3>2. "stage" \in DOMAIN l /\ l.stage # "body"
      OBVIOUS
    <3>. HIDE DEF l
    <3>. QED
      BY <1>2, <3>1, <3>2
  <2>. QED
    BY <1>4, <2>1, <2>2, <2>3
<1>5. ASSUME NEW c \in Calls, NEW k,
             Direct!Visit(c, k) \/ Direct!AnswerPage(c) \/ Direct!ReadOn(c)
      PROVE  Remain /\ NoneMore /\ UNCHANGED <<now, token>>
  <2>1. CASE Direct!Visit(c, k)
    <3>1. fsCall[c].stage = "walk" /\ UNCHANGED <<now, token>>
      BY <2>1 DEF Direct!Visit, Direct!At
    <3>2. \E x, y : fsCall' = [fsCall EXCEPT ![c] = [fsCall[c] EXCEPT !.todo = x, !.found = y]]
      BY <1>1, <2>1 DEF Direct!Visit
    <3>. QED
      BY <1>1, <1>2, <3>1, <3>2
  <2>2. CASE Direct!AnswerPage(c)
    <3>1. fsCall[c].stage = "walk" /\ UNCHANGED <<now, token>>
      BY <2>2 DEF Direct!AnswerPage, Direct!At
    <3>. DEFINE rest == Direct!Remaining(fsCall[c])
                page == Direct!FirstOf(rest)
                shown == [k0 \in {1} |-> fsCall[c].seen[k0] + (IF k0 \in page THEN 1 ELSE 0)]
                latest == CHOOSE k0 \in page : \A j \in page : j <= k0
    <3>2. \/ fsCall' = [fsCall EXCEPT ![c].stage = "listed", ![c].seen = shown]
          \/ fsCall' = [fsCall EXCEPT ![c].todo = {1}, ![c].found = {}, ![c].seen = shown,
                                      ![c].after = latest]
      BY <2>2 DEF Direct!AnswerPage
    <3>. HIDE DEF rest, page, shown, latest
    <3>3. CASE fsCall' = [fsCall EXCEPT ![c].stage = "listed", ![c].seen = shown]
      <4>. DEFINE l == [fsCall[c] EXCEPT !.stage = "listed", !.seen = shown]
      <4>1. fsCall' = [fsCall EXCEPT ![c] = l]
        BY <1>1, <3>3
      <4>2. "stage" \in DOMAIN l /\ l.stage # "body"
        BY <1>1
      <4>. HIDE DEF l
      <4>. QED
        BY <1>2, <3>1, <4>1, <4>2
    <3>4. CASE fsCall' = [fsCall EXCEPT ![c].todo = {1}, ![c].found = {}, ![c].seen = shown,
                                        ![c].after = latest]
      <4>. DEFINE l == [fsCall[c] EXCEPT !.todo = {1}, !.found = {}, !.seen = shown,
                                         !.after = latest]
      <4>1. fsCall' = [fsCall EXCEPT ![c] = l]
        BY <1>1, <3>4
      <4>2. "stage" \in DOMAIN l /\ l.stage = fsCall[c].stage
        BY <1>1
      <4>. HIDE DEF l
      <4>. QED
        BY <1>2, <3>1, <4>1, <4>2
    <3>. QED
      BY <3>1, <3>2, <3>3, <3>4
  <2>3. CASE Direct!ReadOn(c)
    <3>1. fsCall[c].stage = "read" /\ UNCHANGED <<now, token>>
      BY <2>3 DEF Direct!ReadOn, Direct!At
    <3>2. \/ \E x : fsCall' = [fsCall EXCEPT ![c] = [fsCall[c] EXCEPT !.got = x]]
          \/ fsCall' = [fsCall EXCEPT ![c] = [stage |-> "idle"]]
      BY <1>1, <2>3 DEF Direct!ReadOn, Direct!Unused
    <3>. QED
      BY <1>1, <1>2, <3>1, <3>2
  <2>. QED
    BY <1>5, <2>1, <2>2, <2>3
<1>6. ASSUME NEW c \in Calls,
             \/ Direct!CreateTmp(c) \/ Direct!WriteTmp(c) \/ Direct!Rename(c) \/ Direct!PutFails(c)
             \/ Direct!RemoveTmp(c) \/ Direct!Dies(c) \/ Direct!EndList(c) \/ Direct!BodyRefused(c)
      PROVE  Remain /\ NoneMore /\ UNCHANGED <<now, token>>
  <2>1. UNCHANGED <<now, token>> /\ \E stage : stage # "body" /\ Direct!Goes(c, stage)
    BY <1>6 DEF Direct!CreateTmp, Direct!WriteTmp, Direct!Rename, Direct!PutFails, Direct!AfterFailure,
       Direct!RemoveTmp, Direct!Dies, Direct!EndList, Direct!BodyRefused
  <2>. QED
    BY <1>3, <2>1
<1>7. ASSUME UNCHANGED fsCall PROVE Remain /\ NoneMore
  BY <1>1, <1>7 DEF Remain, NoneMore
<1>8. ASSUME Remain, NoneMore, token' = token, now' \in Nat PROVE TokenInv'
  BY <1>8 DEF TokenInv, TokenHolds, Remain, NoneMore
<1>9. ASSUME NEW k \in {1}, Direct!Presign(k) PROVE TokenInv'
  <2>1. /\ UNCHANGED <<now, fsCall>>
        /\ token' = [key |-> k, signed |-> now, exp |-> now \div Second + Ttl,
                     accepted |-> {}, refused |-> {}]
    BY <1>9 DEF Direct!Presign
  <2>2. now \div Second \in Nat
    BY <1>1
  <2>3. TokenHolds'
    BY <1>1, <2>1, <2>2 DEF TokenHolds
  <2>. QED
    BY <1>1, <1>7, <2>1, <2>3 DEF TokenInv, Remain
<1>10. ASSUME NEW c \in Calls, Direct!BeginAccept(c) \/ Direct!TakeBody(c) PROVE TokenInv'
  <2>1. TokenHolds /\ now' = now
    BY <1>10 DEF Direct!BeginAccept, Direct!TakeBody, Direct!At, TokenInv
  <2>2. /\ token \in [key : {1}, signed : Nat, exp : Nat, accepted : SUBSET Nat, refused : SUBSET Nat]
        /\ token.exp = (token.signed \div Second) + Ttl
        /\ \A t \in token.accepted : token.exp * Second > t
        /\ \A t \in token.refused  : token.exp * Second <= t
    BY <2>1 DEF TokenHolds
  <2>3. token.exp * Second \in Nat
    BY <2>2
  <2>4. \/ token' = token
        \/ token.exp * Second > now /\ token' = [token EXCEPT !.accepted = @ \cup {now}]
        \/ ~(token.exp * Second > now) /\ token' = [token EXCEPT !.refused = @ \cup {now}]
    BY <1>10 DEF Direct!BeginAccept, Direct!TakeBody, Direct!TokenLives
  <2>5. /\ token' \in [key : {1}, signed : Nat, exp : Nat, accepted : SUBSET Nat, refused : SUBSET Nat]
        /\ token'.exp = token.exp /\ token'.signed = token.signed
        /\ token'.accepted = token.accepted \/ (token.exp * Second > now
                                                /\ token'.accepted = token.accepted \cup {now})
        /\ token'.refused = token.refused \/ (~(token.exp * Second > now)
                                              /\ token'.refused = token.refused \cup {now})
    <3>1. CASE token' = token
      BY <2>2, <3>1
    <3>2. CASE token.exp * Second > now /\ token' = [token EXCEPT !.accepted = @ \cup {now}]
      BY <1>1, <2>2, <3>2
    <3>3. CASE ~(token.exp * Second > now) /\ token' = [token EXCEPT !.refused = @ \cup {now}]
      BY <1>1, <2>2, <3>3
    <3>. QED
      BY <2>4, <3>1, <3>2, <3>3
  <2>6. /\ \A t \in token'.accepted : token.exp * Second > t
        /\ \A t \in token'.refused  : token.exp * Second <= t
    BY <1>1, <2>2, <2>3, <2>5
  <2>7. TokenHolds'
    BY <2>2, <2>5, <2>6 DEF TokenHolds
  <2>8. Remain
    <3>1. \/ fsCall' = fsCall
          \/ fsCall' = [fsCall EXCEPT ![c] = [stage |-> "body"]]
          \/ fsCall' = [fsCall EXCEPT ![c] = [stage |-> "create", key |-> token.key, file |-> puts + 1]]
          \/ Direct!Goes(c, "idle")
      BY <1>10 DEF Direct!BeginAccept, Direct!TakeBody, Direct!StartsPut
    <3>2. ASSUME NEW l, fsCall' = [fsCall EXCEPT ![c] = l], "stage" \in DOMAIN l PROVE Remain
      BY <1>2, <3>2
    <3>3. /\ "stage" \in DOMAIN [stage |-> "body"]
          /\ "stage" \in DOMAIN [stage |-> "create", key |-> token.key, file |-> puts + 1]
      OBVIOUS
    <3>. QED
      BY <1>3, <1>7, <3>1, <3>2, <3>3
  <2>. QED
    BY <1>1, <2>1, <2>7, <2>8 DEF TokenInv, Remain
<1>11. ASSUME NEW k \in {1}, Direct!Delete(k) \/ Direct!Tick PROVE TokenInv'
  BY <1>1, <1>7, <1>8, <1>11 DEF Direct!Delete, Direct!Tick
<1>. QED
  BY <1>1, <1>4, <1>5, <1>6, <1>8, <1>9, <1>10, <1>11 DEF Direct!FsNext

(* However long a body takes and however the seconds are cut: no put begins on
   a token's word after its time, and none is refused before the last second
   of it (storage.ts, presignDirectUpload and acceptDirectUpload).          *)
THEOREM TokensExpire == Spec => []TokensKeepTime
<1>1. (part = "direct" => TokenInv) /\ [Next]_vars => (part = "direct" => TokenInv)'
  <2>1. ASSUME TokenInv, UNCHANGED fs PROVE TokenInv'
    BY <2>1 DEF TokenInv, TokenHolds, fs
  <2>2. [Next]_vars /\ part = "direct" => Direct!FsNext \/ UNCHANGED fs
    BY DEF Next, vars, services, others, fs
  <2>. QED
    BY <2>1, <2>2, TokensStep, PartStands
<1>2. (part = "direct" => TokenInv) => TokensKeepTime
  <2>. SUFFICES ASSUME TokenHolds PROVE Direct!TokensKeepTime
    BY DEF TokenInv, TokensKeepTime, Direct!TokensKeepTime
  <2>. USE TokensFit
  <2>1. /\ token.signed \in Nat /\ token.exp = (token.signed \div Second) + Ttl
        /\ token.accepted \subseteq Nat /\ token.refused \subseteq Nat
        /\ \A t \in token.accepted : token.exp * Second > t
        /\ \A t \in token.refused  : token.exp * Second <= t
    BY DEF TokenHolds
  <2>. DEFINE d == token.signed \div Second
  <2>2. /\ d \in Nat /\ d * Second <= token.signed /\ token.signed < (d + 1) * Second
    BY <2>1
  <2>. HIDE DEF d
  <2>3. /\ (d + Ttl) * Second = d * Second + Ttl * Second
        /\ (d + 1) * Second = d * Second + Second
        /\ (Ttl - 1) * Second = Ttl * Second - Second
    BY <2>2
  <2>4. token.exp = d + Ttl
    BY <2>1 DEF d
  <2>5. d * Second \in Nat /\ Ttl * Second \in Nat
    BY <2>2
  <2>6. ASSUME NEW t \in token.accepted PROVE t < token.signed + Ttl * Second
    BY <2>1, <2>2, <2>3, <2>4, <2>5, <2>6
  <2>7. ASSUME NEW t \in token.refused PROVE t > token.signed + (Ttl - 1) * Second
    BY <2>1, <2>2, <2>3, <2>4, <2>5, <2>7
  <2>. QED
    BY <2>6, <2>7 DEF Direct!TokensKeepTime
<1>. QED
  BY <1>1, <1>2, TokensBegin, PTL DEF Spec

-----------------------------------------------------------------------------
(* A streamed upload. *)

PieceRecord == [from : Nat, size : Nat]

(* Pieces that follow upon each other, from the first byte to `end'. *)
Tiles(s, end) ==
  /\ \A i \in 1..Len(s) : s[i].from = IF i = 1 THEN 0 ELSE s[i-1].from + s[i-1].size
  /\ end = IF Len(s) = 0 THEN 0 ELSE s[Len(s)].from + s[Len(s)].size

AllFull(s) == \A i \in 1..Len(s) : s[i].size = PartSize

FullButTheLast(s) ==
  \A i \in 1..Len(s) :
    /\ s[i].size <= PartSize
    /\ i < Len(s) => s[i].size = PartSize
    /\ Len(s) > 1 => s[i].size > 0

WholeStream(s) == Len(s) > 0 /\ source.ended /\ Tiles(s, source.brought) /\ FullButTheLast(s)

StreamType ==
  /\ source \in [brought : 0..Cap, ended : BOOLEAN]
  /\ put \in [stage : {"reading", "whole", "create", "send", "complete", "abort", "ok", "failed"},
              taken : Nat, part : PieceRecord, last : BOOLEAN, multi : BOOLEAN]
  /\ bucket \in [parts : Seq(PieceRecord), open : BOOLEAN, object : Seq(PieceRecord),
                 stored : BOOLEAN]

(* At every stage of the upload: the parts at the store and the part in hand
   are what was taken from the stream, and nothing of it twice.             *)
PartsFollow ==
  /\ put.taken <= source.brought
  /\ put.stage \in {"reading", "create", "whole", "send", "complete"} => ~bucket.stored
  /\ put.stage = "reading" =>
       /\ AllFull(bucket.parts) /\ Tiles(bucket.parts, put.taken)
       /\ ~put.multi => bucket.parts = <<>>
       /\ put.multi  => Len(bucket.parts) > 0
  /\ put.stage \in {"create", "whole"} =>
       bucket.parts = <<>> /\ put.part.from = 0
  /\ put.stage = "send" =>
       put.multi /\ AllFull(bucket.parts) /\ Tiles(bucket.parts, put.part.from)
  /\ put.stage \in {"create", "whole", "send"} =>
       /\ put.part.from + put.part.size = put.taken
       /\ put.part.size <= PartSize
       /\ put.stage # "whole" => put.part.size > 0
       /\ ~put.last => put.part.size = PartSize
       /\ put.last  => source.ended /\ put.taken = source.brought
  /\ put.stage = "create" => ~put.last
  /\ put.stage = "whole"  => put.last
  /\ put.stage = "complete" => WholeStream(bucket.parts)

StoredIsWhole ==
  /\ bucket.stored  => WholeStream(bucket.object)
  /\ ~bucket.stored => FullButTheLast(bucket.parts)

FailureIsClean ==
  lost = {} =>
    /\ bucket.stored <=> put.stage = "ok"
    /\ bucket.open   <=> put.stage \in {"send", "complete", "abort"}
                         \/ (put.stage = "reading" /\ put.multi)

StreamInv == StreamType /\ PartsFollow /\ StoredIsWhole /\ FailureIsClean

LEMMA StreamFits == PartSize \in Nat \ {0} /\ Cap \in Nat \ {0}
BY ConstantsFit DEF Stream!S3UploadConstants

LEMMA StreamBegins == Init => StreamInv
<1>. SUFFICES ASSUME Init PROVE StreamInv
  OBVIOUS
<1>. USE StreamFits
<1>1. /\ source = [brought |-> 0, ended |-> FALSE] /\ lost = {}
      /\ put = [stage |-> "reading", taken |-> 0, part |-> [from |-> 0, size |-> 0], last |-> FALSE,
                multi |-> FALSE]
      /\ bucket = [parts |-> <<>>, open |-> FALSE, object |-> <<>>, stored |-> FALSE]
  BY DEF Init, Stream!S3UploadInit, Stream!Nothing
<1>2. <<>> \in Seq(PieceRecord) /\ Len(<<>>) = 0
  OBVIOUS
<1>3. StreamType
  <2>1. put.part \in PieceRecord
    BY <1>1 DEF PieceRecord
  <2>. QED
    BY <1>1, <1>2, <2>1 DEF StreamType
<1>4. PartsFollow
  BY <1>1, <1>2 DEF PartsFollow, AllFull, Tiles
<1>5. StoredIsWhole /\ FailureIsClean
  BY <1>1, <1>2 DEF StoredIsWhole, FullButTheLast, FailureIsClean
<1>. QED
  BY <1>3, <1>4, <1>5 DEF StreamInv

(* A part that fits at the end. *)
LEMMA OneMorePiece ==
  ASSUME NEW s \in Seq(PieceRecord), NEW p \in PieceRecord, AllFull(s), Tiles(s, p.from)
  PROVE  /\ Append(s, p) \in Seq(PieceRecord) /\ Len(Append(s, p)) = Len(s) + 1
         /\ Tiles(Append(s, p), p.from + p.size)
         /\ p.size = PartSize => AllFull(Append(s, p))
         /\ p.size <= PartSize /\ p.size > 0 => FullButTheLast(Append(s, p))
<1>. USE StreamFits
<1>. DEFINE t == Append(s, p)
<1>1. /\ Len(s) \in Nat /\ t \in Seq(PieceRecord) /\ Len(t) = Len(s) + 1
      /\ \A i \in 1..Len(s) : t[i] = s[i] /\ s[i] \in PieceRecord
      /\ t[Len(s) + 1] = p
  OBVIOUS
<1>. HIDE DEF t
<1>2. Tiles(t, p.from + p.size)
  <2>1. t[Len(t)] = p /\ Len(t) # 0
    BY <1>1
  <2>2. ASSUME NEW i \in 1..Len(s)
        PROVE  t[i].from = IF i = 1 THEN 0 ELSE t[i-1].from + t[i-1].size
    BY <1>1 DEF Tiles
  <2>3. t[Len(s) + 1].from = IF Len(s) + 1 = 1 THEN 0 ELSE t[Len(s)].from + t[Len(s)].size
    BY <1>1 DEF Tiles
  <2>4. \A i \in 1..Len(t) : i \in 1..Len(s) \/ i = Len(s) + 1
    BY <1>1
  <2>5. \A i \in 1..Len(t) : t[i].from = IF i = 1 THEN 0 ELSE t[i-1].from + t[i-1].size
    BY <1>1, <2>2, <2>3, <2>4
  <2>. QED
    BY <2>1, <2>5 DEF Tiles
<1>3. p.size = PartSize => AllFull(t)
  BY <1>1 DEF AllFull
<1>4. p.size <= PartSize /\ p.size > 0 => FullButTheLast(t)
  <2>. SUFFICES ASSUME p.size <= PartSize, p.size > 0, NEW i \in 1..Len(t)
                PROVE  /\ t[i].size <= PartSize /\ (i < Len(t) => t[i].size = PartSize)
                       /\ t[i].size > 0
    BY DEF FullButTheLast
  <2>1. CASE i \in 1..Len(s)
    BY <1>1, <2>1 DEF AllFull
  <2>2. CASE i = Len(s) + 1
    BY <1>1, <2>2 DEF PieceRecord
  <2>. QED
    BY <1>1, <2>1, <2>2
<1>. QED
  BY <1>1, <1>2, <1>3, <1>4 DEF t

LEMMA FullIsFullButTheLast ==
  ASSUME NEW s \in Seq(PieceRecord), AllFull(s) PROVE FullButTheLast(s)
BY StreamFits DEF AllFull, FullButTheLast

LEMMA StreamFields ==
  ASSUME StreamType
  PROVE  /\ source.brought \in 0..Cap /\ source.ended \in BOOLEAN
         /\ put.taken \in Nat /\ put.part \in PieceRecord
         /\ put.part.from \in Nat /\ put.part.size \in Nat
         /\ put.last \in BOOLEAN /\ put.multi \in BOOLEAN
         /\ bucket.parts \in Seq(PieceRecord) /\ bucket.object \in Seq(PieceRecord)
         /\ bucket.open \in BOOLEAN /\ bucket.stored \in BOOLEAN
BY DEF StreamType, PieceRecord

(* The store is left alone: what matters is where the call stands. *)
LEMMA CallMoves ==
  ASSUME StreamInv, NEW stage \in {"abort", "ok", "failed"},
         put' = [put EXCEPT !.stage = stage], UNCHANGED <<source, bucket>>, FailureIsClean'
  PROVE  StreamInv'
<1>1. StreamType /\ PartsFollow /\ StoredIsWhole
  BY DEF StreamInv
<1>2. put'.stage = stage /\ put'.taken = put.taken /\ StreamType'
  BY <1>1 DEF StreamType
<1>3. PartsFollow'
  BY <1>1, <1>2 DEF PartsFollow
<1>4. StoredIsWhole'
  BY <1>1 DEF StoredIsWhole, WholeStream
<1>. QED
  BY <1>2, <1>3, <1>4 DEF StreamInv

(* The store puts the object together; the call gets an answer or not. *)
LEMMA ObjectComes ==
  ASSUME StreamInv, NEW s \in Seq(PieceRecord), WholeStream(s), NEW stage \in {"abort", "ok", "failed"},
         put' = [put EXCEPT !.stage = stage], bucket' = Stream!Stored(s), source' = source,
         lost' = {} => stage = "ok"
  PROVE  StreamInv'
<1>1. StreamType /\ PartsFollow
  BY DEF StreamInv
<1>2. /\ bucket'.object = s /\ bucket'.stored = TRUE /\ bucket'.open = FALSE
      /\ bucket' \in [parts : Seq(PieceRecord), open : BOOLEAN, object : Seq(PieceRecord),
                      stored : BOOLEAN]
  <2>1. bucket = [parts |-> bucket.parts, open |-> bucket.open, object |-> bucket.object,
                  stored |-> bucket.stored]
    BY <1>1 DEF StreamType
  <2>2. bucket' = [parts |-> <<>>, open |-> FALSE, object |-> s, stored |-> TRUE]
    BY <2>1 DEF Stream!Stored
  <2>3. <<>> \in Seq(PieceRecord)
    OBVIOUS
  <2>. QED
    BY <2>2, <2>3
<1>3. put'.stage = stage /\ put'.taken = put.taken
  BY <1>1 DEF StreamType
<1>4. put' \in [stage : {"reading", "whole", "create", "send", "complete", "abort", "ok", "failed"},
                taken : Nat, part : PieceRecord, last : BOOLEAN, multi : BOOLEAN]
  BY <1>1 DEF StreamType
<1>5. StreamType'
  BY <1>1, <1>2, <1>4 DEF StreamType
<1>6. PartsFollow'
  BY <1>1, <1>3 DEF PartsFollow
<1>7. StoredIsWhole' /\ FailureIsClean'
  BY <1>2, <1>3 DEF StoredIsWhole, WholeStream, FailureIsClean
<1>. QED
  BY <1>5, <1>6, <1>7 DEF StreamInv

LEMMA StreamStep ==
  ASSUME StreamInv, Stream!S3UploadNext
  PROVE  StreamInv'
<1>. USE StreamFits
<1>1. StreamType /\ PartsFollow /\ StoredIsWhole /\ FailureIsClean
  BY DEF StreamInv
<1>2. /\ source.brought \in 0..Cap /\ source.ended \in BOOLEAN
      /\ put.taken \in Nat /\ put.part \in PieceRecord
      /\ put.part.from \in Nat /\ put.part.size \in Nat
      /\ put.last \in BOOLEAN /\ put.multi \in BOOLEAN
      /\ bucket.parts \in Seq(PieceRecord) /\ bucket.object \in Seq(PieceRecord)
      /\ bucket.open \in BOOLEAN /\ bucket.stored \in BOOLEAN
  BY <1>1, StreamFields
<1>3. CASE Stream!Read \/ Stream!SourceEnds
  <2>1. /\ put.stage = "reading" /\ UNCHANGED <<put, bucket, lost>>
        /\ source'.brought \in source.brought..Cap /\ source' \in [brought : 0..Cap, ended : BOOLEAN]
    <3>1. CASE Stream!Read
      <4>1. PICK n \in 1..MaxChunk : source.brought + n <= Cap
                                     /\ source' = [source EXCEPT !.brought = @ + n]
        BY <3>1 DEF Stream!Read
      <4>2. n \in Nat /\ source.brought + n \in source.brought..Cap
        BY <1>2, <4>1, ConstantsFit DEF Stream!S3UploadConstants
      <4>3. source'.brought = source.brought + n /\ source'.ended = source.ended
            /\ source' = [brought |-> source.brought + n, ended |-> source.ended]
        BY <1>1, <4>1 DEF StreamType
      <4>4. put.stage = "reading" /\ UNCHANGED <<put, bucket, lost>>
        BY <3>1 DEF Stream!Read
      <4>5. source' \in [brought : 0..Cap, ended : BOOLEAN]
        BY <1>2, <4>2, <4>3
      <4>. QED
        BY <4>2, <4>3, <4>4, <4>5
    <3>2. CASE Stream!SourceEnds
      <4>1. /\ put.stage = "reading" /\ UNCHANGED <<put, bucket, lost>>
            /\ source' = [source EXCEPT !.ended = TRUE]
        BY <3>2 DEF Stream!SourceEnds
      <4>2. source' = [brought |-> source.brought, ended |-> TRUE]
        BY <1>1, <4>1 DEF StreamType
      <4>3. source'.brought = source.brought /\ source' \in [brought : 0..Cap, ended : BOOLEAN]
        BY <1>2, <4>2
      <4>4. source'.brought \in source.brought..Cap
        BY <1>2, <4>3
      <4>. QED
        BY <4>1, <4>3, <4>4
    <3>. QED
      BY <1>3, <3>1, <3>2
  <2>2. StreamType'
    BY <1>1, <2>1 DEF StreamType
  <2>3. PartsFollow'
    BY <1>1, <1>2, <2>1 DEF PartsFollow
  <2>4. StoredIsWhole' /\ FailureIsClean'
    BY <1>1, <2>1 DEF StoredIsWhole, PartsFollow, FailureIsClean
  <2>. QED
    BY <2>2, <2>3, <2>4 DEF StreamInv
<1>4. CASE Stream!SourceFails
  <2>1. /\ put.stage = "reading" /\ UNCHANGED <<source, bucket, lost>>
        /\ put' = [put EXCEPT !.stage = IF put.multi THEN "abort" ELSE "failed"]
    BY <1>4 DEF Stream!SourceFails
  <2>2. put'.stage = IF put.multi THEN "abort" ELSE "failed"
    BY <1>1, <2>1 DEF StreamType
  <2>3. FailureIsClean'
    BY <1>1, <2>1, <2>2 DEF FailureIsClean
  <2>. QED
    BY <2>1, <2>3, CallMoves
<1>5. CASE Stream!CutPart
  <2>. DEFINE size  == IF Stream!Held >= PartSize THEN PartSize ELSE Stream!Held
              last  == Stream!Held < PartSize
              stage == CASE ~put.multi /\ last  -> "whole"
                         [] ~put.multi /\ ~last -> "create"
                         [] put.multi /\ size = 0 -> "complete"
                         [] OTHER -> "send"
  <2>1. /\ put.stage = "reading" /\ (source.ended \/ Stream!Held >= PartSize)
        /\ UNCHANGED <<source, bucket, lost>>
        /\ put' = [put EXCEPT !.taken = @ + size, !.part = [from |-> put.taken, size |-> size],
                              !.last = last, !.stage = stage]
    BY <1>5 DEF Stream!CutPart
  <2>2. /\ size \in 0..PartSize /\ put.taken + size <= source.brought
        /\ last \in BOOLEAN /\ (~last => size = PartSize)
        /\ last => source.ended /\ put.taken + size = source.brought
    BY <1>1, <1>2, <2>1 DEF Stream!Held, PartsFollow
  <2>3. /\ stage \in {"whole", "create", "complete", "send"}
        /\ stage = "whole" => ~put.multi /\ last
        /\ stage = "create" => ~put.multi /\ ~last
        /\ stage = "complete" => put.multi /\ size = 0
        /\ stage = "send" => put.multi /\ size # 0
    BY <2>2
  <2>. HIDE DEF size, last, stage
  <2>4. /\ put'.stage = stage /\ put'.taken = put.taken + size /\ put'.last = last
        /\ put'.part = [from |-> put.taken, size |-> size] /\ put'.multi = put.multi
    BY <1>1, <2>1 DEF StreamType
  <2>5. put'.part \in PieceRecord /\ put'.part.from = put.taken /\ put'.part.size = size
    BY <1>2, <2>2, <2>4 DEF PieceRecord
  <2>6. StreamType'
    <3>1. put'.taken \in Nat /\ put'.stage \in {"whole", "create", "complete", "send"}
          /\ put'.last \in BOOLEAN
      BY <1>2, <2>2, <2>3, <2>4
    <3>. QED
      BY <1>1, <2>1, <2>5, <3>1 DEF StreamType
  <2>7. ~bucket.stored /\ AllFull(bucket.parts) /\ Tiles(bucket.parts, put.taken)
        /\ (~put.multi => bucket.parts = <<>>) /\ (put.multi => Len(bucket.parts) > 0)
    BY <1>1, <2>1 DEF PartsFollow
  <2>8. ~put.multi => put.taken = 0
    BY <2>7 DEF Tiles
  <2>9. stage = "complete" => WholeStream(bucket.parts)
    <3>. SUFFICES ASSUME stage = "complete" PROVE WholeStream(bucket.parts)
      OBVIOUS
    <3>1. last /\ put.taken + size = put.taken
      BY <1>2, <2>2, <2>3
    <3>. QED
      BY <1>2, <2>2, <2>3, <2>7, <3>1, FullIsFullButTheLast DEF WholeStream
  <2>10. PartsFollow'
    BY <1>2, <2>1, <2>2, <2>3, <2>4, <2>5, <2>7, <2>8, <2>9 DEF PartsFollow, WholeStream
  <2>11. StoredIsWhole' /\ FailureIsClean'
    BY <1>1, <2>1, <2>3, <2>4 DEF StoredIsWhole, PartsFollow, FailureIsClean
  <2>. QED
    BY <2>6, <2>10, <2>11 DEF StreamInv
<1>6. ASSUME put.stage = "whole" PROVE <<put.part>> \in Seq(PieceRecord) /\ WholeStream(<<put.part>>)
  <2>1. /\ put.part.from = 0 /\ put.part.size = put.taken /\ put.part.size <= PartSize
        /\ source.ended /\ put.taken = source.brought
    BY <1>1, <1>2, <1>6 DEF PartsFollow
  <2>. QED
    BY <1>2, <2>1 DEF WholeStream, Tiles, FullButTheLast
<1>7. CASE Stream!PutWhole
  BY <1>6, <1>7, ObjectComes DEF Stream!PutWhole, Stream!Request
<1>8. CASE Stream!Complete
  BY <1>1, <1>2, <1>8, ObjectComes DEF Stream!Complete, Stream!Request, PartsFollow
<1>9. CASE Stream!CreateUpload
  <2>1. /\ put.stage = "create" /\ UNCHANGED <<source, lost>>
        /\ put' = [put EXCEPT !.stage = "send", !.multi = TRUE]
        /\ bucket' = [bucket EXCEPT !.open = TRUE]
    BY <1>9 DEF Stream!CreateUpload, Stream!Request
  <2>2. /\ put'.stage = "send" /\ put'.multi = TRUE /\ put'.taken = put.taken
        /\ put'.part = put.part /\ put'.last = put.last
        /\ bucket'.open = TRUE /\ bucket'.parts = bucket.parts /\ bucket'.stored = bucket.stored
        /\ bucket'.object = bucket.object
    BY <1>1, <2>1 DEF StreamType
  <2>3. StreamType'
    BY <1>1, <2>1 DEF StreamType
  <2>4. PartsFollow'
    BY <1>1, <1>2, <2>1, <2>2 DEF PartsFollow, AllFull, Tiles
  <2>5. StoredIsWhole' /\ FailureIsClean'
    BY <1>1, <2>1, <2>2 DEF StoredIsWhole, PartsFollow, FailureIsClean
  <2>. QED
    BY <2>3, <2>4, <2>5 DEF StreamInv
<1>10. CASE Stream!SendPart
  <2>1. /\ put.stage = "send" /\ UNCHANGED <<source, lost>>
        /\ put' = [put EXCEPT !.stage = Stream!AfterPart]
        /\ bucket' = [bucket EXCEPT !.parts = Append(bucket.parts, put.part)]
    BY <1>10 DEF Stream!SendPart, Stream!Request
  <2>2. /\ put'.stage = IF put.last THEN "complete" ELSE "reading"
        /\ put'.multi = put.multi /\ put'.taken = put.taken
        /\ put'.part = put.part /\ put'.last = put.last
        /\ bucket'.open = bucket.open /\ bucket'.parts = Append(bucket.parts, put.part)
        /\ bucket'.stored = bucket.stored /\ bucket'.object = bucket.object
    BY <1>1, <2>1 DEF StreamType, Stream!AfterPart
  <2>3. /\ ~bucket.stored /\ put.multi
        /\ AllFull(bucket.parts) /\ Tiles(bucket.parts, put.part.from)
        /\ put.part.from + put.part.size = put.taken /\ put.part.size <= PartSize
        /\ put.part.size > 0 /\ (~put.last => put.part.size = PartSize)
        /\ put.last => source.ended /\ put.taken = source.brought
        /\ put.taken <= source.brought
    BY <1>1, <2>1 DEF PartsFollow
  <2>4. /\ bucket'.parts \in Seq(PieceRecord) /\ Len(bucket'.parts) = Len(bucket.parts) + 1
        /\ Tiles(bucket'.parts, put.taken)
        /\ put.part.size = PartSize => AllFull(bucket'.parts)
        /\ FullButTheLast(bucket'.parts)
    BY <1>2, <2>2, <2>3, OneMorePiece
  <2>5. Len(bucket'.parts) > 0
    BY <1>2, <2>4
  <2>6. StreamType'
    <3>1. put'.stage \in {"complete", "reading"}
      BY <2>2
    <3>. QED
      BY <1>1, <2>1, <2>4, <3>1 DEF StreamType
  <2>7. PartsFollow'
    BY <1>2, <2>1, <2>2, <2>3, <2>4, <2>5 DEF PartsFollow, WholeStream
  <2>8. StoredIsWhole' /\ FailureIsClean'
    BY <1>1, <2>1, <2>2, <2>3, <2>4 DEF StoredIsWhole, FailureIsClean
  <2>. QED
    BY <2>6, <2>7, <2>8 DEF StreamInv
<1>11. CASE Stream!Abort
  <2>1. /\ put.stage = "abort" /\ UNCHANGED <<source, lost>>
        /\ put' = [put EXCEPT !.stage = "failed"]
        /\ bucket' = [bucket EXCEPT !.open = FALSE, !.parts = <<>>]
    BY <1>11 DEF Stream!Abort, Stream!Request
  <2>2. bucket' = [parts |-> <<>>, open |-> FALSE, object |-> bucket.object, stored |-> bucket.stored]
    BY <1>1, <2>1 DEF StreamType
  <2>3. put'.stage = "failed" /\ put'.taken = put.taken
        /\ put' = [stage |-> "failed", taken |-> put.taken, part |-> put.part, last |-> put.last,
                   multi |-> put.multi]
    BY <1>1, <2>1 DEF StreamType
  <2>4. <<>> \in Seq(PieceRecord) /\ FullButTheLast(<<>>)
    BY DEF FullButTheLast
  <2>5. StreamType'
    <3>1. put' \in [stage : {"reading", "whole", "create", "send", "complete", "abort", "ok", "failed"},
                    taken : Nat, part : PieceRecord, last : BOOLEAN, multi : BOOLEAN]
      BY <1>2, <2>3
    <3>2. bucket' \in [parts : Seq(PieceRecord), open : BOOLEAN, object : Seq(PieceRecord),
                       stored : BOOLEAN]
      BY <1>2, <2>2, <2>4
    <3>. QED
      BY <1>1, <2>1, <3>1, <3>2 DEF StreamType
  <2>6. PartsFollow'
    BY <1>1, <2>1, <2>3 DEF PartsFollow
  <2>7. StoredIsWhole' /\ FailureIsClean'
    BY <1>1, <2>1, <2>2, <2>3, <2>4 DEF StoredIsWhole, WholeStream, FailureIsClean
  <2>. QED
    BY <2>5, <2>6, <2>7 DEF StreamInv
<1>12. CASE Stream!RequestFails
  <2>. DEFINE stage == Stream!AfterFailure(put.stage)
  <2>1. /\ UNCHANGED <<source, bucket>> /\ put' = [put EXCEPT !.stage = stage]
        /\ put.stage \in {"whole", "create", "send", "complete", "abort"}
        /\ lost' = IF put.stage = "abort" THEN lost \cup {"abort"} ELSE lost
    BY <1>12 DEF Stream!RequestFails
  <2>2. stage = IF put.stage \in {"send", "complete"} THEN "abort" ELSE "failed"
    BY DEF Stream!AfterFailure
  <2>. HIDE DEF stage
  <2>3. put'.stage = stage
    BY <1>1, <2>1 DEF StreamType
  <2>4. FailureIsClean'
    BY <1>1, <2>1, <2>2, <2>3 DEF FailureIsClean
  <2>. QED
    BY <2>1, <2>2, <2>4, CallMoves
<1>13. CASE Stream!Dies
  <2>1. /\ UNCHANGED <<source, bucket>> /\ put' = [put EXCEPT !.stage = "failed"]
        /\ lost' = lost \cup {"process"}
    BY <1>13 DEF Stream!Dies
  <2>. QED
    BY <2>1, CallMoves DEF FailureIsClean
<1>14. CASE Stream!AnswerLost
  <2>. DEFINE stage == Stream!AfterFailure(put.stage)
  <2>1. /\ source' = source /\ put' = [put EXCEPT !.stage = stage]
        /\ put.stage \in {"whole", "create", "complete"} /\ lost' = lost \cup {put.stage}
        /\ put.stage = "whole" => bucket' = Stream!Stored(<<put.part>>)
        /\ put.stage = "complete" => bucket' = Stream!Stored(bucket.parts)
        /\ put.stage = "create" => bucket' = [bucket EXCEPT !.open = TRUE]
    BY <1>14 DEF Stream!AnswerLost
  <2>2. stage = IF put.stage = "complete" THEN "abort" ELSE "failed"
    BY <2>1 DEF Stream!AfterFailure
  <2>. HIDE DEF stage
  <2>3. lost' # {}
    BY <2>1
  <2>4. CASE put.stage = "whole"
    BY <1>6, <2>1, <2>2, <2>3, <2>4, ObjectComes
  <2>5. CASE put.stage = "complete"
    BY <1>1, <1>2, <2>1, <2>2, <2>3, <2>5, ObjectComes DEF PartsFollow
  <2>6. CASE put.stage = "create"
    <3>1. /\ put'.stage = "failed" /\ put'.taken = put.taken
          /\ bucket'.parts = bucket.parts /\ bucket'.stored = bucket.stored
          /\ bucket'.object = bucket.object
          /\ StreamType'
      BY <1>1, <2>1, <2>2, <2>6 DEF StreamType
    <3>2. PartsFollow'
      BY <1>1, <2>1, <3>1 DEF PartsFollow
    <3>3. StoredIsWhole' /\ FailureIsClean'
      BY <1>1, <2>1, <2>3, <3>1 DEF StoredIsWhole, WholeStream, FailureIsClean
    <3>. QED
      BY <3>1, <3>2, <3>3 DEF StreamInv
  <2>. QED
    BY <2>1, <2>4, <2>5, <2>6
<1>. QED
  BY <1>3, <1>4, <1>5, <1>7, <1>8, <1>9, <1>10, <1>11, <1>12, <1>13, <1>14
     DEF Stream!S3UploadNext

LEMMA StreamStands ==
  ASSUME StreamInv, UNCHANGED <<source, put, bucket, lost>>
  PROVE  StreamInv'
BY DEF StreamInv, StreamType, PartsFollow, AllFull, Tiles, StoredIsWhole, WholeStream, FullButTheLast,
   FailureIsClean

LEMMA StreamIsWhole ==
  ASSUME StreamInv
  PROVE  Stream!ObjectIsTheStream /\ Stream!PartsAreFull /\ Stream!FailureLeavesNothing
<1>1. /\ source.brought \in 0..Cap
      /\ bucket.parts \in Seq(PieceRecord) /\ bucket.object \in Seq(PieceRecord)
      /\ StoredIsWhole /\ FailureIsClean
  BY StreamFields DEF StreamInv
<1>2. /\ DOMAIN bucket.object = 1..Len(bucket.object) /\ Len(bucket.object) \in Nat
      /\ DOMAIN bucket.parts = 1..Len(bucket.parts)
  BY <1>1
<1>3. Stream!ObjectIsTheStream
  <2>. SUFFICES ASSUME bucket.stored PROVE Stream!ObjectIsTheStream
    BY DEF Stream!ObjectIsTheStream
  <2>1. /\ Len(bucket.object) # 0 /\ source.ended /\ source.brought <= Cap
        /\ Tiles(bucket.object, source.brought)
    BY <1>1, <1>2, StreamFits DEF StoredIsWhole, WholeStream
  <2>. QED
    BY <1>2, <2>1 DEF Tiles, Stream!ObjectIsTheStream
<1>4. Stream!PartsAreFull
  <2>1. bucket.stored => FullButTheLast(bucket.object)
    BY <1>1 DEF StoredIsWhole, WholeStream
  <2>2. ~bucket.stored => FullButTheLast(bucket.parts)
    BY <1>1 DEF StoredIsWhole
  <2>3. CASE bucket.stored
    BY <1>2, <2>1, <2>3 DEF FullButTheLast, Stream!PartsAreFull
  <2>4. CASE ~bucket.stored
    BY <1>2, <2>2, <2>4 DEF FullButTheLast, Stream!PartsAreFull
  <2>. QED
    BY <2>3, <2>4
<1>5. Stream!FailureLeavesNothing
  BY <1>1 DEF FailureIsClean, Stream!FailureLeavesNothing
<1>. QED
  BY <1>3, <1>4, <1>5

-----------------------------------------------------------------------------
(* Objects in a directory. *)

Writing == {"create", "write", "rename"}
AtWork  == Writing \cup {"rm"}
Listed  == {"walk", "listed"}

IsFsCall(l) ==
  \/ l = [stage |-> "idle"]
  \/ l \in [stage : AtWork, key : Keys, file : 1..puts]
  \/ l \in [stage : {"read"}, file : 1..puts, got : Nat]
  \/ l \in [stage : Listed, todo : SUBSET Keys, found : SUBSET Keys, after : {-1} \cup Nat,
            seen : [Keys -> Nat]]

FilesType ==
  /\ puts \in 0..MaxPuts
  /\ files \in [1..MaxPuts -> Nat]
  /\ path \in [Keys -> (1..puts) \cup {None}]
  /\ tmp \subseteq 1..puts
  /\ died \in Nat
  /\ token = None
  /\ fsCall = [c \in Calls |-> fsCall[c]]
  /\ \A c \in Calls : IsFsCall(fsCall[c])

(* A file is begun, grows, is whole and only then comes to a path; and it has
   one writer.                                                              *)
FilesGrow ==
  /\ \A v \in 1..MaxPuts : v > puts => files[v] = 0
  /\ \A k \in Keys : path[k] # None => files[path[k]] = Bytes
  /\ \A c \in Calls :
       /\ fsCall[c].stage = "create" => files[fsCall[c].file] = 0
       /\ fsCall[c].stage = "write"  => files[fsCall[c].file] < Bytes
       /\ fsCall[c].stage \in {"rename", "read"} => files[fsCall[c].file] = Bytes
  /\ \A c, d \in Calls :
       c # d /\ fsCall[c].stage \in Writing /\ fsCall[d].stage \in Writing
       => fsCall[c].file # fsCall[d].file

WorkedOn == {fsCall[c].file : c \in {d \in Calls : fsCall[d].stage \in AtWork}}

LitterCounted ==
  /\ IsFiniteSet(tmp \ WorkedOn)
  /\ Cardinality(tmp \ WorkedOn) <= died

(* What a listing has shown and found, and what it may still come to. *)
ListingOnItsWay(l) ==
  /\ l.stage \in Listed => \A k \in Keys : l.seen[k] <= 1 /\ (l.seen[k] = 1 => k \in appeared)
  /\ l.stage = "walk" =>
       /\ \E n \in Nat : \A k \in l.found : k <= n
       /\ IsFiniteSet(l.found)
       /\ l.found \subseteq appeared /\ stayed \ l.todo \subseteq l.found
       /\ \A k \in Keys : /\ l.seen[k] = 1 => k <= l.after
                          /\ k \in stayed /\ k <= l.after => l.seen[k] = 1
  /\ l.stage = "listed" => \A k \in stayed : l.seen[k] = 1

ListingsHold ==
  /\ stayed \subseteq {k \in Keys : path[k] # None}
  /\ {k \in Keys : path[k] # None} \subseteq appeared
  /\ appeared \subseteq Keys
  /\ \A c \in Calls : ListingOnItsWay(fsCall[c])
  /\ \A c, d \in Calls : fsCall[c].stage \in Listed /\ fsCall[d].stage \in Listed => c = d

FilesInv == FilesType /\ FilesGrow /\ LitterCounted /\ ListingsHold

LEMMA FilesFit == Keys \subseteq Nat /\ None \notin Nat /\ Bytes \in Nat \ {0} /\ Limit \in Nat \ {0}
                  /\ MaxPuts \in Nat
BY ConstantsFit DEF Files!FsStorageConstants

LEMMA FilesBegin == Init /\ part = "fs" => FilesInv
<1>. SUFFICES ASSUME Init, part = "fs" PROVE FilesInv
  OBVIOUS
<1>. USE FilesFit
<1>0. Files!FsInit
  BY DEF Init
<1>1. /\ files = [v \in 1..MaxPuts |-> 0] /\ path = [k \in Keys |-> None] /\ tmp = {}
      /\ fsCall = [c \in Calls |-> [stage |-> "idle"]] /\ token = None
      /\ puts = 0 /\ died = 0 /\ stayed = {} /\ appeared = {}
  BY <1>0 DEF Files!FsInit, Files!Unused
<1>2. \A c \in Calls : fsCall[c] = [stage |-> "idle"] /\ fsCall[c].stage = "idle"
  BY <1>1
<1>3. FilesType
  BY <1>1, <1>2 DEF FilesType, IsFsCall
<1>4. FilesGrow
  BY <1>1, <1>2 DEF FilesGrow, Writing
<1>5. LitterCounted
  BY <1>1, FS_EmptySet DEF LitterCounted
<1>6. ListingsHold
  BY <1>1, <1>2 DEF ListingsHold, ListingOnItsWay, Listed
<1>. QED
  BY <1>3, <1>4, <1>5, <1>6 DEF FilesInv

(* One call moves. *)
Moves(c) == fsCall' = [fsCall EXCEPT ![c] = fsCall'[c]]

LEMMA OthersStand ==
  ASSUME FilesType, NEW c \in Calls, Moves(c)
  PROVE  /\ fsCall' = [d \in Calls |-> fsCall'[d]]
         /\ \A d \in Calls : d # c => fsCall'[d] = fsCall[d]
BY DEF FilesType, Moves

(* What kind of call it is follows from where it stands. *)
LEMMA CallFields ==
  ASSUME FilesType, NEW c \in Calls
  PROVE  /\ fsCall[c].stage \in AtWork =>
              /\ fsCall[c] \in [stage : AtWork, key : Keys, file : 1..puts]
              /\ fsCall[c].key \in Keys /\ fsCall[c].file \in 1..puts
         /\ fsCall[c].stage = "read" =>
              /\ fsCall[c] \in [stage : {"read"}, file : 1..puts, got : Nat]
              /\ fsCall[c].file \in 1..puts /\ fsCall[c].got \in Nat
         /\ fsCall[c].stage \in Listed =>
              /\ fsCall[c] \in [stage : Listed, todo : SUBSET Keys, found : SUBSET Keys,
                                after : {-1} \cup Nat, seen : [Keys -> Nat]]
         /\ fsCall[c].stage = "idle" \/ fsCall[c].stage \in AtWork \cup {"read"} \cup Listed
<1>1. IsFsCall(fsCall[c])
  BY DEF FilesType
<1>2. CASE fsCall[c] = [stage |-> "idle"]
  BY <1>2 DEF AtWork, Writing, Listed
<1>3. CASE fsCall[c] \in [stage : AtWork, key : Keys, file : 1..puts]
  BY <1>3 DEF AtWork, Writing, Listed
<1>4. CASE fsCall[c] \in [stage : {"read"}, file : 1..puts, got : Nat]
  BY <1>4 DEF AtWork, Writing, Listed
<1>5. CASE fsCall[c] \in [stage : Listed, todo : SUBSET Keys, found : SUBSET Keys,
                          after : {-1} \cup Nat, seen : [Keys -> Nat]]
  BY <1>5 DEF AtWork, Writing, Listed
<1>. QED
  BY <1>1, <1>2, <1>3, <1>4, <1>5 DEF IsFsCall

LEMMA PutGoesOn ==
  ASSUME FilesType, NEW c \in Calls, fsCall[c].stage \in AtWork,
         NEW stage \in AtWork \cup {"idle"}, Files!Goes(c, stage)
  PROVE  /\ Moves(c)
         /\ stage = "idle" => fsCall'[c] = [stage |-> "idle"]
         /\ stage # "idle" =>
              /\ fsCall'[c] \in [stage : AtWork, key : Keys, file : 1..puts]
              /\ fsCall'[c].key = fsCall[c].key /\ fsCall'[c].file = fsCall[c].file
         /\ fsCall'[c].stage = stage
<1>1. fsCall' = [fsCall EXCEPT ![c] = IF stage = "idle" THEN [stage |-> "idle"]
                                      ELSE [fsCall[c] EXCEPT !.stage = stage]]
  BY DEF Files!Goes, Files!Unused
<1>2. fsCall'[c] = (IF stage = "idle" THEN [stage |-> "idle"]
                    ELSE [fsCall[c] EXCEPT !.stage = stage])
  BY <1>1 DEF FilesType
<1>3. Moves(c)
  BY <1>1, <1>2 DEF Moves
<1>4. /\ fsCall[c] \in [stage : AtWork, key : Keys, file : 1..puts]
      /\ fsCall[c] = [stage |-> fsCall[c].stage, key |-> fsCall[c].key, file |-> fsCall[c].file]
  BY CallFields
<1>5. CASE stage = "idle"
  BY <1>2, <1>3, <1>5
<1>6. CASE stage # "idle"
  <2>1. fsCall'[c] = [stage |-> stage, key |-> fsCall[c].key, file |-> fsCall[c].file]
    BY <1>2, <1>4, <1>6
  <2>. QED
    BY <1>3, <1>4, <1>6, <2>1
<1>. QED
  BY <1>5, <1>6

LEMMA TypeGoesOn ==
  ASSUME FilesType, NEW c \in Calls, Moves(c), IsFsCall(fsCall'[c]), UNCHANGED <<puts, token>>,
         files' \in [1..MaxPuts -> Nat], path' \in [Keys -> (1..puts) \cup {None}],
         tmp' \subseteq 1..puts, died' \in Nat
  PROVE  FilesType'
<1>1. \A d \in Calls : IsFsCall(fsCall'[d])
  BY OthersStand DEF FilesType
<1>2. \A d \in Calls : IsFsCall(fsCall[d])'
  BY <1>1 DEF IsFsCall
<1>. QED
  BY <1>2, OthersStand DEF FilesType

(* A call that goes on with its file, or lets go of it. *)
LEMMA FilesGoOn ==
  ASSUME FilesType, FilesGrow, NEW c \in Calls, Moves(c), UNCHANGED <<puts, files, path>>,
         fsCall'[c].stage = "create" => files[fsCall'[c].file] = 0,
         fsCall'[c].stage = "write" => files[fsCall'[c].file] < Bytes,
         fsCall'[c].stage \in {"rename", "read"} => files[fsCall'[c].file] = Bytes,
         fsCall'[c].stage \in Writing =>
           fsCall[c].stage \in Writing /\ fsCall'[c].file = fsCall[c].file
  PROVE  FilesGrow'
<1>1. \A d \in Calls : d # c => fsCall'[d] = fsCall[d]
  BY OthersStand
<1>2. \A d \in Calls :
         /\ fsCall'[d].stage = "create" => files[fsCall'[d].file] = 0
         /\ fsCall'[d].stage = "write"  => files[fsCall'[d].file] < Bytes
         /\ fsCall'[d].stage \in {"rename", "read"} => files[fsCall'[d].file] = Bytes
  BY <1>1 DEF FilesGrow
<1>3. \A d \in Calls : fsCall'[d].stage \in Writing =>
                         fsCall[d].stage \in Writing /\ fsCall'[d].file = fsCall[d].file
  BY <1>1
<1>. QED
  BY <1>2, <1>3 DEF FilesGrow

LEMMA WorkGoesOn ==
  ASSUME FilesType, NEW c \in Calls, Moves(c)
  PROVE  /\ \A v \in WorkedOn : v \in WorkedOn' \/ (fsCall[c].stage \in AtWork /\ v = fsCall[c].file)
         /\ fsCall'[c].stage \in AtWork => fsCall'[c].file \in WorkedOn'
BY OthersStand DEF WorkedOn

(* No more litter than there was. *)
LEMMA NoMoreLitter ==
  ASSUME LitterCounted, tmp' \ WorkedOn' \subseteq tmp \ WorkedOn, died' = died, died \in Nat
  PROVE  LitterCounted'
<1>1. /\ IsFiniteSet(tmp' \ WorkedOn')
      /\ Cardinality(tmp' \ WorkedOn') <= Cardinality(tmp \ WorkedOn)
  BY FS_Subset DEF LitterCounted
<1>2. Cardinality(tmp' \ WorkedOn') \in Nat /\ Cardinality(tmp \ WorkedOn) \in Nat
  BY <1>1, FS_CardinalityType DEF LitterCounted
<1>. QED
  BY <1>1, <1>2 DEF LitterCounted

(* Who does not list does not disturb who lists. *)
LEMMA ListingsGoOn ==
  ASSUME FilesType, ListingsHold, NEW c \in Calls, Moves(c), fsCall'[c].stage \notin Listed,
         UNCHANGED <<path, stayed, appeared>>
  PROVE  ListingsHold'
<1>1. \A d \in Calls : d # c => fsCall'[d] = fsCall[d]
  BY OthersStand
<1>2. ASSUME NEW d \in Calls PROVE ListingOnItsWay(fsCall[d])'
  <2>1. CASE d = c
    BY <2>1 DEF ListingOnItsWay, Listed
  <2>2. CASE d # c
    <3>1. fsCall'[d] = fsCall[d] /\ ListingOnItsWay(fsCall[d])
      BY <1>1, <2>2 DEF ListingsHold
    <3>. QED
      BY <3>1 DEF ListingOnItsWay
  <2>. QED
    BY <2>1, <2>2
<1>. QED
  BY <1>1, <1>2 DEF ListingsHold

(* A put under way: its file grows, comes to its path or is cleared away. *)
LEMMA PutSteps ==
  ASSUME FilesInv, NEW c \in Calls,
         \/ Files!CreateTmp(c) \/ Files!WriteTmp(c) \/ Files!Rename(c) \/ Files!PutFails(c)
         \/ Files!RemoveTmp(c)
  PROVE  FilesInv'
<1>. USE FilesFit
<1>1. FilesType /\ FilesGrow /\ LitterCounted /\ ListingsHold
  BY DEF FilesInv
<1>. DEFINE f == fsCall[c].file
            k == fsCall[c].key
<1>2. fsCall[c].stage \in AtWork /\ UNCHANGED <<puts, token, died, stayed>>
  BY DEF Files!CreateTmp, Files!WriteTmp, Files!Rename, Files!PutFails, Files!RemoveTmp, Files!At,
     AtWork, Writing
<1>3. k \in Keys /\ f \in 1..puts /\ puts \in 0..MaxPuts /\ files[f] \in Nat /\ died \in Nat
      /\ files \in [1..MaxPuts -> Nat] /\ path \in [Keys -> (1..puts) \cup {None}] /\ tmp \subseteq 1..puts
  BY <1>1, <1>2, CallFields DEF FilesType
<1>4. PICK stage \in {"write", "rename", "rm", "idle"} : Files!Goes(c, stage)
  <2>1. CASE Files!CreateTmp(c)
    BY <2>1 DEF Files!CreateTmp
  <2>2. CASE Files!WriteTmp(c)
    BY <2>2 DEF Files!WriteTmp
  <2>3. CASE Files!Rename(c)
    BY <2>3 DEF Files!Rename
  <2>4. CASE Files!RemoveTmp(c)
    BY <2>4 DEF Files!RemoveTmp
  <2>5. CASE Files!PutFails(c)
    BY <2>5 DEF Files!PutFails, Files!AfterFailure
  <2>. QED
    BY <2>1, <2>2, <2>3, <2>4, <2>5
<1>5. /\ Moves(c) /\ fsCall'[c].stage = stage
      /\ stage = "idle" => fsCall'[c] = [stage |-> "idle"]
      /\ stage # "idle" => /\ fsCall'[c] \in [stage : AtWork, key : Keys, file : 1..puts]
                           /\ fsCall'[c].key = k /\ fsCall'[c].file = f
  BY <1>1, <1>2, <1>4, PutGoesOn DEF AtWork, Writing
<1>6. IsFsCall(fsCall'[c]) /\ stage \notin Listed /\ stage # "create" /\ stage # "read"
  BY <1>4, <1>5 DEF IsFsCall, AtWork, Writing, Listed
<1>. HIDE DEF f, k
<1>7. /\ \A v \in WorkedOn : v \in WorkedOn' \/ v = f
      /\ stage # "idle" => f \in WorkedOn'
  BY <1>1, <1>4, <1>5, WorkGoesOn DEF f, AtWork, Writing
<1>8. /\ fsCall[c].stage = "create" => files[f] = 0
      /\ fsCall[c].stage = "write" => files[f] < Bytes
      /\ fsCall[c].stage = "rename" => files[f] = Bytes
  BY <1>1 DEF FilesGrow, f
<1>9. CASE Files!CreateTmp(c)
  <2>1. /\ fsCall[c].stage = "create" /\ tmp' = tmp \cup {f} /\ UNCHANGED <<files, path, appeared>>
    BY <1>9 DEF Files!CreateTmp, Files!At, f
  <2>0. stage = "write"
    <3>1. Files!Goes(c, "write")
      BY <1>9 DEF Files!CreateTmp
    <3>. QED
      BY <1>1, <1>2, <1>5, <3>1, PutGoesOn DEF AtWork, Writing
  <2>2. FilesType'
    <3>1. /\ files' \in [1..MaxPuts -> Nat] /\ path' \in [Keys -> (1..puts) \cup {None}]
          /\ tmp' \subseteq 1..puts /\ died' \in Nat
      BY <1>2, <1>3, <2>1
    <3>. QED
      BY <1>1, <1>2, <1>5, <1>6, <3>1, TypeGoesOn
  <2>3. FilesGrow'
    BY <1>1, <1>2, <1>3, <1>5, <1>8, <2>1, <2>0, FilesGoOn DEF Writing, f
  <2>4. LitterCounted'
    BY <1>1, <1>2, <1>3, <1>7, <2>1, <2>0, NoMoreLitter
  <2>5. ListingsHold'
    BY <1>1, <1>2, <1>5, <1>6, <2>1, <2>0, ListingsGoOn
  <2>. QED
    BY <2>2, <2>3, <2>4, <2>5 DEF FilesInv
<1>10. CASE Files!WriteTmp(c)
  <2>1. /\ fsCall[c].stage = "write" /\ files' = [files EXCEPT ![f] = files[f] + 1]
        /\ UNCHANGED <<tmp, path, appeared>>
    BY <1>10 DEF Files!WriteTmp, Files!At, f
  <2>0. stage = IF files[f] + 1 = Bytes THEN "rename" ELSE "write"
    <3>1. Files!Goes(c, IF files[f] + 1 = Bytes THEN "rename" ELSE "write")
      BY <1>10 DEF Files!WriteTmp, f
    <3>. QED
      BY <1>1, <1>2, <1>5, <3>1, PutGoesOn DEF AtWork, Writing
  <2>2. FilesType'
    <3>1. /\ files' \in [1..MaxPuts -> Nat] /\ path' \in [Keys -> (1..puts) \cup {None}]
          /\ tmp' \subseteq 1..puts /\ died' \in Nat
      BY <1>2, <1>3, <2>1
    <3>. QED
      BY <1>1, <1>2, <1>5, <1>6, <3>1, TypeGoesOn
  <2>3. FilesGrow'
    <3>1. /\ files'[f] = files[f] + 1 /\ (\A v \in 1..MaxPuts : v # f => files'[v] = files[v])
          /\ files[f] < Bytes
      BY <1>3, <1>8, <2>1, <2>0
    <3>2. \A d \in Calls : d # c => /\ fsCall'[d] = fsCall[d]
                                    /\ fsCall[d].stage \in Writing => fsCall[d].file # f
      BY <1>1, <2>1, <2>0, <1>5, OthersStand DEF FilesGrow, Writing, f
    <3>3. \A d \in Calls : fsCall[d].stage \in AtWork \cup {"read"} => fsCall[d].file \in 1..MaxPuts
      BY <1>1, <1>3, CallFields
    <3>4. \A v \in 1..MaxPuts : v > puts => files'[v] = 0
      BY <1>1, <1>3, <3>1 DEF FilesGrow
    <3>5. \A j \in Keys : path[j] # None => files'[path[j]] = Bytes
      BY <1>1, <1>3, <3>1 DEF FilesGrow
    <3>6. ASSUME NEW d \in Calls
          PROVE  /\ fsCall'[d].stage = "create" => files'[fsCall'[d].file] = 0
                 /\ fsCall'[d].stage = "write"  => files'[fsCall'[d].file] < Bytes
                 /\ fsCall'[d].stage \in {"rename", "read"} => files'[fsCall'[d].file] = Bytes
      <4>1. CASE d = c
        <5>1. files[f] + 1 <= Bytes /\ files'[f] = files[f] + 1
          BY <1>3, <3>1
        <5>2. fsCall'[c].stage = stage /\ fsCall'[c].file = f
          BY <1>5, <2>0
        <5>3. CASE files[f] + 1 = Bytes
          <6>1. stage = "rename"
            BY <2>0, <5>3
          <6>. QED
            BY <4>1, <5>1, <5>2, <5>3, <6>1
        <5>4. CASE files[f] + 1 # Bytes
          <6>1. stage = "write" /\ files[f] + 1 < Bytes
            BY <1>3, <2>0, <5>1, <5>4
          <6>. QED
            BY <4>1, <5>1, <5>2, <6>1
        <5>. QED
          BY <5>3, <5>4
      <4>2. CASE d # c
        <5>1. fsCall'[d] = fsCall[d]
          BY <3>2, <4>2
        <5>2. fsCall[d].stage \in Writing => fsCall[d].file # f /\ fsCall[d].file \in 1..MaxPuts
          BY <3>2, <3>3, <4>2 DEF AtWork
        <5>3. fsCall[d].stage = "read" => fsCall[d].file # f /\ fsCall[d].file \in 1..MaxPuts
          BY <1>1, <3>1, <3>3 DEF FilesGrow
        <5>4. fsCall[d].stage \in {"create", "write", "rename", "read"} =>
                files'[fsCall[d].file] = files[fsCall[d].file]
          BY <3>1, <5>2, <5>3 DEF Writing
        <5>. QED
          BY <1>1, <5>1, <5>4 DEF FilesGrow
      <4>. QED
        BY <4>1, <4>2
    <3>7. \A d \in Calls : fsCall'[d].stage \in Writing =>
                             fsCall[d].stage \in Writing /\ fsCall'[d].file = fsCall[d].file
      BY <1>5, <2>1, <2>0, <3>2 DEF Writing, f
    <3>. QED
      BY <1>1, <1>2, <2>1, <2>0, <3>4, <3>5, <3>6, <3>7 DEF FilesGrow
  <2>4. LitterCounted'
    BY <1>1, <1>2, <1>3, <1>7, <2>1, <2>0, NoMoreLitter
  <2>5. ListingsHold'
    BY <1>1, <1>2, <1>5, <1>6, <2>1, <2>0, ListingsGoOn
  <2>. QED
    BY <2>2, <2>3, <2>4, <2>5 DEF FilesInv
<1>11. CASE Files!Rename(c)
  <2>1. /\ fsCall[c].stage = "rename" /\ path' = [path EXCEPT ![k] = f] /\ tmp' = tmp \ {f}
        /\ appeared' = appeared \cup {k} /\ UNCHANGED files
    BY <1>11 DEF Files!Rename, Files!At, f, k
  <2>0. stage = "idle"
    <3>1. Files!Goes(c, "idle")
      BY <1>11 DEF Files!Rename
    <3>. QED
      BY <1>1, <1>2, <1>5, <3>1, PutGoesOn DEF AtWork, Writing
  <2>2. path'[k] = f /\ (\A j \in Keys : j # k => path'[j] = path[j])
        /\ path' \in [Keys -> (1..puts) \cup {None}]
    BY <1>3, <2>1, <2>0
  <2>3. \A d \in Calls : d # c => fsCall'[d] = fsCall[d]
    BY <1>1, <1>5, OthersStand
  <2>4. FilesType'
    BY <1>1, <1>2, <1>3, <1>5, <1>6, <2>1, <2>0, <2>2, TypeGoesOn
  <2>5. FilesGrow'
    <3>1. \A j \in Keys : path'[j] # None => files[path'[j]] = Bytes
      BY <1>1, <1>8, <2>1, <2>0, <2>2 DEF FilesGrow
    <3>2. fsCall'[c].stage = "idle"
      BY <1>5, <2>1, <2>0
    <3>. QED
      BY <1>1, <1>2, <2>1, <2>0, <2>3, <3>1, <3>2 DEF FilesGrow, Writing
  <2>6. LitterCounted'
    BY <1>1, <1>2, <1>3, <1>7, <2>1, <2>0, NoMoreLitter
  <2>7. ListingsHold'
    <3>0. path'[k] # None
      BY <1>3, <2>2
    <3>1. {j \in Keys : path'[j] # None} = {j \in Keys : path[j] # None} \cup {k}
      BY <1>3, <2>2, <3>0
    <3>2. ASSUME NEW d \in Calls PROVE ListingOnItsWay(fsCall[d])'
      <4>1. CASE d = c
        BY <1>5, <2>1, <2>0, <4>1 DEF ListingOnItsWay, Listed
      <4>2. CASE d # c
        <5>1. fsCall'[d] = fsCall[d] /\ ListingOnItsWay(fsCall[d])
          BY <1>1, <2>3, <4>2 DEF ListingsHold
        <5>. QED
          BY <1>2, <2>1, <2>0, <5>1 DEF ListingOnItsWay
      <4>. QED
        BY <4>1, <4>2
    <3>3. fsCall'[c].stage \notin Listed
      BY <1>5, <1>6
    <3>. QED
      BY <1>1, <1>2, <1>3, <2>1, <2>0, <2>3, <3>1, <3>2, <3>3 DEF ListingsHold
  <2>. QED
    BY <2>4, <2>5, <2>6, <2>7 DEF FilesInv
<1>12. CASE Files!PutFails(c) \/ Files!RemoveTmp(c)
  <2>1. UNCHANGED <<files, path, appeared>>
    BY <1>12 DEF Files!PutFails, Files!RemoveTmp
  <2>0. /\ stage \in {"rm", "idle"}
        /\ stage = "rm" => tmp' = tmp
        /\ stage = "idle" => tmp' = tmp \ {f}
    <3>1. CASE Files!PutFails(c)
      <4>1. Files!Goes(c, "rm") /\ tmp' = tmp
        BY <3>1 DEF Files!PutFails, Files!AfterFailure
      <4>. QED
        BY <1>1, <1>2, <1>5, <4>1, PutGoesOn DEF AtWork, Writing
    <3>2. CASE Files!RemoveTmp(c)
      <4>1. Files!Goes(c, "idle") /\ tmp' = tmp \ {f}
        BY <3>2 DEF Files!RemoveTmp, f
      <4>. QED
        BY <1>1, <1>2, <1>5, <4>1, PutGoesOn DEF AtWork, Writing
    <3>. QED
      BY <1>12, <3>1, <3>2
  <2>2. FilesType'
    BY <1>1, <1>2, <1>3, <1>5, <1>6, <2>1, <2>0, TypeGoesOn
  <2>3. FilesGrow'
    BY <1>1, <1>2, <1>3, <1>5, <2>1, <2>0, FilesGoOn DEF Writing
  <2>4. LitterCounted'
    BY <1>1, <1>2, <1>3, <1>7, <2>1, <2>0, NoMoreLitter
  <2>5. ListingsHold'
    BY <1>1, <1>2, <1>5, <1>6, <2>1, <2>0, ListingsGoOn
  <2>. QED
    BY <2>2, <2>3, <2>4, <2>5 DEF FilesInv
<1>. QED
  BY <1>9, <1>10, <1>11, <1>12

(* A put begins with a file of its own. *)
LEMMA PutBegins ==
  ASSUME FilesInv, NEW c \in Calls, NEW k \in Keys, Files!BeginPut(c, k)
  PROVE  FilesInv'
<1>. USE FilesFit
<1>1. FilesType /\ FilesGrow /\ LitterCounted /\ ListingsHold
  BY DEF FilesInv
<1>. DEFINE f == puts + 1
<1>2. /\ fsCall[c].stage = "idle" /\ puts < MaxPuts /\ puts' = f
      /\ fsCall' = [fsCall EXCEPT ![c] = [stage |-> "create", key |-> k, file |-> f]]
      /\ UNCHANGED <<files, path, tmp, token, died, stayed, appeared>>
  BY DEF Files!BeginPut, Files!StartsPut, Files!At
<1>3. /\ puts \in 0..MaxPuts /\ f \in 1..MaxPuts /\ f > puts /\ died \in Nat /\ tmp \subseteq 1..puts
      /\ files \in [1..MaxPuts -> Nat] /\ path \in [Keys -> (1..puts) \cup {None}]
      /\ 1..puts \subseteq 1..f
  BY <1>1, <1>2 DEF FilesType
<1>4. fsCall'[c] = [stage |-> "create", key |-> k, file |-> f] /\ Moves(c)
  BY <1>1, <1>2 DEF FilesType, Moves
<1>. HIDE DEF f
<1>5. /\ \A d \in Calls : d # c => fsCall'[d] = fsCall[d]
      /\ fsCall' = [d \in Calls |-> fsCall'[d]]
  BY <1>1, <1>4, OthersStand
<1>6. fsCall'[c].stage = "create" /\ fsCall'[c].file = f
  BY <1>4
<1>7. FilesType'
  <2>1. ASSUME NEW d \in Calls PROVE IsFsCall(fsCall[d])'
    <3>1. CASE d = c
      <4>1. fsCall'[d] \in [stage : AtWork, key : Keys, file : 1..puts']
        BY <1>2, <1>3, <1>4, <3>1 DEF AtWork, Writing
      <4>. QED
        BY <4>1 DEF IsFsCall
    <3>2. CASE d # c
      <4>1. fsCall'[d] = fsCall[d] /\ IsFsCall(fsCall[d])
        BY <1>1, <1>5, <3>2 DEF FilesType
      <4>. QED
        BY <1>2, <1>3, <4>1 DEF IsFsCall
    <3>. QED
      BY <3>1, <3>2
  <2>2. puts' \in 0..MaxPuts /\ path' \in [Keys -> (1..puts') \cup {None}] /\ tmp' \subseteq 1..puts'
    BY <1>2, <1>3
  <2>. QED
    BY <1>1, <1>2, <1>3, <1>5, <2>1, <2>2 DEF FilesType
<1>8. FilesGrow'
  <2>1. \A d \in Calls : fsCall[d].stage \in AtWork => fsCall[d].file \in 1..puts
    BY <1>1, CallFields
  <2>2. \A d \in Calls : d # c /\ fsCall[d].stage \in Writing => fsCall[d].file # f
    BY <1>3, <2>1 DEF AtWork
  <2>3. files[f] = 0
    BY <1>1, <1>3 DEF FilesGrow
  <2>4. \A v \in 1..MaxPuts : v > f => files[v] = 0
    BY <1>1, <1>3 DEF FilesGrow
  <2>5. ASSUME NEW d \in Calls
        PROVE  /\ fsCall'[d].stage = "create" => files[fsCall'[d].file] = 0
               /\ fsCall'[d].stage = "write"  => files[fsCall'[d].file] < Bytes
               /\ fsCall'[d].stage \in {"rename", "read"} => files[fsCall'[d].file] = Bytes
    BY <1>1, <1>5, <1>6, <2>3 DEF FilesGrow
  <2>6. ASSUME NEW d \in Calls, NEW e \in Calls, d # e,
               fsCall'[d].stage \in Writing, fsCall'[e].stage \in Writing
        PROVE  fsCall'[d].file # fsCall'[e].file
    BY <1>1, <1>5, <1>6, <2>2, <2>6 DEF FilesGrow
  <2>. QED
    BY <1>1, <1>2, <2>4, <2>5, <2>6 DEF FilesGrow
<1>9. LitterCounted'
  <2>1. \A v \in WorkedOn : v \in WorkedOn'
    BY <1>1, <1>2, <1>4, WorkGoesOn DEF AtWork, Writing
  <2>. QED
    BY <1>1, <1>2, <1>3, <2>1, NoMoreLitter
<1>10. ListingsHold'
  BY <1>1, <1>2, <1>4, <1>6, ListingsGoOn DEF Listed
<1>. QED
  BY <1>7, <1>8, <1>9, <1>10 DEF FilesInv

(* A death leaves one more file at most. *)
LEMMA DeathStep ==
  ASSUME FilesInv, NEW c \in Calls, Files!Dies(c)
  PROVE  FilesInv'
<1>. USE FilesFit
<1>1. FilesType /\ FilesGrow /\ LitterCounted /\ ListingsHold
  BY DEF FilesInv
<1>2. /\ died' = died + 1 /\ fsCall' = [fsCall EXCEPT ![c] = [stage |-> "idle"]]
      /\ UNCHANGED <<puts, files, path, tmp, token, stayed, appeared>>
  BY DEF Files!Dies, Files!Goes, Files!Unused
<1>3. /\ died \in Nat /\ files \in [1..MaxPuts -> Nat] /\ path \in [Keys -> (1..puts) \cup {None}]
      /\ tmp \subseteq 1..puts
  BY <1>1 DEF FilesType
<1>4. fsCall'[c] = [stage |-> "idle"] /\ fsCall'[c].stage = "idle" /\ Moves(c)
  BY <1>1, <1>2 DEF FilesType, Moves
<1>5. FilesType'
  <2>1. IsFsCall(fsCall'[c])
    BY <1>4 DEF IsFsCall
  <2>2. died' \in Nat
    BY <1>2, <1>3
  <2>. QED
    BY <1>1, <1>2, <1>3, <1>4, <2>1, <2>2, TypeGoesOn
<1>6. FilesGrow'
  BY <1>1, <1>2, <1>4, FilesGoOn DEF Writing
<1>7. LitterCounted'
  <2>. DEFINE L == tmp \ WorkedOn
              f == fsCall[c].file
  <2>1. \A v \in WorkedOn : v \in WorkedOn' \/ v = f
    BY <1>1, <1>4, WorkGoesOn
  <2>2. tmp' \ WorkedOn' \subseteq L \cup {f}
    BY <1>2, <2>1
  <2>3. IsFiniteSet(L) /\ Cardinality(L) <= died /\ Cardinality(L) \in Nat
    BY <1>1, FS_CardinalityType DEF LitterCounted
  <2>4. IsFiniteSet(L \cup {f}) /\ Cardinality(L \cup {f}) <= Cardinality(L) + 1
    <3>. HIDE DEF L, f
    <3>1. /\ IsFiniteSet(L \cup {f})
          /\ Cardinality(L \cup {f}) = IF f \in L THEN Cardinality(L) ELSE Cardinality(L) + 1
      BY <2>3, FS_AddElement
    <3>. QED
      BY <2>3, <3>1
  <2>5. IsFiniteSet(tmp' \ WorkedOn') /\ Cardinality(tmp' \ WorkedOn') <= Cardinality(L \cup {f})
    BY <2>2, <2>4, FS_Subset
  <2>6. Cardinality(L \cup {f}) \in Nat /\ Cardinality(tmp' \ WorkedOn') \in Nat
    BY <2>4, <2>5, FS_CardinalityType
  <2>. HIDE DEF L, f
  <2>7. Cardinality(tmp' \ WorkedOn') <= died'
    BY <1>2, <1>3, <2>3, <2>4, <2>5, <2>6
  <2>. QED
    BY <2>5, <2>7 DEF LitterCounted
<1>8. ListingsHold'
  BY <1>1, <1>2, <1>4, ListingsGoOn DEF Listed
<1>. QED
  BY <1>5, <1>6, <1>7, <1>8 DEF FilesInv

(* A call that writes nothing leaves the files as they are. *)
LEMMA NobodyWrites ==
  ASSUME FilesType, FilesGrow, LitterCounted, NEW c \in Calls, Moves(c), IsFsCall(fsCall'[c]),
         fsCall[c].stage \notin AtWork, fsCall'[c].stage \notin AtWork,
         fsCall'[c].stage = "read" => files[fsCall'[c].file] = Bytes,
         UNCHANGED <<puts, files, path, tmp, died, token>>
  PROVE  FilesType' /\ FilesGrow' /\ LitterCounted'
<1>1. FilesType'
  BY TypeGoesOn DEF FilesType
<1>2. FilesGrow'
  BY FilesGoOn DEF AtWork, Writing
<1>3. LitterCounted'
  <2>1. \A v \in WorkedOn : v \in WorkedOn'
    BY WorkGoesOn
  <2>2. died \in Nat
    BY DEF FilesType
  <2>. QED
    BY <2>1, <2>2, NoMoreLitter
<1>. QED
  BY <1>1, <1>2, <1>3

LEMMA ReadSteps ==
  ASSUME FilesInv, NEW c \in Calls, Files!ReadOn(c) \/ \E k \in Keys : Files!OpenStream(c, k)
  PROVE  FilesInv'
<1>. USE FilesFit
<1>1. FilesType /\ FilesGrow /\ LitterCounted /\ ListingsHold
  BY DEF FilesInv
<1>2. /\ UNCHANGED <<puts, files, path, tmp, died, token, stayed, appeared>>
      /\ fsCall[c].stage \in {"idle", "read"}
  BY DEF Files!ReadOn, Files!OpenStream, Files!At
<1>3. /\ Moves(c) /\ IsFsCall(fsCall'[c]) /\ fsCall'[c].stage \in {"idle", "read"}
      /\ fsCall'[c].stage = "read" => files[fsCall'[c].file] = Bytes
  <2>1. CASE Files!ReadOn(c)
    <3>. DEFINE l == fsCall[c]
    <3>1. /\ l.stage = "read"
          /\ fsCall' = IF l.got < files[l.file] THEN [fsCall EXCEPT ![c] = [l EXCEPT !.got = l.got + 1]]
                       ELSE [fsCall EXCEPT ![c] = [stage |-> "idle"]]
      BY <2>1 DEF Files!ReadOn, Files!At, Files!Unused
    <3>2. l \in [stage : {"read"}, file : 1..puts, got : Nat] /\ files[l.file] = Bytes
      BY <1>1, <3>1, CallFields DEF FilesGrow
    <3>3. CASE l.got < files[l.file]
      <4>1. fsCall'[c] = [l EXCEPT !.got = l.got + 1]
        BY <1>1, <3>1, <3>3 DEF FilesType
      <4>2. Moves(c)
        BY <3>1, <3>3, <4>1 DEF Moves
      <4>. HIDE DEF l
      <4>3. /\ fsCall'[c] \in [stage : {"read"}, file : 1..puts, got : Nat]
            /\ fsCall'[c].file = l.file
        BY <3>2, <4>1
      <4>4. fsCall'[c].stage = "read"
        BY <4>3
      <4>. QED
        BY <3>2, <4>2, <4>3, <4>4 DEF IsFsCall
    <3>4. CASE ~(l.got < files[l.file])
      <4>1. fsCall'[c] = [stage |-> "idle"] /\ Moves(c)
        BY <1>1, <3>1, <3>4 DEF FilesType, Moves
      <4>. QED
        BY <4>1 DEF IsFsCall
    <3>. QED
      BY <3>3, <3>4
  <2>2. ASSUME NEW k \in Keys, Files!OpenStream(c, k)
        PROVE  /\ Moves(c) /\ IsFsCall(fsCall'[c]) /\ fsCall'[c].stage \in {"idle", "read"}
               /\ fsCall'[c].stage = "read" => files[fsCall'[c].file] = Bytes
    <3>1. path[k] # None
          /\ fsCall' = [fsCall EXCEPT ![c] = [stage |-> "read", file |-> path[k], got |-> 0]]
      BY <2>2 DEF Files!OpenStream, Files!There
    <3>2. fsCall'[c] = [stage |-> "read", file |-> path[k], got |-> 0] /\ Moves(c)
      BY <1>1, <3>1 DEF FilesType, Moves
    <3>3. path[k] \in 1..puts /\ files[path[k]] = Bytes
      BY <1>1, <3>1 DEF FilesType, FilesGrow
    <3>. QED
      BY <3>2, <3>3 DEF IsFsCall
  <2>. QED
    BY <2>1, <2>2
<1>4. FilesType' /\ FilesGrow' /\ LitterCounted'
  BY <1>1, <1>2, <1>3, NobodyWrites DEF AtWork, Writing
<1>5. ListingsHold'
  BY <1>1, <1>2, <1>3, ListingsGoOn DEF Listed
<1>. QED
  BY <1>4, <1>5 DEF FilesInv

LEMMA DeleteStep ==
  ASSUME FilesInv, NEW k \in Keys, Files!Delete(k)
  PROVE  FilesInv'
<1>. USE FilesFit
<1>1. FilesType /\ FilesGrow /\ LitterCounted /\ ListingsHold
  BY DEF FilesInv
<1>2. /\ path' = [path EXCEPT ![k] = None] /\ stayed' = stayed \ {k}
      /\ UNCHANGED <<puts, files, tmp, fsCall, token, died, appeared>>
  BY DEF Files!Delete
<1>3. path \in [Keys -> (1..puts) \cup {None}] /\ path' \in [Keys -> (1..puts) \cup {None}]
      /\ path'[k] = None /\ \A j \in Keys : j # k => path'[j] = path[j]
  BY <1>1, <1>2 DEF FilesType
<1>4. FilesType'
  BY <1>1, <1>2, <1>3 DEF FilesType, IsFsCall
<1>5. FilesGrow'
  BY <1>1, <1>2, <1>3 DEF FilesGrow
<1>6. LitterCounted'
  BY <1>1, <1>2 DEF LitterCounted, WorkedOn
<1>7. ListingsHold'
  <2>1. /\ stayed' \subseteq {j \in Keys : path'[j] # None}
        /\ {j \in Keys : path'[j] # None} \subseteq appeared
    BY <1>1, <1>2, <1>3 DEF ListingsHold
  <2>2. ASSUME NEW c \in Calls PROVE ListingOnItsWay(fsCall[c])'
    <3>1. ListingOnItsWay(fsCall[c])
      BY <1>1 DEF ListingsHold
    <3>. QED
      BY <1>2, <3>1 DEF ListingOnItsWay
  <2>. QED
    BY <1>1, <1>2, <2>1, <2>2 DEF ListingsHold
<1>. QED
  BY <1>4, <1>5, <1>6, <1>7 DEF FilesInv

-----------------------------------------------------------------------------
(* Pages of a listing. *)

(* The two modules count alike. *)
LEMMA FilesCount == \A S : Files!Cardinality(S) = Cardinality(S)
BY Zenon DEF Cardinality, Files!Cardinality

(* A page is the keys in front. *)
LEMMA PagesAreInFront ==
  ASSUME NEW S, S \subseteq Keys, IsFiniteSet(S)
  PROVE  /\ Files!FirstOf(S) \subseteq S
         /\ \A k \in Files!FirstOf(S) : \A j \in S : j <= k => j \in Files!FirstOf(S)
         /\ S # {} => Files!FirstOf(S) # {}
<1>. USE FilesFit
<1>. DEFINE below(k) == {j \in S : j < k}
<1>0. S \subseteq Nat
  OBVIOUS
<1>1. Files!FirstOf(S) = {k \in S : Cardinality(below(k)) < Limit}
  BY FilesCount DEF Files!FirstOf
<1>2. ASSUME NEW k \in S, NEW j \in S, j <= k
      PROVE  Cardinality(below(j)) <= Cardinality(below(k))
  <2>1. below(j) \subseteq below(k)
    <3>1. j \in Nat /\ k \in Nat
      BY <1>0
    <3>2. \A i \in S : i < j => i < k
      BY <1>0, <1>2, <3>1
    <3>. QED
      BY <3>2
  <2>2. IsFiniteSet(below(k))
    BY FS_Subset
  <2>. QED
    BY <2>1, <2>2, FS_Subset
<1>3. \A k \in S : Cardinality(below(k)) \in Nat
  <2>1. \A k \in S : IsFiniteSet(below(k))
    BY FS_Subset
  <2>. QED
    BY <2>1, FS_CardinalityType
<1>4. ASSUME S # {} PROVE Files!FirstOf(S) # {}
  <2>1. PICK x \in S : \A y \in S : x <= y
    BY <1>0, <1>4, LeastOf
  <2>2. below(x) = {}
    <3>1. \A j \in S : ~(j < x)
      BY <1>0, <2>1
    <3>. QED
      BY <3>1
  <2>3. Cardinality(below(x)) = 0
    BY <2>2, FS_EmptySet
  <2>. QED
    BY <1>1, <2>3
<1>. HIDE DEF below
<1>5. \A k \in Files!FirstOf(S) : \A j \in S : j <= k => j \in Files!FirstOf(S)
  <2>1. ASSUME NEW k \in S, Cardinality(below(k)) < Limit, NEW j \in S, j <= k
        PROVE  Cardinality(below(j)) < Limit
    BY <1>2, <1>3, <2>1
  <2>. QED
    BY <1>1, <2>1
<1>. QED
  BY <1>1, <1>4, <1>5

(* The lister goes on, and the directory stays as it is. *)
LEMMA ListerGoesOn ==
  ASSUME FilesType, ListingsHold, NEW c \in Calls, Moves(c), fsCall[c].stage \in Listed,
         UNCHANGED <<path, stayed, appeared>>, ListingOnItsWay(fsCall'[c])
  PROVE  ListingsHold'
<1>1. \A d \in Calls : d # c => fsCall'[d] = fsCall[d]
  BY OthersStand
<1>2. ASSUME NEW d \in Calls PROVE ListingOnItsWay(fsCall[d])'
  <2>1. ListingOnItsWay(fsCall'[d])
    BY <1>1 DEF ListingsHold
  <2>. QED
    BY <2>1 DEF ListingOnItsWay
<1>3. \A d \in Calls : fsCall'[d].stage \in Listed => fsCall[d].stage \in Listed
  BY <1>1
<1>. QED
  BY <1>2, <1>3 DEF ListingsHold

LEMMA ListBegins ==
  ASSUME FilesInv, NEW c \in Calls, Files!BeginList(c)
  PROVE  FilesInv'
<1>. USE FilesFit
<1>1. FilesType /\ FilesGrow /\ LitterCounted /\ ListingsHold
  BY DEF FilesInv
<1>. DEFINE there == {k \in Keys : path[k] # None}
            l == [stage |-> "walk", todo |-> Keys, found |-> {}, after |-> -1,
                  seen |-> [k \in Keys |-> 0]]
<1>2. /\ fsCall[c].stage = "idle" /\ \A d \in Calls : fsCall[d].stage \notin Listed
      /\ fsCall' = [fsCall EXCEPT ![c] = l]
      /\ stayed' = there /\ appeared' = there
      /\ UNCHANGED <<puts, files, path, tmp, died, token>>
  BY DEF Files!BeginList, Files!At, Files!There, Files!NoKey, Listed
<1>3. fsCall'[c] = l /\ Moves(c) /\ \A d \in Calls : d # c => fsCall'[d] = fsCall[d]
  BY <1>1, <1>2 DEF FilesType, Moves
<1>4. l.stage = "walk" /\ l.found = {} /\ l.todo = Keys /\ l.after = -1 /\ l.seen = [k \in Keys |-> 0]
  OBVIOUS
<1>5. IsFsCall(l)
  BY DEF IsFsCall, Listed
<1>. HIDE DEF l
<1>6. FilesType' /\ FilesGrow' /\ LitterCounted'
  BY <1>1, <1>2, <1>3, <1>4, <1>5, NobodyWrites DEF AtWork, Writing
<1>7. ListingOnItsWay(fsCall[c])'
  <2>1. \A k \in Keys : l.seen[k] = 0 /\ ~(k <= -1)
    <3>1. \A k \in Keys : k \in Nat
      OBVIOUS
    <3>2. \A k \in Keys : l.seen[k] = 0
      BY <1>4
    <3>. QED
      BY <3>1, <3>2
  <2>2. IsFiniteSet({})
    BY FS_EmptySet
  <2>3. there \ Keys = {}
    OBVIOUS
  <2>4. \E n \in Nat : \A k \in {} : k <= n
    OBVIOUS
  <2>5. fsCall'[c].stage = "walk" /\ fsCall'[c].found = {} /\ fsCall'[c].todo = Keys
        /\ fsCall'[c].after = -1 /\ fsCall'[c].seen = l.seen
    BY <1>3, <1>4
  <2>6. there \subseteq Keys /\ stayed' = there
    BY <1>2
  <2>. HIDE DEF there
  <2>7. \A k \in Keys : fsCall'[c].seen[k] = 0 /\ ~(k <= fsCall'[c].after)
    BY <2>1, <2>5
  <2>. QED
    BY <2>2, <2>4, <2>5, <2>6, <2>7 DEF ListingOnItsWay, Listed
<1>8. \A d \in Calls : d # c => ListingOnItsWay(fsCall[d])'
  BY <1>2, <1>3 DEF ListingOnItsWay, Listed
<1>9. ListingsHold'
  <2>1. there \subseteq Keys
    OBVIOUS
  <2>. QED
    BY <1>2, <1>3, <1>7, <1>8, <2>1 DEF ListingsHold
<1>. QED
  BY <1>6, <1>9 DEF FilesInv

(* What the lister knows does not change where it stands in the files. *)
LEMMA ListerSteps ==
  ASSUME FilesInv, NEW c \in Calls, Moves(c), fsCall[c].stage \in Listed,
         UNCHANGED <<puts, files, path, tmp, died, token, stayed, appeared>>,
         IsFsCall(fsCall'[c]), fsCall'[c].stage \in Listed \cup {"idle"},
         ListingOnItsWay(fsCall'[c])
  PROVE  FilesInv'
<1>1. FilesType /\ FilesGrow /\ LitterCounted /\ ListingsHold
  BY DEF FilesInv
<1>2. FilesType' /\ FilesGrow' /\ LitterCounted'
  BY <1>1, NobodyWrites DEF AtWork, Writing, Listed
<1>3. ListingsHold'
  BY <1>1, ListerGoesOn
<1>. QED
  BY <1>2, <1>3 DEF FilesInv

LEMMA ListEnds ==
  ASSUME FilesInv, NEW c \in Calls, Files!EndList(c)
  PROVE  FilesInv'
<1>1. FilesType /\ fsCall[c].stage = "listed"
  BY DEF FilesInv, Files!EndList, Files!At
<1>2. /\ fsCall' = [fsCall EXCEPT ![c] = [stage |-> "idle"]]
      /\ UNCHANGED <<puts, files, path, tmp, died, token, stayed, appeared>>
  BY DEF Files!EndList, Files!Goes, Files!Unused
<1>3. fsCall'[c] = [stage |-> "idle"] /\ fsCall'[c].stage = "idle" /\ Moves(c)
  BY <1>1, <1>2 DEF FilesType, Moves
<1>4. ListingOnItsWay(fsCall'[c]) /\ IsFsCall(fsCall'[c])
  BY <1>3 DEF ListingOnItsWay, Listed, IsFsCall
<1>. QED
  BY <1>1, <1>2, <1>3, <1>4, ListerSteps DEF Listed

LEMMA VisitStep ==
  ASSUME FilesInv, NEW c \in Calls, NEW k \in Keys, Files!Visit(c, k)
  PROVE  FilesInv'
<1>. USE FilesFit
<1>1. FilesType /\ ListingsHold
  BY DEF FilesInv
<1>. DEFINE l == fsCall[c]
            found == IF path[k] # None THEN l.found \cup {k} ELSE l.found
<1>2. /\ l.stage = "walk" /\ k \in l.todo
      /\ UNCHANGED <<puts, files, path, tmp, died, token, stayed, appeared>>
  BY DEF Files!Visit, Files!At
<1>3. /\ l.stage \in Listed
      /\ l \in [stage : Listed, todo : SUBSET Keys, found : SUBSET Keys,
                after : {-1} \cup Nat, seen : [Keys -> Nat]]
  BY <1>1, <1>2, CallFields DEF Listed
<1>4. fsCall' = [fsCall EXCEPT ![c] = [l EXCEPT !.todo = l.todo \ {k}, !.found = found]]
  BY DEF Files!Visit, Files!There
<1>5. fsCall'[c] = [l EXCEPT !.todo = l.todo \ {k}, !.found = found] /\ Moves(c)
  BY <1>1, <1>4 DEF FilesType, Moves
<1>6. ListingOnItsWay(l)
  BY <1>1 DEF ListingsHold
<1>7. /\ stayed \subseteq {j \in Keys : path[j] # None}
      /\ {j \in Keys : path[j] # None} \subseteq appeared
  BY <1>1 DEF ListingsHold
<1>8. k \in stayed => k \in found
  BY <1>7
<1>9. l.found \subseteq found /\ found \subseteq l.found \cup {k} /\ (k \in found => k \in appeared \/ k \in l.found)
  BY <1>7
<1>10. IsFiniteSet(l.found) => IsFiniteSet(found)
  BY FS_AddElement
<1>11. found \subseteq Keys
  BY <1>3
<1>. HIDE DEF l, found
<1>12. /\ fsCall'[c].stage = "walk" /\ fsCall'[c].todo = l.todo \ {k} /\ fsCall'[c].found = found
       /\ fsCall'[c].after = l.after /\ fsCall'[c].seen = l.seen
  BY <1>2, <1>3, <1>5
<1>13. fsCall'[c] \in [stage : Listed, todo : SUBSET Keys, found : SUBSET Keys,
                      after : {-1} \cup Nat, seen : [Keys -> Nat]]
  BY <1>3, <1>5, <1>11
<1>14. ListingOnItsWay(fsCall'[c])
  <2>1. PICK n \in Nat : \A j \in l.found : j <= n
    BY <1>2, <1>6 DEF ListingOnItsWay
  <2>2. \E m \in Nat : \A j \in found : j <= m
    <3>1. l.found \subseteq Nat /\ k \in Nat
      BY <1>3
    <3>2. n + k \in Nat /\ \A j \in l.found \cup {k} : j <= n + k
      BY <2>1, <3>1
    <3>. QED
      BY <1>9, <3>2
  <2>3. stayed \ (l.todo \ {k}) \subseteq found
    BY <1>2, <1>6, <1>8, <1>9 DEF ListingOnItsWay
  <2>4. found \subseteq appeared /\ IsFiniteSet(found)
    BY <1>2, <1>6, <1>9, <1>10 DEF ListingOnItsWay
  <2>. QED
    BY <1>2, <1>6, <1>12, <2>2, <2>3, <2>4 DEF ListingOnItsWay, Listed
<1>15. IsFsCall(fsCall'[c]) /\ fsCall'[c].stage \in Listed
  BY <1>12, <1>13 DEF IsFsCall, Listed
<1>. QED
  BY <1>2, <1>3, <1>5, <1>14, <1>15, ListerSteps DEF l

(* A page shows what comes after the pages before, and no more; the last one
   shows the rest.                                                          *)
LEMMA PageStep ==
  ASSUME FilesInv, NEW c \in Calls, Files!AnswerPage(c)
  PROVE  FilesInv'
<1>. USE FilesFit
<1>1. FilesType /\ ListingsHold
  BY DEF FilesInv
<1>. DEFINE l    == fsCall[c]
            rest == {k \in l.found : k > l.after}
            page == Files!FirstOf(rest)
            shown == [k \in Keys |-> l.seen[k] + (IF k \in page THEN 1 ELSE 0)]
            last == CHOOSE k \in page : \A j \in page : j <= k
<1>2. /\ l.stage = "walk" /\ l.todo = {}
      /\ UNCHANGED <<puts, files, path, tmp, died, token, stayed, appeared>>
  BY DEF Files!AnswerPage, Files!At
<1>0. fsCall' = IF page = rest
                THEN [fsCall EXCEPT ![c].stage = "listed", ![c].seen = shown]
                ELSE [fsCall EXCEPT ![c].todo = Keys, ![c].found = {}, ![c].seen = shown,
                                    ![c].after = last]
  BY DEF Files!AnswerPage, Files!Remaining
<1>3. /\ l.stage \in Listed
      /\ l \in [stage : Listed, todo : SUBSET Keys, found : SUBSET Keys,
                after : {-1} \cup Nat, seen : [Keys -> Nat]]
  BY <1>1, <1>2, CallFields DEF Listed
<1>4. ListingOnItsWay(l)
  BY <1>1 DEF ListingsHold
<1>5. Moves(c) /\ fsCall'[c] = IF page = rest
                               THEN [l EXCEPT !.stage = "listed", !.seen = shown]
                               ELSE [l EXCEPT !.todo = Keys, !.found = {}, !.seen = shown, !.after = last]
  <2>. HIDE DEF rest, page, shown, last
  <2>1. CASE page = rest
    BY <1>0, <1>1, <1>2, <2>1 DEF FilesType, Moves
  <2>2. CASE page # rest
    BY <1>0, <1>1, <1>2, <2>2 DEF FilesType, Moves
  <2>. QED
    BY <2>1, <2>2
<1>6. /\ l.after \in {-1} \cup Nat /\ l.found \subseteq Keys /\ l.seen \in [Keys -> Nat]
  BY <1>3
<1>7. /\ \A k \in Keys : l.seen[k] <= 1 /\ (l.seen[k] = 1 => k \in appeared)
      /\ \E n \in Nat : \A k \in l.found : k <= n
      /\ IsFiniteSet(l.found) /\ l.found \subseteq appeared /\ stayed \subseteq l.found
      /\ \A k \in Keys : /\ l.seen[k] = 1 => k <= l.after
                         /\ k \in stayed /\ k <= l.after => l.seen[k] = 1
  <2>1. stayed \ l.todo = stayed
    BY <1>2
  <2>. QED
    BY <1>2, <1>3, <1>4, <2>1 DEF ListingOnItsWay
<1>8. rest \subseteq l.found /\ rest \subseteq Keys /\ IsFiniteSet(rest)
  BY <1>6, <1>7, FS_Subset
<1>9. /\ page \subseteq rest
      /\ \A k \in page : \A j \in rest : j <= k => j \in page
      /\ rest # {} => page # {}
  BY <1>8, PagesAreInFront
<1>10. \A k \in rest : k \in Nat /\ k \in Keys /\ k > l.after /\ k \in appeared
  BY <1>6, <1>7, <1>8
<1>11. \A k \in Keys : k > l.after /\ k \in stayed => k \in rest
  BY <1>7
<1>. HIDE DEF rest, page
<1>12. shown \in [Keys -> Nat] /\ \A k \in Keys : shown[k] = l.seen[k] + (IF k \in page THEN 1 ELSE 0)
  BY <1>6
<1>. HIDE DEF l, shown
<1>13. \A k \in page : l.seen[k] = 0 /\ shown[k] = 1 /\ k \in appeared
  <2>. TAKE k \in page
  <2>1. k \in Keys /\ k \in Nat /\ k > l.after /\ k \in appeared
    BY <1>9, <1>10
  <2>2. ~(k <= l.after)
    BY <1>6, <2>1
  <2>3. l.seen[k] # 1 /\ l.seen[k] <= 1 /\ l.seen[k] \in Nat
    BY <1>6, <1>7, <2>1, <2>2
  <2>. QED
    BY <1>12, <2>1, <2>3
<1>14. \A k \in Keys : k \notin page => shown[k] = l.seen[k]
  <2>. SUFFICES ASSUME NEW k \in Keys, k \notin page PROVE shown[k] = l.seen[k]
    OBVIOUS
  <2>1. l.seen[k] \in Nat
    BY <1>6
  <2>2. shown[k] = l.seen[k] + 0
    BY <1>12
  <2>. QED
    BY <2>1, <2>2
<1>15. \A k \in Keys : shown[k] <= 1 /\ (shown[k] = 1 => k \in appeared)
  BY <1>7, <1>13, <1>14
<1>16. CASE page = rest
  <2>1. fsCall'[c] = [l EXCEPT !.stage = "listed", !.seen = shown]
    BY <1>5, <1>16
  <2>2. fsCall'[c].stage = "listed" /\ fsCall'[c].seen = shown
    BY <1>3, <2>1
  <2>3. fsCall'[c] \in [stage : Listed, todo : SUBSET Keys, found : SUBSET Keys,
                        after : {-1} \cup Nat, seen : [Keys -> Nat]]
    BY <1>3, <1>12, <2>1 DEF Listed
  <2>4. \A k \in stayed : shown[k] = 1
    <3>. TAKE k \in stayed
    <3>1. k \in Keys /\ k \in Nat
      BY <1>6, <1>7
    <3>2. CASE k > l.after
      BY <1>11, <1>13, <1>16, <3>1, <3>2
    <3>3. CASE k <= l.after
      <4>1. k \notin page
        BY <1>6, <1>9, <1>10, <3>1, <3>3
      <4>. QED
        BY <1>7, <1>14, <3>1, <3>3, <4>1
    <3>. QED
      BY <1>6, <3>1, <3>2, <3>3
  <2>5. ListingOnItsWay(fsCall'[c])
    BY <1>15, <2>2, <2>4 DEF ListingOnItsWay
  <2>6. IsFsCall(fsCall'[c]) /\ fsCall'[c].stage \in Listed
    BY <1>2, <2>2, <2>3 DEF IsFsCall, Listed
  <2>. QED
    BY <1>2, <1>3, <1>5, <2>5, <2>6, ListerSteps DEF l
<1>17. CASE page # rest
  <2>1. /\ last \in page /\ \A j \in page : j <= last
    <3>1. page # {} /\ page \subseteq Nat
      BY <1>9, <1>10, <1>17
    <3>2. PICK n \in Nat : \A k \in page : k <= n
      BY <1>7, <1>8, <1>9
    <3>3. \E k \in page : \A j \in page : j <= k
      BY <3>1, <3>2, GreatestOf
    <3>. QED
      BY <3>3
  <2>. HIDE DEF last
  <2>2. last \in Nat /\ last \in Keys /\ last > l.after
    BY <1>9, <1>10, <2>1
  <2>3. fsCall'[c] = [l EXCEPT !.todo = Keys, !.found = {}, !.seen = shown, !.after = last]
    BY <1>5, <1>17
  <2>4. /\ fsCall'[c].stage = "walk" /\ fsCall'[c].seen = shown /\ fsCall'[c].todo = Keys
        /\ fsCall'[c].found = {} /\ fsCall'[c].after = last
    BY <1>2, <1>3, <2>3
  <2>5. fsCall'[c] \in [stage : Listed, todo : SUBSET Keys, found : SUBSET Keys,
                        after : {-1} \cup Nat, seen : [Keys -> Nat]]
    BY <1>3, <1>12, <2>2, <2>3
  <2>6. \A k \in Keys : shown[k] = 1 => k <= last
    <3>. TAKE k \in Keys
    <3>1. k \in Nat
      OBVIOUS
    <3>. QED
      BY <1>6, <1>7, <1>14, <2>1, <2>2, <3>1
  <2>7. \A k \in Keys : k \in stayed /\ k <= last => shown[k] = 1
    <3>. SUFFICES ASSUME NEW k \in Keys, k \in stayed, k <= last PROVE shown[k] = 1
      OBVIOUS
    <3>1. k \in Nat
      OBVIOUS
    <3>2. CASE k > l.after
      BY <1>9, <1>11, <1>13, <2>1, <3>2
    <3>3. CASE k <= l.after
      <4>1. k \notin page
        BY <1>6, <1>9, <1>10, <3>1, <3>3
      <4>. QED
        BY <1>7, <1>14, <3>3, <4>1
    <3>. QED
      BY <1>6, <3>1, <3>2, <3>3
  <2>8. ListingOnItsWay(fsCall'[c])
    <3>1. IsFiniteSet({}) /\ \E n \in Nat : \A k \in {} : k <= n
      BY FS_EmptySet
    <3>2. stayed \ Keys = {}
      BY <1>6, <1>7
    <3>. QED
      BY <1>15, <2>4, <2>6, <2>7, <3>1, <3>2 DEF ListingOnItsWay
  <2>9. IsFsCall(fsCall'[c]) /\ fsCall'[c].stage \in Listed
    BY <1>2, <2>4, <2>5 DEF IsFsCall, Listed
  <2>. QED
    BY <1>2, <1>3, <1>5, <2>8, <2>9, ListerSteps DEF l
<1>. QED
  BY <1>16, <1>17

-----------------------------------------------------------------------------

LEMMA FilesStand ==
  ASSUME FilesInv,
         UNCHANGED <<files, path, tmp, fsCall, token, puts, died, stayed, appeared>>
  PROVE  FilesInv'
BY DEF FilesInv, FilesType, FilesGrow, LitterCounted, WorkedOn, ListingsHold, ListingOnItsWay, IsFsCall

LEMMA FilesStep ==
  ASSUME FilesInv, Files!FsNext
  PROVE  FilesInv'
<1>1. FilesType
  BY DEF FilesInv
<1>2. ASSUME NEW c \in Calls, NEW k \in Keys,
             Files!BeginPut(c, k) \/ Files!OpenStream(c, k) \/ Files!Visit(c, k)
      PROVE  FilesInv'
  BY <1>2, PutBegins, ReadSteps, VisitStep
<1>3. ASSUME NEW c \in Calls,
             \/ Files!CreateTmp(c) \/ Files!WriteTmp(c) \/ Files!Rename(c) \/ Files!PutFails(c)
             \/ Files!RemoveTmp(c)
      PROVE  FilesInv'
  BY <1>3, PutSteps
<1>4. ASSUME NEW c \in Calls,
             \/ Files!Dies(c) \/ Files!ReadOn(c)
             \/ Files!BeginList(c) \/ Files!AnswerPage(c) \/ Files!EndList(c)
      PROVE  FilesInv'
  BY <1>4, DeathStep, ReadSteps, ListBegins, PageStep, ListEnds
<1>5. ASSUME NEW c \in Calls, Files!BeginAccept(c) \/ Files!TakeBody(c) \/ Files!BodyRefused(c)
      PROVE  FALSE
  <2>1. fsCall[c].stage # "body"
    BY <1>1, CallFields DEF AtWork, Writing, Listed
  <2>. QED
    BY <1>1, <1>5, <2>1 DEF FilesType, Files!BeginAccept, Files!TakeBody, Files!BodyRefused, Files!At
<1>6. ASSUME NEW k \in Keys, Files!Delete(k) \/ Files!Presign(k)
      PROVE  FilesInv'
  BY <1>6, DeleteStep DEF Files!Presign
<1>7. CASE Files!Tick
  BY <1>7, FilesStand DEF Files!Tick
<1>. QED
  BY <1>2, <1>3, <1>4, <1>5, <1>6, <1>7 DEF Files!FsNext

LEMMA FilesAreWhole ==
  ASSUME FilesInv
  PROVE  Files!OnlyWholeObjectsAreSeen /\ Files!LitterIsFromDeaths /\ Files!ListingIsExact
<1>1. Files!OnlyWholeObjectsAreSeen
  BY DEF FilesInv, FilesGrow, Files!OnlyWholeObjectsAreSeen, Files!There, Files!At
<1>2. Files!LitterIsFromDeaths
  <2>1. WorkedOn = {fsCall[c].file : c \in {d \in Calls :
                      fsCall[d].stage \in {"create", "write", "rename", "rm"}}}
    BY DEF WorkedOn, AtWork, Writing
  <2>. QED
    BY <2>1, FilesCount DEF FilesInv, LitterCounted, Files!LitterIsFromDeaths
<1>3. Files!ListingIsExact
  <2>1. ASSUME NEW c \in Calls, fsCall[c].stage = "listed", NEW k \in Keys
        PROVE  /\ fsCall[c].seen[k] <= 1
               /\ k \in stayed => fsCall[c].seen[k] = 1
               /\ fsCall[c].seen[k] = 1 => k \in appeared
    BY <2>1 DEF FilesInv, ListingsHold, ListingOnItsWay, Listed
  <2>. QED
    BY <2>1 DEF Files!ListingIsExact, Files!At
<1>. QED
  BY <1>1, <1>2, <1>3

(* Readers and listings see whole objects, each of them once, and litter only
   where a process died, whatever is put, deleted and listed at a time; and a
   streamed upload is there whole, in parts the store takes, or leaves nothing
   that the adapter could have cleared away (storage.ts, FsStorage's put,
   stream and list, S3Storage.putStream).                                   *)
THEOREM ObjectsStayWhole == Spec => []ObjectsAreWhole
<1>. DEFINE I == (part = "fs" => FilesInv) /\ (part = "stream" => StreamInv)
<1>1. Init => I
  BY FilesBegin, StreamBegins
<1>2. I /\ [Next]_vars => I'
  <2>. SUFFICES ASSUME I, [Next]_vars PROVE I'
    OBVIOUS
  <2>1. part' = part
    BY PartStands
  <2>2. ASSUME part = "fs" PROVE FilesInv'
    <3>1. CASE Files!FsNext
      BY <2>2, <3>1, FilesStep
    <3>2. CASE UNCHANGED fs
      BY <2>2, <3>2, FilesStand DEF fs
    <3>. QED
      BY <2>2, <3>1, <3>2 DEF Next, vars, services, others, fs
  <2>3. ASSUME part = "stream" PROVE StreamInv'
    <3>1. CASE Stream!S3UploadNext
      BY <2>3, <3>1, StreamStep
    <3>2. CASE UNCHANGED stream
      BY <2>3, <3>2, StreamStands DEF stream
    <3>. QED
      BY <2>3, <3>1, <3>2 DEF Next, vars, services, others, stream
  <2>. QED
    BY <2>1, <2>2, <2>3
<1>3. I => ObjectsAreWhole
  BY FilesAreWhole, StreamIsWhole DEF ObjectsAreWhole
<1>. QED
  BY <1>1, <1>2, <1>3, PTL DEF Spec
-----------------------------------------------------------------------------
(* Listing by pages. *)

LEMMA PagesFit ==
  /\ Ids \subseteq Nat /\ PageSize \in Nat \ {0} /\ Millisecond \in Nat \ {0}
  /\ ListMax \in Nat /\ PageSize <= ListMax
BY ConstantsFit DEF Pages!PagingConstants

LEMMA PagesCount == \A S : Pages!Cardinality(S) = Cardinality(S)
BY Zenon DEF Cardinality, Pages!Cardinality

UploadsType == upload \in [Ids -> [stage : {"none", "open", "there", "gone"}, at : Nat]]

(* The order of the list, and the files of a set before one of them. *)
Earlier(f, g) == Pages!Before(upload[f].at, f, upload[g].at, g)
Ahead(S, f) == {g \in S : Earlier(g, f)}

LEMMA EarlierIsAnOrder ==
  ASSUME UploadsType, NEW f \in Ids, NEW g \in Ids
  PROVE  /\ ~Earlier(f, f)
         /\ f # g => Earlier(f, g) \/ Earlier(g, f)
         /\ ~(Earlier(f, g) /\ Earlier(g, f))
         /\ \A h \in Ids : Earlier(f, g) /\ Earlier(g, h) => Earlier(f, h)
<1>1. \A h \in Ids : upload[h].at \in Nat /\ h \in Nat
  BY PagesFit DEF UploadsType
<1>. QED
  BY <1>1 DEF Earlier, Pages!Before

LEMMA CountAhead ==
  ASSUME UploadsType, NEW S \in SUBSET Ids, IsFiniteSet(S), NEW f \in S
  PROVE  /\ IsFiniteSet(Ahead(S, f)) /\ Cardinality(Ahead(S, f)) \in Nat
         /\ Cardinality(Ahead(S, f)) < Cardinality(S)
         /\ \A g \in S : Earlier(g, f) => Cardinality(Ahead(S, g)) < Cardinality(Ahead(S, f))
<1>1. Ahead(S, f) \subseteq S \ {f}
  BY EarlierIsAnOrder DEF Ahead
<1>2. IsFiniteSet(S \ {f}) /\ Cardinality(S \ {f}) = Cardinality(S) - 1 /\ Cardinality(S) \in Nat
  BY FS_RemoveElement, FS_CardinalityType
<1>3. IsFiniteSet(Ahead(S, f)) /\ Cardinality(Ahead(S, f)) <= Cardinality(S \ {f})
  BY <1>1, <1>2, FS_Subset
<1>4. Cardinality(Ahead(S, f)) \in Nat
  BY <1>3, FS_CardinalityType
<1>5. ASSUME NEW g \in S, Earlier(g, f)
      PROVE  Cardinality(Ahead(S, g)) < Cardinality(Ahead(S, f))
  <2>1. g \in Ahead(S, f) /\ Ahead(S, g) \subseteq Ahead(S, f) \ {g}
    BY <1>5, EarlierIsAnOrder DEF Ahead
  <2>2. /\ IsFiniteSet(Ahead(S, f) \ {g})
        /\ Cardinality(Ahead(S, f) \ {g}) = Cardinality(Ahead(S, f)) - 1
    BY <1>3, <2>1, FS_RemoveElement
  <2>3. /\ IsFiniteSet(Ahead(S, g))
        /\ Cardinality(Ahead(S, g)) <= Cardinality(Ahead(S, f) \ {g})
    BY <2>1, <2>2, FS_Subset
  <2>4. Cardinality(Ahead(S, g)) \in Nat
    BY <2>3, FS_CardinalityType
  <2>. QED
    BY <1>4, <2>2, <2>3, <2>4
<1>. QED
  BY <1>2, <1>3, <1>4, <1>5

(* Any files have a first and a last. *)
Top(P, l) == l \in P /\ \A g \in P \ {l} : Earlier(g, l)

LEMMA FirstAndLast ==
  ASSUME UploadsType, NEW S \in SUBSET Ids, IsFiniteSet(S), S # {}
  PROVE  /\ \E l \in S : Top(S, l)
         /\ \E m \in S : Ahead(S, m) = {}
<1>. DEFINE Counts == {Cardinality(Ahead(S, f)) : f \in S}
<1>1. /\ Counts \subseteq Nat /\ Counts # {} /\ Cardinality(S) \in Nat
      /\ \A n \in Counts : n <= Cardinality(S)
  BY CountAhead, FS_CardinalityType
<1>2. PICK l \in S : \A f \in S : Cardinality(Ahead(S, f)) <= Cardinality(Ahead(S, l))
  <2>1. \E n \in Counts : \A k \in Counts : k <= n
    BY <1>1, GreatestOf
  <2>. QED
    BY <2>1
<1>3. \A g \in S \ {l} : Earlier(g, l)
  <2>. SUFFICES ASSUME NEW g \in S \ {l}, Earlier(l, g) PROVE FALSE
    BY EarlierIsAnOrder
  <2>1. Cardinality(Ahead(S, l)) < Cardinality(Ahead(S, g))
    BY CountAhead
  <2>. QED
    BY <1>2, <2>1, CountAhead
<1>4. PICK m \in S : \A f \in S : Cardinality(Ahead(S, m)) <= Cardinality(Ahead(S, f))
  <2>1. \E n \in Counts : \A k \in Counts : n <= k
    BY <1>1, LeastOf
  <2>. QED
    BY <2>1
<1>5. Ahead(S, m) = {}
  <2>. SUFFICES ASSUME NEW g \in S, Earlier(g, m) PROVE FALSE
    BY DEF Ahead
  <2>1. Cardinality(Ahead(S, g)) < Cardinality(Ahead(S, m))
    BY CountAhead
  <2>. QED
    BY <1>4, <2>1, CountAhead
<1>. QED
  BY <1>2, <1>3, <1>5 DEF Top

LEMMA LastIsTop ==
  ASSUME UploadsType, NEW P \in SUBSET Ids, NEW l, Top(P, l)
  PROVE  Pages!LastOf(P) = l
<1>1. \A k \in P : (\A g \in P \ {k} : Earlier(g, k)) <=> k = l
  BY EarlierIsAnOrder DEF Top
<1>2. Pages!LastOf(P) = CHOOSE k \in P : \A g \in P \ {k} : Earlier(g, k)
  BY DEF Pages!LastOf, Earlier
<1>. QED
  BY <1>1, <1>2 DEF Top

(* The first n of a set. *)
LEMMA FirstFiles ==
  ASSUME UploadsType, NEW S \in SUBSET Ids, IsFiniteSet(S), NEW n \in Nat
  PROVE  LET F == Pages!FirstOf(S, n)
         IN  /\ F \subseteq S /\ IsFiniteSet(F) /\ Cardinality(F) \in Nat
             /\ \A f \in S : \A g \in F : Earlier(f, g) => f \in F
             /\ Cardinality(F) < n => F = S
             /\ Cardinality(S) <= n => F = S
             /\ S # {} /\ n > 0 => F # {}
<1>. DEFINE F == Pages!FirstOf(S, n)
<1>1. F = {f \in S : Cardinality(Ahead(S, f)) < n}
  <2>1. \A f \in S : {g \in S : Pages!Before(upload[g].at, g, upload[f].at, f)} = Ahead(S, f)
    BY DEF Ahead, Earlier
  <2>2. F = {f \in S : Cardinality({g \in S : Pages!Before(upload[g].at, g, upload[f].at, f)}) < n}
    BY PagesCount DEF Pages!FirstOf
  <2>. HIDE DEF F
  <2>. QED
    BY <2>1, <2>2
<1>. HIDE DEF F
<1>2. F \subseteq S /\ IsFiniteSet(F) /\ Cardinality(F) \in Nat
  BY <1>1, FS_Subset, FS_CardinalityType
<1>3. ASSUME NEW f \in S, NEW g \in F, Earlier(f, g) PROVE f \in F
  <2>1. Cardinality(Ahead(S, f)) < Cardinality(Ahead(S, g)) /\ Cardinality(Ahead(S, g)) < n
    BY <1>1, <1>3, CountAhead
  <2>. QED
    BY <1>1, <2>1, CountAhead
<1>4. ASSUME Cardinality(F) < n, F # S PROVE FALSE
  <2>1. S \ F # {} /\ S \ F \in SUBSET Ids /\ IsFiniteSet(S \ F)
    BY <1>2, <1>4, FS_Subset
  <2>2. PICK m \in S \ F : Ahead(S \ F, m) = {}
    BY <2>1, FirstAndLast
  <2>3. Ahead(S, m) \subseteq F
    BY <2>2 DEF Ahead
  <2>4. Cardinality(Ahead(S, m)) <= Cardinality(F)
    BY <1>2, <2>3, FS_Subset
  <2>. QED
    BY <1>1, <1>2, <1>4, <2>4, CountAhead
<1>5. Cardinality(S) <= n => F = S
  <2>1. Cardinality(S) \in Nat
    BY FS_CardinalityType
  <2>. QED
    BY <1>1, <2>1, CountAhead
<1>6. ASSUME S # {}, n > 0 PROVE F # {}
  <2>1. PICK m \in S : Ahead(S, m) = {}
    BY <1>6, FirstAndLast
  <2>. QED
    BY <1>1, <1>6, <2>1, FS_EmptySet
<1>. QED
  BY <1>2, <1>3, <1>4, <1>5, <1>6 DEF F

(* What a Date keeps of a time. *)
LEMMA WholeMilliseconds ==
  ASSUME NEW a \in Nat
  PROVE  /\ Pages!Truncated(a) \in Nat /\ Pages!Truncated(a) <= a
         /\ Pages!Truncated(Pages!Truncated(a)) = Pages!Truncated(a)
         /\ \A b \in Nat : a <= b => Pages!Truncated(a) <= Pages!Truncated(b)
<1>. USE PagesFit
<1>. DEFINE M == Millisecond
            q(x) == x \div M
<1>1. \A x \in Nat : q(x) \in Nat /\ q(x) * M <= x /\ x < (q(x) + 1) * M
  OBVIOUS
<1>2. \A x \in Nat : Pages!Truncated(x) = q(x) * M
  BY DEF Pages!Truncated
<1>3. \A i, j \in Nat : i <= j => i * M <= j * M
  OBVIOUS
<1>4. \A i, j \in Nat : i * M \in Nat
  OBVIOUS
<1>. HIDE DEF q, M
<1>5. ASSUME NEW x \in Nat, NEW y \in Nat, x <= y PROVE q(x) <= q(y)
  <2>. SUFFICES ASSUME q(y) + 1 <= q(x) PROVE FALSE
    BY <1>1
  <2>1. (q(y) + 1) * M <= q(x) * M
    BY <1>1, <1>3
  <2>2. q(x) * M <= x /\ y < (q(y) + 1) * M
    BY <1>1
  <2>3. q(x) * M \in Nat /\ (q(y) + 1) * M \in Nat
    <3>1. q(x) \in Nat /\ q(y) + 1 \in Nat
      BY <1>1
    <3>. QED
      BY <1>4, <3>1
  <2>. QED
    BY <1>5, <2>1, <2>2, <2>3
<1>6. ASSUME NEW i \in Nat PROVE q(i * M) = i
  <2>1. i * M \in Nat /\ q(i * M) \in Nat /\ q(i * M) * M <= i * M /\ i * M < (q(i * M) + 1) * M
    BY <1>1, <1>4
  <2>2. ASSUME i < q(i * M) PROVE FALSE
    <3>1. (i + 1) * M <= q(i * M) * M /\ (i + 1) * M \in Nat
      BY <1>3, <1>4, <2>1, <2>2
    <3>2. (i + 1) * M = i * M + M /\ M \in Nat \ {0}
      BY DEF M
    <3>. QED
      BY <1>4, <2>1, <3>1, <3>2
  <2>3. ASSUME q(i * M) < i PROVE FALSE
    BY <1>3, <1>4, <2>1, <2>3
  <2>. QED
    BY <2>1, <2>2, <2>3
<1>7. Pages!Truncated(a) \in Nat /\ Pages!Truncated(a) <= a
  BY <1>1, <1>2, <1>4
<1>8. Pages!Truncated(Pages!Truncated(a)) = Pages!Truncated(a)
  BY <1>1, <1>2, <1>4, <1>6
<1>9. ASSUME NEW b \in Nat, a <= b PROVE Pages!Truncated(a) <= Pages!Truncated(b)
  <2>1. q(a) <= q(b) /\ q(a) \in Nat /\ q(b) \in Nat
    BY <1>1, <1>5, <1>9
  <2>2. q(a) * M <= q(b) * M
    BY <1>3, <2>1
  <2>. QED
    BY <1>2, <2>2
<1>. QED
  BY <1>7, <1>8, <1>9

Placed(f) == upload[f].stage \in {"there", "gone"}

WalkRecord ==
  [stage : {"walking", "done"}, cursor : [at : Nat \cup {-1}, id : Nat \cup {-1}], had : SUBSET Ids,
   seen : [Ids -> Nat], last : SUBSET Ids, pages : Nat]

PagesType ==
  /\ time \in Nat /\ UploadsType /\ IsFiniteSet(Pages!Files)
  /\ walk = [stage |-> "idle"] \/ walk \in WalkRecord

(* On its way a listing has shown, or has still before it, whatever was there
   when it began; its cursor is the last file it has shown, cut to milliseconds,
   and nothing it has shown is of a later one.                              *)
WalksOn ==
  walk.stage = "walking" =>
    /\ \A f \in walk.had : Placed(f)
    /\ \A f \in walk.had \cap Pages!Files : walk.seen[f] > 0 \/ f \in Pages!Beyond(walk.cursor)
    /\ \/ walk.cursor = Pages!NoCursor /\ \A f \in Ids : walk.seen[f] = 0
       \/ \E l \in Ids :
            /\ Top(walk.last, l) /\ walk.cursor.at = Pages!Truncated(upload[l].at)
            /\ \A f \in walk.last : Placed(f)
            /\ \A f \in Ids : walk.seen[f] > 0 =>
                 Placed(f) /\ Pages!Truncated(upload[f].at) <= walk.cursor.at

WalkIsOver ==
  walk.stage = "done" => (\A f \in walk.had : Placed(f)) /\ Pages!NothingIsSkipped

PagesInv == PagesType /\ WalksOn /\ WalkIsOver

LEMMA PagesBegin == Init => PagesInv
<1>. SUFFICES ASSUME Init PROVE PagesInv
  OBVIOUS
<1>1. /\ time = 0 /\ upload = [f \in Ids |-> [stage |-> "none", at |-> 0]]
      /\ walk = [stage |-> "idle"]
  BY DEF Init, Pages!PagingInit
<1>2. Pages!Files = {}
  BY <1>1 DEF Pages!Files
<1>. QED
  BY <1>1, <1>2, FS_EmptySet DEF PagesInv, PagesType, UploadsType, WalksOn, WalkIsOver

(* Uploads and deletions: nothing that was placed is placed anew, or moved. *)
LEMMA FilesComeAndGo ==
  ASSUME PagesInv, walk' = walk, time' \in Nat, UploadsType', IsFiniteSet(Pages!Files'),
         \A f \in Ids : Placed(f) => Placed(f)' /\ upload'[f].at = upload[f].at,
         \A f \in Ids : Placed(f) /\ f \in Pages!Files' => f \in Pages!Files
  PROVE  PagesInv'
<1>1. PagesType'
  BY DEF PagesInv, PagesType
<1>2. CASE walk.stage = "walking"
  <2>1. walk \in WalkRecord
    BY <1>2 DEF PagesInv, PagesType
  <2>2. walk.had \subseteq Ids /\ walk.last \subseteq Ids /\ \A f \in walk.had : Placed(f)
    BY <1>2, <2>1 DEF WalkRecord, PagesInv, WalksOn
  <2>3. \A f \in Ids : Placed(f) /\ f \in Pages!Beyond(walk.cursor) /\ f \in Pages!Files'
                         => f \in Pages!Beyond(walk.cursor)'
    BY DEF Pages!Beyond
  <2>4. \A f \in walk.had \cap Pages!Files' :
          walk.seen[f] > 0 \/ f \in Pages!Beyond(walk.cursor)'
    BY <1>2, <2>2, <2>3 DEF PagesInv, WalksOn
  <2>5. ASSUME NEW l \in Ids, Top(walk.last, l), walk.cursor.at = Pages!Truncated(upload[l].at),
               \A f \in walk.last : Placed(f),
               \A f \in Ids : walk.seen[f] > 0 =>
                 Placed(f) /\ Pages!Truncated(upload[f].at) <= walk.cursor.at
        PROVE  /\ Top(walk.last, l)' /\ walk.cursor.at = Pages!Truncated(upload'[l].at)
               /\ \A f \in walk.last : Placed(f)'
               /\ \A f \in Ids : walk.seen[f] > 0 =>
                    Placed(f)' /\ Pages!Truncated(upload'[f].at) <= walk.cursor.at
    BY <2>2, <2>5 DEF Top, Earlier
  <2>. HIDE DEF PagesInv
  <2>6. \/ walk.cursor = Pages!NoCursor /\ \A f \in Ids : walk.seen[f] = 0
        \/ \E l \in Ids :
             /\ Top(walk.last, l)' /\ walk.cursor.at = Pages!Truncated(upload'[l].at)
             /\ \A f \in walk.last : Placed(f)'
             /\ \A f \in Ids : walk.seen[f] > 0 =>
                  Placed(f)' /\ Pages!Truncated(upload'[f].at) <= walk.cursor.at
    <3>1. \/ walk.cursor = Pages!NoCursor /\ \A f \in Ids : walk.seen[f] = 0
          \/ \E l \in Ids :
               /\ Top(walk.last, l) /\ walk.cursor.at = Pages!Truncated(upload[l].at)
               /\ \A f \in walk.last : Placed(f)
               /\ \A f \in Ids : walk.seen[f] > 0 =>
                    Placed(f) /\ Pages!Truncated(upload[f].at) <= walk.cursor.at
      BY <1>2 DEF PagesInv, WalksOn
    <3>. QED
      BY <2>5, <3>1
  <2>7. \A f \in walk.had : Placed(f)'
    BY <2>2
  <2>. QED
    BY <1>1, <1>2, <2>4, <2>6, <2>7 DEF PagesInv, WalksOn, WalkIsOver, Pages!NoCursor, Pages!Truncated
<1>3. CASE walk.stage = "done"
  <2>1. walk \in WalkRecord
    BY <1>3 DEF PagesInv, PagesType
  <2>. QED
    BY <1>1, <1>3, <2>1 DEF PagesInv, WalksOn, WalkIsOver, WalkRecord, Pages!NothingIsSkipped
<1>4. CASE walk.stage \notin {"walking", "done"}
  BY <1>1, <1>4 DEF PagesInv, WalksOn, WalkIsOver
<1>. QED
  BY <1>2, <1>3, <1>4

(* What one page brings. *)
Fetched == Pages!FirstOf(Pages!Beyond(walk.cursor), Pages!RowsFor(PageSize + 1))
Page    == Pages!FirstOf(Fetched, PageSize)

LEMMA PageIsTheFront ==
  ASSUME PagesInv, walk.stage = "walking"
  PROVE  /\ Page \subseteq Pages!Beyond(walk.cursor) /\ Pages!Beyond(walk.cursor) \subseteq Pages!Files
         /\ IsFiniteSet(Page)
         /\ Cardinality(Fetched) <= PageSize /\ PageSize < ListMax
              => Page = Pages!Beyond(walk.cursor)
         /\ ~(Cardinality(Fetched) <= PageSize) => Page # {}
         /\ \A f \in Pages!Beyond(walk.cursor) \ Page : \A g \in Page : Earlier(g, f)
<1>. DEFINE B == Pages!Beyond(walk.cursor)
            n == Pages!RowsFor(PageSize + 1)
<1>1. B \subseteq Pages!Files /\ Pages!Files \subseteq Ids /\ IsFiniteSet(B) /\ UploadsType
  BY FS_Subset DEF Pages!Beyond, Pages!Files, PagesInv, PagesType
<1>2. n \in Nat /\ (PageSize < ListMax => n = PageSize + 1)
  BY PagesFit DEF Pages!RowsFor
<1>3. Fetched = Pages!FirstOf(B, n)
  BY DEF Fetched
<1>. HIDE DEF B, n
<1>4. /\ Fetched \subseteq B /\ IsFiniteSet(Fetched) /\ Cardinality(Fetched) \in Nat
      /\ \A f \in B : \A g \in Fetched : Earlier(f, g) => f \in Fetched
      /\ Cardinality(Fetched) < n => Fetched = B
  BY <1>1, <1>2, <1>3, FirstFiles
<1>5. /\ Page \subseteq Fetched /\ IsFiniteSet(Page)
      /\ \A f \in Fetched : \A g \in Page : Earlier(f, g) => f \in Page
      /\ Cardinality(Fetched) <= PageSize => Page = Fetched
      /\ Fetched # {} => Page # {}
  <2>1. Fetched \in SUBSET Ids /\ PageSize \in Nat /\ PageSize > 0
    BY <1>1, <1>4, PagesFit
  <2>. QED
    BY <1>1, <1>4, <2>1, FirstFiles DEF Page
<1>6. ~(Cardinality(Fetched) <= PageSize) => Fetched # {}
  BY <1>4, FS_EmptySet, PagesFit
<1>7. \A f \in B \ Page : \A g \in Page : Earlier(g, f)
  BY <1>1, <1>4, <1>5, EarlierIsAnOrder
<1>8. Cardinality(Fetched) <= PageSize /\ PageSize < ListMax => Page = B
  BY <1>2, <1>4, <1>5, PagesFit
<1>. QED
  BY <1>1, <1>4, <1>5, <1>6, <1>7, <1>8 DEF B

(* What was shown before is not of a later millisecond than what comes. *)
LEMMA CursorMovesOn ==
  ASSUME PagesInv, walk.stage = "walking", NEW f \in Ids, walk.seen[f] > 0,
         NEW g \in Pages!Beyond(walk.cursor)
  PROVE  /\ Pages!Truncated(upload[f].at) <= walk.cursor.at
         /\ walk.cursor.at <= Pages!Truncated(upload[g].at)
         /\ walk.cursor.at = Pages!Truncated(upload[Pages!LastOf(walk.last)].at)
         /\ walk.cursor.at \in Nat /\ Placed(f)
<1>1. walk \in WalkRecord /\ UploadsType
  BY DEF PagesInv, PagesType
<1>2. walk.seen[f] # 0
  OBVIOUS
<1>3. PICK l \in Ids : /\ Top(walk.last, l) /\ walk.cursor.at = Pages!Truncated(upload[l].at)
                       /\ \A h \in Ids : walk.seen[h] > 0 =>
                            Placed(h) /\ Pages!Truncated(upload[h].at) <= walk.cursor.at
  BY <1>2 DEF PagesInv, WalksOn
<1>4. Pages!LastOf(walk.last) = l
  BY <1>1, <1>3, LastIsTop DEF WalkRecord
<1>5. g \in Ids /\ Pages!Before(walk.cursor.at, walk.cursor.id, upload[g].at, g)
  BY DEF Pages!Beyond, Pages!Files
<1>6. upload[l].at \in Nat /\ upload[g].at \in Nat
  BY <1>1, <1>5 DEF UploadsType
<1>7. walk.cursor.at \in Nat /\ walk.cursor.at <= upload[g].at
  BY <1>3, <1>5, <1>6, WholeMilliseconds DEF Pages!Before
<1>8. Pages!Truncated(walk.cursor.at) <= Pages!Truncated(upload[g].at)
  BY <1>6, <1>7, WholeMilliseconds
<1>9. Pages!Truncated(walk.cursor.at) = walk.cursor.at
  BY <1>3, <1>6, WholeMilliseconds
<1>. QED
  BY <1>3, <1>4, <1>7, <1>8, <1>9

LEMMA PageIsTurned ==
  ASSUME PagesInv, Pages!TurnPage
  PROVE  PagesInv'
<1>0. /\ walk.stage = "walking" /\ UNCHANGED <<time, upload>>
      /\ walk' = LET seen1 == [f \in Ids |-> walk.seen[f] + (IF f \in Page THEN 1 ELSE 0)]
                 IN  IF Cardinality(Fetched) <= PageSize
                     THEN [walk EXCEPT !.stage = "done", !.last = Page, !.seen = seen1]
                     ELSE [walk EXCEPT !.cursor = Pages!NextCursor(Page), !.last = Page,
                                       !.pages = walk.pages + 1, !.seen = seen1]
  <2>1. Pages!Cardinality(Fetched) = Cardinality(Fetched)
    BY PagesCount
  <2>. QED
    BY Zenon, <2>1 DEF Pages!TurnPage, Fetched, Page
<1>1. walk.stage = "walking" /\ time' = time /\ upload' = upload
  BY <1>0
<1>2. walk \in WalkRecord /\ UploadsType /\ time \in Nat /\ IsFiniteSet(Pages!Files)
  BY <1>1 DEF PagesInv, PagesType
<1>. DEFINE seen1 == [f \in Ids |-> walk.seen[f] + (IF f \in Page THEN 1 ELSE 0)]
            B == Pages!Beyond(walk.cursor)
<1>3. /\ Page \subseteq B /\ B \subseteq Pages!Files /\ Pages!Files \subseteq Ids /\ IsFiniteSet(Page)
      /\ Cardinality(Fetched) <= PageSize /\ PageSize < ListMax => Page = B
      /\ ~(Cardinality(Fetched) <= PageSize) => Page # {}
      /\ \A f \in B \ Page : \A g \in Page : Earlier(g, f)
  BY <1>1, PageIsTheFront DEF Pages!Files
<1>4. /\ \A f \in walk.had : Placed(f)
      /\ \A f \in walk.had \cap Pages!Files : walk.seen[f] > 0 \/ f \in B
  BY <1>1 DEF PagesInv, WalksOn
<1>5. /\ seen1 \in [Ids -> Nat]
      /\ \A f \in Ids : seen1[f] > 0 <=> walk.seen[f] > 0 \/ f \in Page
      /\ \A f \in Page : Placed(f) /\ Placed(f)'
  <2>1. \A f \in Ids : walk.seen[f] \in Nat
    BY <1>2 DEF WalkRecord
  <2>. QED
    BY <1>1, <1>3, <2>1 DEF Placed, Pages!Files
<1>6. UploadsType' /\ time' \in Nat /\ IsFiniteSet(Pages!Files') /\ Pages!Files' = Pages!Files
  BY <1>1, <1>2 DEF UploadsType, Pages!Files
<1>7. \A f : Placed(f)' <=> Placed(f)
  BY <1>1 DEF Placed
<1>. HIDE DEF seen1, B
<1>8. CASE Cardinality(Fetched) <= PageSize
  <2>1. walk' = [walk EXCEPT !.stage = "done", !.last = Page, !.seen = seen1]
    BY <1>0, <1>8 DEF seen1
  <2>2. walk' \in WalkRecord /\ walk'.stage = "done" /\ walk'.had = walk.had /\ walk'.seen = seen1
    BY <1>2, <1>3, <1>5, <2>1 DEF WalkRecord
  <2>3. ASSUME PageSize < ListMax, NEW f \in walk.had \cap Pages!Files PROVE seen1[f] > 0
    BY <1>3, <1>4, <1>5, <1>8, <2>3
  <2>4. PagesType' /\ WalksOn'
    BY <1>6, <2>2 DEF PagesType, WalksOn
  <2>5. WalkIsOver'
    BY <1>4, <1>6, <1>7, <2>2, <2>3 DEF WalkIsOver, Pages!NothingIsSkipped
  <2>. QED
    BY <2>4, <2>5 DEF PagesInv
<1>9. CASE ~(Cardinality(Fetched) <= PageSize)
  <2>1. PICK l \in Page : Top(Page, l)
    BY <1>2, <1>3, <1>9, FirstAndLast
  <2>2. Pages!LastOf(Page) = l /\ l \in Ids /\ l \in Nat /\ upload[l].at \in Nat
    BY <1>2, <1>3, <2>1, LastIsTop, PagesFit DEF UploadsType
  <2>. DEFINE t == Pages!Truncated(upload[l].at)
  <2>3. t \in Nat /\ t <= upload[l].at
    BY <2>2, WholeMilliseconds
  <2>4. walk' = [walk EXCEPT !.cursor = [at |-> t, id |-> l], !.last = Page,
                             !.pages = walk.pages + 1, !.seen = seen1]
    BY <1>0, <1>9, <2>2 DEF seen1, Pages!NextCursor
  <2>. HIDE DEF t
  <2>5. /\ walk' \in WalkRecord /\ walk'.stage = "walking" /\ walk'.had = walk.had
        /\ walk'.seen = seen1 /\ walk'.last = Page
        /\ walk'.cursor = [at |-> t, id |-> l] /\ walk'.cursor.at = t
    <3>1. walk.pages + 1 \in Nat
      BY <1>2 DEF WalkRecord
    <3>2. /\ walk' = [stage |-> "walking", cursor |-> [at |-> t, id |-> l], had |-> walk.had,
                      seen |-> seen1, last |-> Page, pages |-> walk.pages + 1]
          /\ walk.had \in SUBSET Ids
      BY <1>1, <1>2, <2>4 DEF WalkRecord
    <3>3. [at |-> t, id |-> l] \in [at : Nat \cup {-1}, id : Nat \cup {-1}] /\ Page \in SUBSET Ids
      BY <1>3, <2>2, <2>3
    <3>. QED
      BY <1>5, <3>1, <3>2, <3>3 DEF WalkRecord
  <2>6. ASSUME NEW f \in walk.had \cap Pages!Files PROVE seen1[f] > 0 \/ f \in Pages!Beyond(walk'.cursor)
    <3>. SUFFICES ASSUME f \in B, f \notin Page PROVE f \in Pages!Beyond(walk'.cursor)
      BY <1>3, <1>4, <1>5
    <3>1. Earlier(l, f)
      BY <1>3, <2>1
    <3>2. upload[f].at \in Nat /\ f \in Nat
      BY <1>2, <1>3, PagesFit DEF UploadsType
    <3>3. Pages!Before(t, l, upload[f].at, f)
      BY <2>2, <2>3, <3>1, <3>2 DEF Earlier, Pages!Before
    <3>. QED
      BY <2>5, <3>3 DEF Pages!Beyond
  <2>7. ASSUME NEW f \in Ids, seen1[f] > 0
        PROVE  Placed(f) /\ Pages!Truncated(upload[f].at) <= t
    <3>1. CASE f \in Page
      <4>1. upload[f].at \in Nat /\ upload[f].at <= upload[l].at
        BY <1>2, <2>1, <2>2, <3>1 DEF Top, Earlier, Pages!Before, UploadsType
      <4>. QED
        BY <1>5, <2>2, <3>1, <4>1, WholeMilliseconds DEF t
    <3>2. CASE walk.seen[f] > 0
      <4>1. /\ Pages!Truncated(upload[f].at) <= walk.cursor.at /\ walk.cursor.at <= t
            /\ walk.cursor.at \in Nat /\ Placed(f)
        BY <1>1, <1>3, <2>1, <3>2, CursorMovesOn DEF B, t
      <4>2. Pages!Truncated(upload[f].at) \in Nat
        BY <1>2, WholeMilliseconds DEF UploadsType
      <4>. QED
        BY <2>3, <4>1, <4>2
    <3>. QED
      BY <1>5, <2>7, <3>1, <3>2
  <2>8. PagesType' /\ WalkIsOver'
    BY <1>6, <2>5 DEF PagesType, WalkIsOver
  <2>9. /\ upload' = upload /\ Pages!Beyond(walk.cursor)' = Pages!Beyond(walk'.cursor)
        /\ Top(walk.last, l)'
    BY <1>1, <2>1, <2>5 DEF Pages!Beyond, Pages!Files, Top, Earlier
  <2>10. WalksOn'
    <3>1. /\ \A f \in walk'.had : Placed(f)'
          /\ \A f \in walk'.had \cap Pages!Files' :
               walk'.seen[f] > 0 \/ f \in Pages!Beyond(walk.cursor)'
      BY <1>4, <1>6, <1>7, <2>5, <2>6, <2>9
    <3>2. /\ Top(walk.last, l)' /\ walk'.cursor.at = Pages!Truncated(upload'[l].at)
          /\ \A f \in walk'.last : Placed(f)'
          /\ \A f \in Ids : walk'.seen[f] > 0 =>
               Placed(f)' /\ Pages!Truncated(upload'[f].at) <= walk'.cursor.at
      BY <1>5, <1>7, <2>5, <2>7, <2>9 DEF t
    <3>. QED
      BY <2>2, <3>1, <3>2 DEF WalksOn, Pages!Truncated, Pages!NoCursor
  <2>. QED
    BY <2>8, <2>10 DEF PagesInv
<1>. QED
  BY <1>8, <1>9

LEMMA PagesStep == PagesInv /\ Pages!PagingNext => PagesInv'
<1>. SUFFICES ASSUME PagesInv, Pages!PagingNext PROVE PagesInv'
  OBVIOUS
<1>1. UploadsType /\ time \in Nat /\ IsFiniteSet(Pages!Files)
  BY DEF PagesInv, PagesType
<1>2. ASSUME NEW f \in Ids, Pages!BeginInsert(f) \/ Pages!CommitInsert(f) \/ Pages!Remove(f)
      PROVE  PagesInv'
  <2>. DEFINE row == upload'[f]
  <2>1. /\ walk' = walk /\ time' = time /\ UploadsType'
        /\ \A g \in Ids \ {f} : upload'[g] = upload[g]
        /\ Placed(f) => Placed(f)' /\ upload'[f].at = upload[f].at
        /\ Placed(f) /\ f \in Pages!Files' => f \in Pages!Files
    BY <1>1, <1>2 DEF Pages!BeginInsert, Pages!CommitInsert, Pages!Remove, UploadsType, Placed, Pages!Files
  <2>2. Pages!Files' \subseteq Pages!Files \cup {f}
    BY <2>1 DEF Pages!Files
  <2>3. IsFiniteSet(Pages!Files')
    BY <1>1, <2>2, FS_AddElement, FS_Subset
  <2>4. /\ \A g \in Ids : Placed(g) => Placed(g)' /\ upload'[g].at = upload[g].at
        /\ \A g \in Ids : Placed(g) /\ g \in Pages!Files' => g \in Pages!Files
    BY <2>1 DEF Placed, Pages!Files
  <2>. QED
    BY <1>1, <2>1, <2>3, <2>4, FilesComeAndGo
<1>3. CASE Pages!PassTime
  <2>1. walk' = walk /\ upload' = upload /\ time' \in Nat
    BY <1>1, <1>3 DEF Pages!PassTime
  <2>2. UploadsType' /\ Pages!Files' = Pages!Files /\ \A f \in Ids : Placed(f)' <=> Placed(f)
    BY <1>1, <2>1 DEF UploadsType, Pages!Files, Placed
  <2>. QED
    BY <1>1, <2>1, <2>2, FilesComeAndGo
<1>4. CASE Pages!StartWalk
  <2>1. /\ walk' = [stage |-> "walking", cursor |-> Pages!NoCursor, had |-> Pages!Files,
                    seen |-> [f \in Ids |-> 0], last |-> {}, pages |-> 0]
        /\ time' = time /\ upload' = upload
    BY <1>4 DEF Pages!StartWalk
  <2>2. Pages!Files \subseteq Ids /\ \A f \in Pages!Files : Placed(f)
    BY DEF Pages!Files, Placed
  <2>3. /\ walk' \in WalkRecord /\ walk'.stage = "walking" /\ walk'.had = Pages!Files
        /\ walk'.cursor = Pages!NoCursor /\ walk'.seen = [f \in Ids |-> 0]
    BY <2>1, <2>2 DEF WalkRecord, Pages!NoCursor
  <2>4. PagesType' /\ WalkIsOver'
    BY <1>1, <2>1, <2>3 DEF PagesType, WalkIsOver, UploadsType, Pages!Files
  <2>5. \A f \in Pages!Files : f \in Pages!Beyond(walk'.cursor)
    <3>1. \A f \in Pages!Files : upload[f].at \in Nat
      BY <1>1, <2>2 DEF UploadsType
    <3>. QED
      BY <2>3, <3>1 DEF Pages!Beyond, Pages!NoCursor, Pages!Before
  <2>6. /\ Pages!Beyond(walk.cursor)' = Pages!Beyond(walk'.cursor) /\ Pages!Files' = Pages!Files
        /\ Pages!NoCursor' = Pages!NoCursor /\ \A f : Placed(f)' <=> Placed(f)
    BY <2>1 DEF Pages!Beyond, Pages!Files, Placed, Pages!NoCursor
  <2>7. WalksOn'
    BY <2>2, <2>3, <2>5, <2>6 DEF WalksOn
  <2>. QED
    BY <2>4, <2>7 DEF PagesInv
<1>. QED
  BY <1>2, <1>3, <1>4, PageIsTurned DEF Pages!PagingNext

(* Whoever turns the pages to the last of them sees every file that was there
   all along, and a file a second time only within one millisecond, for any
   number of files and any length of the pages (filelayer.ts, listFiles).   *)
THEOREM PagesStayComplete == Spec => PagesAreComplete
<1>1. (part = "pages" => PagesInv) /\ [Next]_vars => (part = "pages" => PagesInv)'
  <2>1. ASSUME PagesInv, UNCHANGED pages PROVE PagesInv'
    BY <2>1 DEF PagesInv, PagesType, UploadsType, WalksOn, WalkIsOver, pages, Pages!Files, Pages!Beyond,
                Placed, Top, Earlier, Pages!NothingIsSkipped, Pages!Truncated, Pages!NoCursor
  <2>2. [Next]_vars /\ part = "pages" => Pages!PagingNext \/ UNCHANGED pages
    BY DEF Next, vars, services, others, pages
  <2>. QED
    BY <2>1, <2>2, PagesStep, PartStands
<1>2. (part = "pages" => PagesInv) => (part = "pages" => Pages!NothingIsSkipped)
  BY DEF PagesInv, WalkIsOver, Pages!NothingIsSkipped
<1>3. (part = "pages" => PagesInv) /\ [Next]_vars =>
        [walk.stage = "walking" /\ walk' # walk =>
           \A f \in Ids : walk'.seen[f] > walk.seen[f] /\ walk.seen[f] > 0 =>
             Pages!Truncated(upload[f].at) = Pages!Truncated(upload[Pages!LastOf(walk.last)].at)]_<<time, upload, walk>>
  <2>. SUFFICES ASSUME part = "pages" => PagesInv, [Next]_vars, walk.stage = "walking",
                       walk' # walk, NEW f \in Ids, walk'.seen[f] > walk.seen[f], walk.seen[f] > 0
                PROVE  Pages!Truncated(upload[f].at) = Pages!Truncated(upload[Pages!LastOf(walk.last)].at)
    OBVIOUS
  <2>1. part = "pages" /\ Pages!PagingNext
    BY DEF Next, vars, services, others, pages
  <2>2. PagesInv /\ walk \in WalkRecord /\ UploadsType
    BY <2>1 DEF PagesInv, PagesType
  <2>3. Pages!TurnPage
    BY <2>1 DEF Pages!PagingNext, Pages!BeginInsert, Pages!CommitInsert, Pages!Remove, Pages!PassTime,
                Pages!StartWalk
  <2>4. f \in Page
    <3>1. walk'.seen = [g \in Ids |-> walk.seen[g] + (IF g \in Page THEN 1 ELSE 0)]
      BY <2>2, <2>3 DEF Pages!TurnPage, Fetched, Page, WalkRecord
    <3>2. walk.seen[f] \in Nat
      BY <2>2 DEF WalkRecord
    <3>. QED
      BY <3>1, <3>2
  <2>5. f \in Pages!Beyond(walk.cursor)
    BY <2>2, <2>4, PageIsTheFront
  <2>6. /\ Pages!Truncated(upload[f].at) <= walk.cursor.at
        /\ walk.cursor.at <= Pages!Truncated(upload[f].at)
        /\ walk.cursor.at = Pages!Truncated(upload[Pages!LastOf(walk.last)].at)
        /\ walk.cursor.at \in Nat
    BY <2>2, <2>5, CursorMovesOn
  <2>7. Pages!Truncated(upload[f].at) \in Nat
    BY <2>2, WholeMilliseconds DEF UploadsType
  <2>. QED
    BY <2>6, <2>7
<1>. QED
  BY <1>1, <1>2, <1>3, PagesBegin, PTL
     DEF Spec, PagesAreComplete, Pages!OnlyTheLastMillisecondRepeats, Pages!pagingVars
=============================================================================
