--------------------------- MODULE Serving_proofs ---------------------------
(***************************************************************************)
(* The replies of the static files, for every file system, request and       *)
(* Range header, and files that other programs change meanwhile; header       *)
(* actions in every order; and edits of any JSON value by any path.            *)
(***************************************************************************)
EXTENDS Serving, SequenceTheorems, FiniteSetTheorems, WellFoundedInduction, TLAPS

-----------------------------------------------------------------------------
(* Induction.  A set of naturals stands for the predicate: the provers take sets  *)
(* as they are, and no operators.                                            *)

LEMMA LeastNatural ==
  ASSUME NEW T, T \subseteq Nat, T # {}
  PROVE  \E n \in T : \A m \in T : n <= m
<1>1. IsWellFoundedOn(OpToRel(<, Nat), Nat)
  BY NatLessThanWellFounded, Zenon
<1>2. PICK n \in T : \A m \in T : ~(<<m, n>> \in OpToRel(<, Nat))
  BY <1>1, WFMin, Zenon
<1>3. \A m \in T : ~(m < n) BY <1>2 DEF OpToRel
<1> QED BY <1>3

LEMMA Induction ==
  ASSUME NEW S, 0 \in S, \A n \in Nat : n \in S => n + 1 \in S
  PROVE  Nat \subseteq S
<1> DEFINE T == Nat \ S
<1> SUFFICES ASSUME T # {} PROVE FALSE
  OBVIOUS
<1>1. PICK n \in T : \A m \in T : n <= m BY LeastNatural
<1> QED BY <1>1

LEMMA Downward ==
  ASSUME NEW n \in Nat, NEW T, n \in T, \A i \in 1 .. n - 1 : i + 1 \in T => i \in T
  PROVE  1 .. n \subseteq T
<1> DEFINE S == {j \in Nat : n - j >= 1 => n - j \in T}
<1>1. 0 \in S BY n - 0 = n
<1>2. ASSUME NEW j \in Nat, j \in S PROVE j + 1 \in S
  <2>1. CASE n - (j + 1) >= 1
    <3>1. n - (j + 1) \in 1 .. n - 1 /\ (n - (j + 1)) + 1 = n - j /\ n - j >= 1
      BY <2>1
    <3> QED BY <1>2, <3>1
  <2>2. CASE ~(n - (j + 1) >= 1) BY <2>2
  <2> QED BY <2>1, <2>2
<1> HIDE DEF S
<1>3. Nat \subseteq S BY <1>1, <1>2, Induction
<1>4. ASSUME NEW k \in 1 .. n PROVE k \in T
  <2>1. n - k \in S /\ n - (n - k) = k /\ k >= 1 BY <1>3
  <2> QED BY <2>1 DEF S
<1> QED BY <1>4

-----------------------------------------------------------------------------
(* The arithmetic of u64.                                                   *)

Word == 0 .. W - 1

LEMMA Reduced ==
  ASSUME NEW n \in Word
  PROVE  n % W = n /\ (n + W) % W = n
BY WordAssumption DEF Word

LEMMA DecrementedIs ==
  ASSUME NEW n \in Word
  PROVE  Decremented(n) = IF n = 0 THEN W - 1 ELSE n - 1
<1>1. CASE n = 0
  <2>1. n + W - 1 = W - 1 /\ W - 1 \in Word
    BY <1>1, WordAssumption DEF Word
  <2> QED BY <1>1, <2>1, Reduced DEF Decremented
<1>2. CASE n # 0
  <2>1. n + W - 1 = (n - 1) + W /\ n - 1 \in Word
    BY <1>2, WordAssumption DEF Word
  <2> QED BY <1>2, <2>1, Reduced DEF Decremented
<1> QED BY <1>1, <1>2

LEMMA OptionalIs ==
  ASSUME NEW o \in Optional(Word), o # <<>>
  PROVE  o[1] \in Word
BY DEF Optional

LEMMA ExtentIs ==
  ASSUME NEW from \in Word, NEW to \in Word, from <= to, to - from + 1 < W
  PROVE  Extent(from, to) = to - from + 1
<1>1. to - from + 1 \in Word /\ to + W - from + 1 = (to - from + 1) + W
  BY WordAssumption DEF Word
<1> QED BY <1>1, Reduced DEF Extent

\* The suffix of an empty file, as a build that lets it overflow has it.
LEMMA EmptySuffixIs == Extent(0, W - 1) = 0
<1>1. 0 \in Word BY WordAssumption DEF Word
<1>2. (0 + W) % W = 0 BY <1>1, Reduced
<1>3. W - 1 + W - 0 + 1 = (0 + W) + W BY WordAssumption
<1>4. ((0 + W) + W) % W = 0 BY <1>2, WordAssumption
<1> QED BY <1>3, <1>4 DEF Extent

\* A part that selects something selects bytes of the file.
LEMMA UsableRange ==
  ASSUME NEW p \in Parts, NEW n \in Word, Usable(p, n)
  PROVE  LET from == FirstByte(p, n)
             to == LastByte(p, n)
         IN /\ from \in Nat /\ Extent(from, to) \in Nat
            /\ n > 0 => from <= to /\ to < n /\ Extent(from, to) = to - from + 1
            /\ n = 0 => from = 0 /\ to = W - 1 /\ Extent(from, to) = 0
<1> DEFINE from == FirstByte(p, n)
           to == LastByte(p, n)
<1>1. /\ p.first # <<>> => p.first[1] \in Word
      /\ p.last # <<>> => p.last[1] \in Word
  BY OptionalIs DEF Parts, Word
<1>2. CASE n > 0
  <2>1. Decremented(n) = n - 1 /\ n - 1 \in Word
    BY <1>2, DecrementedIs, WordAssumption DEF Word
  <2>2. from \in Word /\ to \in Word /\ from <= to /\ to < n
    <3>1. CASE p.first # <<>> /\ p.last # <<>>
      BY <1>1, <1>2, <2>1, <3>1, WordAssumption DEF Usable, FirstByte, LastByte, Word
    <3>2. CASE p.first # <<>> /\ p.last = <<>>
      BY <1>1, <1>2, <2>1, <3>2, WordAssumption DEF Usable, FirstByte, LastByte, Word
    <3>3. CASE p.first = <<>>
      BY <1>1, <1>2, <2>1, <3>3, WordAssumption DEF Usable, FirstByte, LastByte, Word
    <3> QED BY <3>1, <3>2, <3>3
  <2>3. to - from + 1 < W /\ to - from + 1 \in Nat
    BY <2>2, WordAssumption DEF Word
  <2> HIDE DEF from, to
  <2> QED BY <1>2, <2>2, <2>3, ExtentIs DEF Word, from, to
<1>3. CASE n = 0
  <2>1. Decremented(n) = W - 1 /\ W - 1 \in Word
    BY <1>3, DecrementedIs, WordAssumption DEF Word
  <2>2. p.first = <<>> /\ from = 0 /\ to = W - 1
    BY <1>1, <1>3, <2>1 DEF Usable, FirstByte, LastByte, Word
  <2> QED BY <1>3, <2>2, EmptySuffixIs
<1> QED BY <1>2, <1>3 DEF Word

LEMMA SelectedIsUsable ==
  ASSUME NEW header \in RangeHeader, NEW n, NEW p \in Selected(header, n)
  PROVE  p \in Parts /\ Usable(p, n)
BY DEF Selected, RangeHeader

-----------------------------------------------------------------------------
(* The service.                                                             *)

\* A size that was read stays a size when the file has changed since; a reply is the
\* end of the request.
Served ==
  /\ fs \in Trees
  /\ size \in Word
  /\ request.range \in Seq(RangeHeader)
  /\ asked.range \in Seq(RangeHeader)
  /\ stage = "reading range" => asked.range # <<>>
  /\ reply.status \in {"200", "206"} => stage = "replied"

ServingInv == Served /\ RangesAreExact

LEMMA InitServing == ASSUME Init PROVE ServingInv
<1>1. PICK c \in Cases : request = c.request BY DEF Init
<1>2. request.range \in Seq(RangeHeader)
  BY <1>1, CasesAssumption
<1>3. asked.range = <<>> /\ <<>> \in Seq(RangeHeader)
  BY DEF Init, NoService
<1>4. size \in Word BY WordAssumption DEF Init, Word
<1>5. reply.status = "none" BY DEF Init, NoReply
<1> QED BY <1>2, <1>3, <1>4, <1>5 DEF Init, ServingInv, Served, RangesAreExact

\* A step that reads no file.
LEMMA QuietServing ==
  ASSUME ServingInv, UNCHANGED <<size, request>>, fs' \in Trees,
         asked'.range \in Seq(RangeHeader), stage # "replied",
         stage' = "reading range" => UNCHANGED <<stage, asked>>,
         UNCHANGED reply \/ reply'.status \notin {"200", "206"}
  PROVE  ServingInv'
<1>1. reply.status \notin {"200", "206"}
  BY DEF ServingInv, Served
<1>2. reply'.status \notin {"200", "206"} BY <1>1
<1> QED BY <1>2 DEF ServingInv, Served, RangesAreExact

LEMMA RoutesServing == ASSUME ServingInv, Routes PROVE ServingInv'
<1>1. asked'.range \in Seq(RangeHeader)
  BY DEF Routes, Asks, StaticService, ServingInv, Served
<1>2. stage' # "reading range" /\ UNCHANGED <<fs, size, request, reply>> /\ stage # "replied"
  BY DEF Routes, Asks
<1> QED BY <1>1, <1>2, QuietServing DEF ServingInv, Served

LEMMA SaysStatus == \A status : Says(status).status = status
BY DEF Says, NoReply

LEMMA CallsServing ==
  ASSUME ServingInv, NEW next, next # "reading range", Calls(next),
         UNCHANGED reply \/ reply'.status \notin {"200", "206"}
  PROVE  ServingInv'
BY QuietServing DEF Calls, ServingInv, Served

LEMMA OtherServing ==
  ASSUME ServingInv,
         \/ Mocks \/ Rewrites \/ RewriteFails
         \/ \E actions \in Transforms : TransformsHeaders(actions)
         \/ \E mapping \in Mappings : MapsPath(mapping)
         \/ \E service \in Services : AnswersMock(service)
         \/ \E rule \in Rules : AppliesRule(rule)
  PROVE  ServingInv'
<1>1. CASE Mocks
  <2>1. reply'.status \in {"error", "mock"}
    BY <1>1, SaysStatus DEF Mocks, Replies, Says, NoReply
  <2> QED BY <1>1, <2>1, QuietServing DEF Mocks, Replies, ServingInv, Served
<1>2. CASE Rewrites
  BY <1>2, QuietServing DEF Rewrites, ServingInv, Served
<1>3. CASE RewriteFails
  BY <1>3, SaysStatus, QuietServing DEF RewriteFails, Replies, ServingInv, Served
<1>4. ASSUME NEW actions \in Transforms, TransformsHeaders(actions) PROVE ServingInv'
  BY <1>4, CallsServing DEF TransformsHeaders
<1>5. ASSUME NEW mapping \in Mappings, MapsPath(mapping) PROVE ServingInv'
  BY <1>5, CallsServing DEF MapsPath
<1>6. ASSUME NEW service \in Services, AnswersMock(service) PROVE ServingInv'
  <2>1. reply'.status \in {"none", "mock"}
    BY <1>6, SaysStatus DEF AnswersMock, Says, NoReply
  <2> QED BY <1>6, <2>1, CallsServing DEF AnswersMock
<1>7. ASSUME NEW rule \in Rules, AppliesRule(rule) PROVE ServingInv'
  <2>1. reply'.status = "mock"
    BY <1>7 DEF AppliesRule, Says, NoReply
  <2> QED BY <1>7, <2>1, CallsServing DEF AppliesRule
<1> QED BY <1>1, <1>2, <1>3, <1>4, <1>5, <1>6, <1>7

-----------------------------------------------------------------------------
\* The bytes of a file.
LEMMA FileIs ==
  ASSUME fs \in Trees, NEW path, NEW p \in Real(path)
  PROVE  fs[p].bytes \in Seq(0 .. 255) /\ Len(fs[p].bytes) \in Word
<1>1. p \in DOMAIN fs BY DEF Real, RealIn
<1>2. fs[p].bytes \in Seq(0 .. 255) /\ Len(fs[p].bytes) < W
  BY <1>1, TreesAssumption
<1>3. Len(fs[p].bytes) \in Nat BY <1>2, LenProperties
<1> QED BY <1>2, <1>3, WordAssumption DEF Word

LEMMA SizesServing == ASSUME ServingInv, Sizes, UNCHANGED request PROVE ServingInv'
<1>1. size' \in Word BY FileIs DEF Sizes, ServingInv, Served
<1>2. /\ UNCHANGED <<fs, asked>>
      /\ stage' = "reading range" => asked.range # <<>>
      /\ UNCHANGED reply \/ reply'.status \notin {"200", "206"}
      /\ stage # "replied"
  BY SaysStatus DEF Sizes, Replies
<1>3. reply'.status \notin {"200", "206"}
  BY <1>2 DEF ServingInv, Served
<1> QED BY <1>1, <1>2, <1>3 DEF ServingInv, Served, RangesAreExact

LEMMA ReadsServing == ASSUME ServingInv, Reads, UNCHANGED request PROVE ServingInv'
<1>1. UNCHANGED <<fs, asked, size>> /\ stage' = "replied"
  BY DEF Reads, Replies
<1>2. CASE reply' = Says("error")
  BY <1>1, <1>2, SaysStatus DEF ServingInv, Served, RangesAreExact
<1>3. ASSUME NEW b, reply' = [Says("200") EXCEPT !.bytes = b, !.length = Len(b)]
      PROVE  ServingInv'
  <2>1. reply'.status = "200" /\ reply'.bytes = b /\ reply'.length = Len(b)
    BY <1>3 DEF Says, NoReply
  <2> QED BY <1>1, <2>1 DEF ServingInv, Served, RangesAreExact
<1> QED BY <1>2, <1>3 DEF Reads, Replies

LEMMA FirstElement ==
  ASSUME NEW S, NEW s \in Seq(S), s # <<>>
  PROVE  s[1] \in S
<1>1. Len(s) \in Nat \ {0} BY EmptySeq
<1>2. 1 \in 1 .. Len(s) BY <1>1
<1> QED BY <1>2, ElementOfSeq

LEMMA ReadsRangeServing == ASSUME ServingInv, ReadsRange, UNCHANGED request PROVE ServingInv'
<1>1. UNCHANGED <<fs, asked, size>> /\ stage' = "replied" /\ asked.range # <<>>
  BY DEF ReadsRange, Replies, ServingInv, Served
<1>2. CASE reply' = Says("error")
  BY <1>1, <1>2, SaysStatus DEF ServingInv, Served, RangesAreExact
<1>3. ASSUME NEW p \in Real(place), NEW range \in Selected(asked.range[1], size)
      PROVE  LET from == FirstByte(range, size)
                 to == LastByte(range, size)
                 length == Extent(from, to)
             IN ~(length > 0 /\ from + length > Len(fs[p].bytes)) /\
                reply' = [status |-> "206", length |-> length, from |-> from, to |-> to,
                          bytes |-> SubSeq(fs[p].bytes, from + 1, from + length)]
                => ServingInv'
  <2> DEFINE from == FirstByte(range, size)
             to == LastByte(range, size)
             length == Extent(from, to)
             file == fs[p].bytes
  <2>1. size \in Word /\ asked.range[1] \in RangeHeader
    <3>1. size \in Word /\ asked.range \in Seq(RangeHeader)
      BY DEF ServingInv, Served
    <3> QED BY <1>1, <3>1, FirstElement
  <2>2. range \in Parts /\ Usable(range, size)
    BY <2>1, SelectedIsUsable
  <2>3. /\ from \in Nat /\ length \in Nat
        /\ size > 0 => from <= to /\ to < size /\ length = to - from + 1
        /\ size = 0 => from = 0 /\ to = W - 1 /\ length = 0
    BY <2>1, <2>2, UsableRange
  <2>4. file \in Seq(0 .. 255) /\ Len(file) \in Nat
    <3>1. fs \in Trees BY DEF ServingInv, Served
    <3> QED BY <3>1, FileIs, LenProperties
  <2> HIDE DEF from, to, length, file
  <2>5. SUFFICES ASSUME ~(length > 0 /\ from + length > Len(file)),
                        reply' = [status |-> "206", length |-> length, from |-> from,
                                  to |-> to, bytes |-> SubSeq(file, from + 1, from + length)]
                 PROVE  ServingInv'
    BY DEF from, to, length, file
  <2>6. Len(SubSeq(file, from + 1, from + length)) = length
    <3>1. CASE length = 0
      BY <2>3, <2>4, <3>1, SubSeqProperties
    <3>2. CASE length # 0
      BY <2>3, <2>4, <2>5, <3>2, SubSeqProperties
    <3> QED BY <3>1, <3>2
  <2>7. /\ reply'.status = "206" /\ Len(reply'.bytes) = reply'.length
        /\ reply'.from = from /\ reply'.to = to /\ reply'.length = length
    BY <2>5, <2>6
  <2>8. RangesAreExact'
    BY <1>1, <2>3, <2>7 DEF RangesAreExact
  <2> QED BY <1>1, <2>8 DEF ServingInv, Served
<1> QED BY <1>2, <1>3 DEF ReadsRange, Replies

LEMMA StaticServing ==
  ASSUME ServingInv, StaticSteps, UNCHANGED request
  PROVE  ServingInv'
<1>1. CASE Resolves
  BY <1>1, QuietServing DEF Resolves, ServingInv, Served
<1>2. CASE Checks
  BY <1>2, QuietServing, SaysStatus DEF Checks, Replies, ServingInv, Served
<1>3. CASE Rearranges
  BY <1>3, QuietServing DEF Rearranges, ServingInv, Served
<1> QED BY <1>1, <1>2, <1>3, SizesServing, ReadsServing, ReadsRangeServing DEF StaticSteps

LEMMA NextServing == ASSUME ServingInv, [Next]_vars PROVE ServingInv'
<1>1. CASE UNCHANGED vars
  BY <1>1 DEF vars, staticVars, ServingInv, Served, RangesAreExact
<1>2. CASE Serves BY <1>2, StaticServing DEF Serves
<1> QED BY <1>1, <1>2, RoutesServing, OtherServing DEF Next

\* Whatever the files are when they are read, a reply has as many bytes as it declares
\* and names the bytes it carries (serve_range_request, read_file_range).
THEOREM RepliesAreExact == Spec => []RangesAreExact
<1>1. ServingInv => RangesAreExact BY DEF ServingInv
<1> QED BY <1>1, InitServing, NextServing, PTL DEF Spec

-----------------------------------------------------------------------------
(* The root of a static location.                                            *)

\* The file a reply is about, once it has been checked.
Checked ==
  \/ stage \in {"sizing", "reading", "reading range"}
  \/ stage = "replied" /\ FileSent
UnchangedSince == changes \subseteq {"resolving", "checking"}
InsideInv ==
  /\ FileSent => stage = "replied"
  /\ Checked /\ UnchangedSince => FileInside(place)

LEMMA InsideIsStable ==
  ASSUME UNCHANGED <<fs, asked, place>>
  PROVE  FileInside(place)' <=> FileInside(place)
BY DEF FileInside, Real

LEMMA InitInside == ASSUME Init PROVE InsideInv
BY DEF Init, InsideInv, Checked, FileSent, NoReply

\* A step that sends no file, and after which none has been checked.
LEMMA QuietInside ==
  ASSUME InsideInv, ~Checked',
         \/ reply'.status \notin {"200", "206"}
         \/ UNCHANGED reply /\ stage # "replied"
  PROVE  InsideInv'
BY DEF InsideInv, FileSent, Checked

\* A step of the service on the file it has checked.
LEMMA SameFileInside ==
  ASSUME InsideInv, Checked, UNCHANGED <<fs, changes, asked, place>>,
         FileSent' => stage' = "replied"
  PROVE  InsideInv'
BY InsideIsStable DEF InsideInv, UnchangedSince

LEMMA ChecksInside == ASSUME InsideInv, Checks PROVE InsideInv'
<1>1. UNCHANGED <<fs, changes, asked>> /\ stage = "checking" /\ ~FileSent
  BY DEF Checks, InsideInv
<1>2. CASE stage' = "sizing"
  <2>1. PICK root \in Real(asked.root), p \in Real(place) :
          place' = <<Top>> \o p /\ IsPrefix(root, p) /\ fs[p].kind = "file" /\ UNCHANGED reply
    BY <1>2 DEF Checks, Replies
  <2>2. p \in DOMAIN fs BY DEF Real, RealIn
  <2>3. FileInside(place') BY <2>1, <2>2 DEF FileInside
  <2>4. FileInside(place)'
    BY <1>1, <2>3 DEF FileInside, Real
  <2> QED BY <1>1, <2>1, <2>4 DEF InsideInv, FileSent
<1>3. CASE stage' # "sizing"
  <2>1. stage' = "replied" /\ reply'.status \notin {"200", "206"}
    BY <1>3, SaysStatus DEF Checks, Replies
  <2> QED BY <1>1, <2>1, QuietInside DEF InsideInv, Checked, FileSent
<1> QED BY <1>2, <1>3

LEMMA StaticInside == ASSUME InsideInv, StaticSteps PROVE InsideInv'
<1>1. CASE Resolves
  BY <1>1, QuietInside DEF Resolves, InsideInv, Checked, FileSent
<1>2. CASE Sizes
  <2>1. Checked /\ UNCHANGED <<fs, changes, asked, place>>
    BY <1>2 DEF Sizes, Checked
  <2>2. FileSent' => stage' = "replied"
    <3>1. ~FileSent BY <1>2 DEF Sizes, InsideInv
    <3>2. UNCHANGED reply \/ stage' = "replied"
      BY <1>2 DEF Sizes, Replies
    <3> QED BY <3>1, <3>2 DEF FileSent
  <2> QED BY <2>1, <2>2, SameFileInside
<1>3. CASE Reads \/ ReadsRange
  <2>1. Checked /\ UNCHANGED <<fs, changes, asked, place>> /\ stage' = "replied"
    BY <1>3 DEF Reads, ReadsRange, Replies, Checked
  <2> QED BY <2>1, SameFileInside
<1>4. CASE Rearranges
  <2>1. stage \in changes' /\ UNCHANGED <<stage, reply>>
    BY <1>4 DEF Rearranges
  <2>2. stage # "replied" BY <1>4 DEF Rearranges
  <2>3. ~(Checked' /\ UnchangedSince')
    BY <2>1, <2>2 DEF Checked, UnchangedSince
  <2> QED BY <2>1, <2>3 DEF InsideInv, FileSent
<1> QED BY <1>1, <1>2, <1>3, <1>4, ChecksInside DEF StaticSteps

LEMMA CallsInside ==
  ASSUME InsideInv, NEW next \in {"transformed", "mapped", "replied"}, Calls(next),
         \/ reply'.status \notin {"200", "206"}
         \/ UNCHANGED reply
  PROVE  InsideInv'
<1>1. stage = "idle" /\ reply.status \notin {"200", "206"}
  BY DEF Calls, InsideInv, FileSent
<1>2. reply'.status \notin {"200", "206"} /\ stage' = next
  BY <1>1 DEF Calls
<1> QED BY <1>1, <1>2, QuietInside DEF Checked, FileSent

LEMMA NextInside == ASSUME InsideInv, [Next]_vars PROVE InsideInv'
<1>1. CASE UNCHANGED vars
  <2>1. UNCHANGED <<fs, changes, stage, asked, place, reply>>
    BY <1>1 DEF vars, staticVars
  <2>2. (Checked' <=> Checked) /\ (FileSent' <=> FileSent)
    BY <2>1 DEF Checked, FileSent
  <2>3. FileInside(place)' <=> FileInside(place)
    BY <2>1, InsideIsStable
  <2> QED BY <2>1, <2>2, <2>3 DEF InsideInv, UnchangedSince
<1>2. CASE Routes
  <2>1. UNCHANGED reply /\ stage = "idle" /\ stage' \in {"resolving", "sleeping", "rewriting"}
    BY <1>2 DEF Routes, Asks
  <2>2. ~Checked' BY <2>1 DEF Checked
  <2> QED BY <2>1, <2>2, QuietInside
<1>3. CASE Mocks
  <2>1. reply'.status \in {"error", "mock"}
    BY <1>3, SaysStatus DEF Mocks, Replies, Says, NoReply
  <2> QED BY <1>3, <2>1, QuietInside DEF Mocks, Replies, InsideInv, Checked, FileSent
<1>4. CASE Rewrites
  BY <1>4, QuietInside DEF Rewrites, InsideInv, Checked, FileSent
<1>5. CASE RewriteFails
  BY <1>5, SaysStatus, QuietInside DEF RewriteFails, Replies, InsideInv, Checked, FileSent
<1>6. CASE Serves BY <1>6, StaticInside DEF Serves
<1>7. ASSUME NEW actions \in Transforms, TransformsHeaders(actions) PROVE InsideInv'
  BY <1>7, CallsInside DEF TransformsHeaders
<1>8. ASSUME NEW mapping \in Mappings, MapsPath(mapping) PROVE InsideInv'
  BY <1>8, CallsInside DEF MapsPath
<1>9. ASSUME NEW service \in Services, AnswersMock(service) PROVE InsideInv'
  <2>1. reply'.status \in {"none", "mock"}
    BY <1>9, SaysStatus DEF AnswersMock, Says, NoReply
  <2> QED BY <1>9, <2>1, CallsInside DEF AnswersMock
<1>10. ASSUME NEW rule \in Rules, AppliesRule(rule) PROVE InsideInv'
  <2>1. reply'.status = "mock"
    BY <1>10 DEF AppliesRule, Says, NoReply
  <2> QED BY <1>10, <2>1, CallsInside DEF AppliesRule
<1> QED BY <1>1, <1>2, <1>3, <1>4, <1>5, <1>6, <1>7, <1>8, <1>9, <1>10 DEF Next

\* Whatever the path, its escapes, its dots and the links on the way, and whatever other
\* programs change up to the check, a file that is sent lies below the location's root
\* (canonicalize_path, the starts_with of handle_request).  It says nothing of a reply
\* before whose read a file changed after the check: that race is in the code.
THEOREM NothingOutsideIsServed == Spec => []FilesStayInside
<1>1. InsideInv => FilesStayInside
  BY DEF InsideInv, FilesStayInside, StaticReply, Checked, UnchangedSince
<1> QED BY <1>1, InitInside, NextInside, PTL DEF Spec

-----------------------------------------------------------------------------
(* Header actions in some order.                                            *)

\* What an action does to the headers, and the headers after the first n.
Step(headers, a, conditional) ==
  IF conditional => ConditionHolds(a.condition, headers) THEN Acted(headers, a) ELSE headers
Follows(g, headers, order, conditional, n) ==
  g = [k \in 0 .. n |-> IF k = 0 THEN headers ELSE Step(g[k - 1], order[k], conditional)]

LEMMA FollowsExists ==
  ASSUME NEW headers, NEW order, NEW conditional
  PROVE  \A n \in Nat : \E g : Follows(g, headers, order, conditional, n)
<1> DEFINE S == {n \in Nat : \E g : Follows(g, headers, order, conditional, n)}
<1>1. 0 \in S
  <2> DEFINE g == [k \in 0 .. 0 |-> headers]
  <2>1. Follows(g, headers, order, conditional, 0)
    BY DEF Follows
  <2> QED BY <2>1
<1>2. ASSUME NEW n \in Nat, n \in S PROVE n + 1 \in S
  <2>1. PICK g : Follows(g, headers, order, conditional, n)
    BY <1>2
  <2> DEFINE next == Step(g[n], order[n + 1], conditional)
             h == [k \in 0 .. n + 1 |-> IF k = n + 1 THEN next ELSE g[k]]
  <2> HIDE DEF next
  <2>2. ASSUME NEW k \in 0 .. n + 1
        PROVE  h[k] = IF k = 0 THEN headers ELSE Step(h[k - 1], order[k], conditional)
    <3>1. CASE k = n + 1
      <4>1. h[k] = next /\ h[k - 1] = g[n] BY <3>1
      <4> QED BY <3>1, <4>1 DEF next
    <3>2. CASE k # n + 1
      <4>1. h[k] = g[k] /\ (k # 0 => h[k - 1] = g[k - 1])
        BY <3>2
      <4>2. g[k] = IF k = 0 THEN headers ELSE Step(g[k - 1], order[k], conditional)
        BY <2>1, <3>2 DEF Follows
      <4> QED BY <4>1, <4>2
    <3> QED BY <3>1, <3>2
  <2>3. Follows(h, headers, order, conditional, n + 1)
    BY <2>2 DEF Follows
  <2> HIDE DEF h
  <2> QED BY <2>3
<1> HIDE DEF S
<1>3. Nat \subseteq S BY <1>1, <1>2, Induction
<1> QED BY <1>3 DEF S

LEMMA ActsFollow ==
  ASSUME NEW headers, NEW order, NEW conditional, Len(order) \in Nat
  PROVE  \E g : /\ Follows(g, headers, order, conditional, Len(order))
                /\ Acts(headers, order, conditional) = g[Len(order)]
<1> DEFINE n == Len(order)
           g == CHOOSE f : Follows(f, headers, order, conditional, n)
<1>1. Acts(headers, order, conditional) = g[n]
  BY DEF Acts, Follows, Step
<1>2. Follows(g, headers, order, conditional, n)
  BY FollowsExists
<1> QED BY <1>1, <1>2

\* What an action makes of a header.
LEMMA ActedLeaves ==
  ASSUME NEW headers, NEW a, NEW h
  PROVE  /\ a.name # h \/ h = "invalid" => Value(Acted(headers, a), h) = Value(headers, h)
         /\ a.name = h /\ h # "invalid" /\ a.action = "forceDelete" => Value(Acted(headers, a), h) = {}
         /\ a.name = h /\ h # "invalid" /\ a.action # "forceDelete" =>
              \/ Value(Acted(headers, a), h) = {a.value} /\ Writes(a)
              \/ Value(Acted(headers, a), h) = Value(headers, h) /\ ~Settles(a)
BY DEF Value, Acted, Without, With, Writes, Settles

\* An order has every action, once.
LEMMA OrderIs ==
  ASSUME NEW S, IsFiniteSet(S), NEW order \in Orders(S)
  PROVE  /\ Len(order) \in Nat
         /\ \A i \in 1 .. Len(order) : order[i] \in S
         /\ \A i, j \in 1 .. Len(order) : i # j => order[i] # order[j]
         /\ \A a \in S : \E i \in 1 .. Len(order) : order[i] = a
<1> DEFINE n == Cardinality(S)
<1>1. n \in Nat BY FS_CardinalityType
<1>2. order \in [1 .. n -> S] /\ \A i, j \in 1 .. n : i # j => order[i] # order[j]
  BY DEF Orders
<1>3. Len(order) = n BY <1>1, <1>2
<1>4. IsFiniteSet(1 .. n) /\ Cardinality(1 .. n) = n
  BY <1>1, FS_Interval
<1>5. order \in Injection(1 .. n, S)
  BY <1>2 DEF Injection, IsInjective
<1>6. order \in Surjection(1 .. n, S)
  BY <1>4, <1>5, FS_Injection
<1> QED BY <1>1, <1>2, <1>3, <1>6 DEF Surjection

\* A header after the first k actions of an order.
SoFar(now, headers, order, actions, surely, h, k) ==
  /\ (\A i \in 1 .. k : order[i] \notin Naming(actions, h)) => Value(now, h) = Value(headers, h)
  /\ (\E i \in 1 .. k : order[i] \in Naming(actions, h) \cap surely /\ Settles(order[i])) =>
       /\ Value(now, h) \subseteq {a.value : a \in {b \in Naming(actions, h) : Writes(b)}}
       /\ Value(now, h) = {} => \E a \in Naming(actions, h) : a.action = "forceDelete"

\* Some of the actions are passed over for their conditions, but none of these.
Surely(surely, conditional) == conditional => \A a \in surely : a.condition = <<>>

LEMMA SoFarNext ==
  ASSUME NEW actions, NEW surely, NEW conditional, Surely(surely, conditional),
         NEW headers, NEW order, NEW h, NEW k \in Nat, order[k + 1] \in actions,
         NEW now, SoFar(now, headers, order, actions, surely, h, k)
  PROVE  SoFar(Step(now, order[k + 1], conditional), headers, order, actions, surely, h, k + 1)
<1> DEFINE a == order[k + 1]
           own == Naming(actions, h)
           given == {b.value : b \in {c \in own : Writes(c)}}
           next == Step(now, a, conditional)
<1>1. a \in own <=> a.name = h /\ h # "invalid"
  BY DEF Naming
<1>2. next = Acted(now, a) \/ next = now BY DEF Step
<1>3. a \in surely => next = Acted(now, a)
  BY DEF Step, Surely, ConditionHolds
<1>4. a \notin own => Value(next, h) = Value(now, h)
  BY <1>1, <1>2, ActedLeaves
<1>5. a \in own =>
        \/ Value(next, h) = {} /\ a.action = "forceDelete"
        \/ Value(next, h) = {a.value} /\ a.value \in given
        \/ Value(next, h) = Value(now, h) /\ ~(a \in surely /\ Settles(a))
  <2> SUFFICES ASSUME a \in own
               PROVE  \/ Value(next, h) = {} /\ a.action = "forceDelete"
                      \/ Value(next, h) = {a.value} /\ a.value \in given
                      \/ Value(next, h) = Value(now, h) /\ ~(a \in surely /\ Settles(a))
    OBVIOUS
  <2>1. a.name = h /\ h # "invalid" BY <1>1
  <2>2. CASE next # Acted(now, a) BY <1>2, <1>3, <2>2
  <2>3. CASE next = Acted(now, a)
    <3>1. CASE a.action = "forceDelete"
      BY <2>1, <2>3, <3>1, ActedLeaves
    <3>2. CASE a.action # "forceDelete"
      <4>1. Writes(a) => a.value \in given OBVIOUS
      <4> QED BY <2>1, <2>3, <3>2, <4>1, ActedLeaves
    <3> QED BY <3>1, <3>2
  <2> QED BY <2>2, <2>3
<1>6. \A i \in 1 .. k + 1 : i \in 1 .. k \/ i = k + 1
  OBVIOUS
<1>7. \A i \in 1 .. k : i \in 1 .. k + 1 OBVIOUS
<1>8. k + 1 \in 1 .. k + 1 OBVIOUS
<1> HIDE DEF next, own, given
<1>9. (\A i \in 1 .. k + 1 : order[i] \notin own) => Value(next, h) = Value(headers, h)
  BY <1>4, <1>7, <1>8 DEF SoFar, own
<1>10. ASSUME \E i \in 1 .. k + 1 : order[i] \in own \cap surely /\ Settles(order[i])
       PROVE  /\ Value(next, h) \subseteq given
              /\ Value(next, h) = {} => \E b \in own : b.action = "forceDelete"
  <2>1. CASE \E i \in 1 .. k : order[i] \in own \cap surely /\ Settles(order[i])
    <3>1. /\ Value(now, h) \subseteq given
          /\ Value(now, h) = {} => \E b \in own : b.action = "forceDelete"
      BY <2>1 DEF SoFar, own, given
    <3> QED BY <1>4, <1>5, <3>1
  <2>2. CASE ~\E i \in 1 .. k : order[i] \in own \cap surely /\ Settles(order[i])
    <3>1. a \in own /\ a \in surely /\ Settles(a)
      BY <1>6, <1>10, <2>2
    <3> QED BY <1>5, <3>1
  <2> QED BY <2>1, <2>2
<1> QED BY <1>9, <1>10 DEF SoFar, next, own, given

\* In whatever order, actions leave of a header what one of them makes of it.
LEMMA ActsLeave ==
  ASSUME NEW actions, IsFiniteSet(actions), NEW surely, NEW conditional, Surely(surely, conditional),
         NEW headers, NEW order \in Orders(actions), NEW h
  PROVE  LeftBy(actions, surely, Value(headers, h), Value(Acts(headers, order, conditional), h), h)
<1> DEFINE n == Len(order)
<1>1. /\ n \in Nat
      /\ \A i \in 1 .. n : order[i] \in actions
      /\ \A a \in actions : \E i \in 1 .. n : order[i] = a
  BY OrderIs
<1>2. PICK g : /\ Follows(g, headers, order, conditional, n)
               /\ Acts(headers, order, conditional) = g[n]
  BY <1>1, ActsFollow
<1> HIDE DEF n
<1> DEFINE S == {k \in Nat : k <= n => SoFar(g[k], headers, order, actions, surely, h, k)}
<1>3. 0 \in S
  <2>1. g[0] = headers BY <1>1, <1>2 DEF Follows
  <2> QED BY <2>1 DEF SoFar
<1>4. ASSUME NEW k \in Nat, k \in S PROVE k + 1 \in S
  <2> SUFFICES ASSUME k + 1 <= n PROVE SoFar(g[k + 1], headers, order, actions, surely, h, k + 1)
    OBVIOUS
  <2>1. k \in 0 .. n - 1 /\ k + 1 \in 1 .. n /\ SoFar(g[k], headers, order, actions, surely, h, k)
    BY <1>1, <1>4
  <2>2. g[k + 1] = Step(g[k], order[k + 1], conditional)
    BY <1>1, <1>2, <2>1 DEF Follows
  <2>3. order[k + 1] \in actions BY <1>1, <2>1
  <2>4. SoFar(Step(g[k], order[k + 1], conditional), headers, order, actions, surely, h, k + 1)
    BY <2>1, <2>3, SoFarNext
  <2> QED BY <2>2, <2>4
<1> HIDE DEF S
<1>5. n \in S BY <1>1, <1>3, <1>4, Induction
<1>6. SoFar(g[n], headers, order, actions, surely, h, n)
  BY <1>1, <1>5 DEF S
<1>7. Naming(actions, h) = {} => Value(g[n], h) = Value(headers, h)
  BY <1>6 DEF SoFar
<1>8. ASSUME \E a \in Naming(actions, h) \cap surely : Settles(a)
      PROVE  /\ Value(g[n], h) \subseteq {a.value : a \in {b \in Naming(actions, h) : Writes(b)}}
             /\ Value(g[n], h) = {} => \E a \in Naming(actions, h) : a.action = "forceDelete"
  <2>1. PICK a \in Naming(actions, h) \cap surely : Settles(a)
    BY <1>8
  <2>2. a \in actions BY DEF Naming
  <2>3. PICK i \in 1 .. n : order[i] = a BY <1>1, <2>2
  <2> QED BY <1>6, <2>1, <2>3 DEF SoFar
<1> QED BY <1>2, <1>7, <1>8 DEF LeftBy

-----------------------------------------------------------------------------
(* The steps that act on headers.                                            *)

Given ==
  /\ \E c \in Cases : engine = c.engine /\ request = c.request
  /\ chosen # 0 => chosen \in DOMAIN engine.locations

LEMMA LocationsAreNumbered == ASSUME Given PROVE DOMAIN engine.locations \subseteq Nat \ {0}
<1>1. PICK c \in Cases : engine = c.engine BY DEF Given
<1>2. c.engine.locations \in Seq(ToSet(c.engine.locations))
  BY CasesAssumption
<1>3. DOMAIN c.engine.locations = 1 .. Len(c.engine.locations)
  BY <1>2, LenProperties
<1> QED BY <1>1, <1>3

LEMMA ChosenIsALocation ==
  ASSUME Given, Chosen(engine, request) # 0
  PROVE  /\ Chosen(engine, request) \in DOMAIN engine.locations
         /\ Matches(engine.locations[Chosen(engine, request)], request.path)
         /\ engine.locations[Chosen(engine, request)].provider = "mock" =>
              AllHold(engine.locations[Chosen(engine, request)].conditions, request.path,
                      request.query, request.headers, <<>>)
<1> DEFINE takes == {i \in DOMAIN engine.locations :
                  /\ Matches(engine.locations[i], request.path)
                  /\ engine.locations[i].provider = "mock" =>
                       AllHold(engine.locations[i].conditions, request.path, request.query,
                               request.headers, <<>>)}
<1>1. takes \subseteq Nat /\ takes \subseteq DOMAIN engine.locations
  BY LocationsAreNumbered
<1>2. Chosen(engine, request) = IF takes = {} THEN 0 ELSE Min(takes)
  BY DEF Chosen
<1>6. \A i \in takes :
        /\ Matches(engine.locations[i], request.path)
        /\ engine.locations[i].provider = "mock" =>
             AllHold(engine.locations[i].conditions, request.path, request.query,
                     request.headers, <<>>)
  OBVIOUS
<1> HIDE DEF takes
<1>3. takes # {} /\ Chosen(engine, request) = Min(takes)
  BY <1>2
<1>4. \E x \in takes : \A y \in takes : x <= y
  BY <1>1, <1>3, LeastNatural
<1>5. Min(takes) \in takes BY <1>4 DEF Min
<1>7. Chosen(engine, request) \in takes BY <1>3, <1>5
<1>8. /\ Matches(engine.locations[Chosen(engine, request)], request.path)
      /\ engine.locations[Chosen(engine, request)].provider = "mock" =>
           AllHold(engine.locations[Chosen(engine, request)].conditions, request.path,
                   request.query, request.headers, <<>>)
  BY <1>6, <1>7
<1>9. Chosen(engine, request) \in DOMAIN engine.locations
  BY <1>1, <1>7
<1> QED BY <1>8, <1>9

LEMMA InitGiven == ASSUME Init PROVE Given
BY DEF Init, Given

LEMMA NextGiven == ASSUME Given, [Next]_vars PROVE Given'
<1>1. CASE Routes
  BY <1>1, ChosenIsALocation DEF Routes, Given
<1>2. CASE UNCHANGED <<engine, request, chosen>>
  BY <1>2 DEF Given
<1>3. ASSUME ~Routes PROVE UNCHANGED <<engine, request, chosen>>
  BY <1>3 DEF Next, vars, Mocks, Rewrites, RewriteFails, Serves, TransformsHeaders, MapsPath,
              AnswersMock, AppliesRule, Calls
<1> QED BY <1>1, <1>2, <1>3

LEMMA HeadersAreFinite ==
  ASSUME Given
  PROVE  /\ IsFiniteSet(engine.headers)
         /\ chosen # 0 /\ Location.rewrite # <<>> => IsFiniteSet(Location.rewrite[1].headers)
<1>1. PICK c \in Cases : engine = c.engine BY DEF Given
<1>2. chosen # 0 => chosen \in DOMAIN c.engine.locations
  BY <1>1 DEF Given
<1> QED BY <1>1, <1>2, CasesAssumption DEF Location

\* The actions of an engine or a location, none of which is passed over.
LEMMA EngineActsLeave ==
  ASSUME NEW actions, IsFiniteSet(actions), NEW headers, NEW order \in Orders(actions), NEW h
  PROVE  LeftBy(actions, actions, Value(headers, h), Value(EngineActs(headers, order), h), h)
<1>1. Surely(actions, FALSE) BY DEF Surely
<1> QED BY <1>1, ActsLeave DEF EngineActs

\* The actions that come last leave a header whatever it was before, if they name it.
LEMMA BothActLeave ==
  ASSUME NEW own, IsFiniteSet(own), NEW actions, IsFiniteSet(actions), NEW headers,
         NEW first \in Orders(own), NEW second \in Orders(actions), NEW h
  PROVE  LET last == IF Naming(actions, h) = {} THEN own ELSE actions
         IN LeftBy(last, last, Value(headers, h), Value(BothAct(headers, first, second), h), h)
<1> DEFINE between == EngineActs(headers, first)
           after == EngineActs(between, second)
<1>1. LeftBy(own, own, Value(headers, h), Value(between, h), h)
  BY EngineActsLeave
<1>2. LeftBy(actions, actions, Value(between, h), Value(after, h), h)
  BY EngineActsLeave
<1>3. BothAct(headers, first, second) = after BY DEF BothAct
<1> HIDE DEF between, after
<1>4. CASE Naming(actions, h) = {}
  <2>1. Value(after, h) = Value(between, h)
    BY <1>2, <1>4 DEF LeftBy
  <2> QED BY <1>1, <1>3, <1>4, <2>1
<1>5. CASE Naming(actions, h) # {}
  BY <1>2, <1>3, <1>5 DEF LeftBy
<1> QED BY <1>4, <1>5

LEMMA RewritesLeave ==
  ASSUME Given, Rewrites, chosen # 0, Location.rewrite # <<>>, NEW h
  PROVE  LET own == Location.rewrite[1].headers
             last == IF Naming(engine.headers, h) = {} THEN own ELSE engine.headers
         IN IF /\ Location.rewrite[1].body # <<>> /\ request.body.type = "json"
               /\ h = "content-length"
            THEN Value(sent'.headers, h) = {"computed"}
            ELSE LeftBy(last, last, Value(request.headers, h), Value(sent'.headers, h), h)
<1> DEFINE rewrite == Location.rewrite[1]
           own == rewrite.headers
           last == IF Naming(engine.headers, h) = {} THEN own ELSE engine.headers
<1>1. PICK engineOrder \in Orders(engine.headers), order \in Orders(own) :
        sent' = Rewritten(request, rewrite, order, engineOrder)
  BY DEF Rewrites
<1> DEFINE after == BothAct(request.headers, order, engineOrder)
           made == rewrite.body # <<>> /\ request.body.type = "json" /\ h = "content-length"
<1>2. LeftBy(last, last, Value(request.headers, h), Value(after, h), h)
  BY HeadersAreFinite, BothActLeave
<1>3. sent'.headers = IF rewrite.body # <<>> /\ request.body.type # "none"
                      THEN HeadersSent(after, request.body) ELSE after
  BY <1>1 DEF Rewritten
<1> HIDE DEF after, last
<1>4. Value(sent'.headers, h) = IF made THEN {"computed"} ELSE Value(after, h)
  BY <1>3 DEF HeadersSent, With, Value
<1> QED BY <1>2, <1>4 DEF last

LEMMA EngineLast == ASSUME Given PROVE EngineActsLast
<1> DEFINE given == chosen # 0 /\ Location.rewrite # <<>>
           own == IF given THEN Location.rewrite[1].headers ELSE {}
           made == given /\ Location.rewrite[1].body # <<>> /\ request.body.type = "json"
           last(h) == IF Naming(engine.headers, h) = {} THEN own ELSE engine.headers
<1> SUFFICES ASSUME Rewrites, NEW h
             PROVE  IF made /\ h = "content-length" THEN Value(sent'.headers, h) = {"computed"}
                    ELSE LeftBy(last(h), last(h), Value(request.headers, h), Value(sent'.headers, h), h)
  BY DEF EngineActsLast
<1>1. CASE given BY <1>1, RewritesLeave
<1>2. CASE ~given
  <2>1. PICK engineOrder \in Orders(engine.headers) :
          sent'.headers = EngineActs(request.headers, engineOrder)
    BY <1>2 DEF Rewrites
  <2>2. LeftBy(engine.headers, engine.headers, Value(request.headers, h), Value(sent'.headers, h), h)
    BY <2>1, HeadersAreFinite, EngineActsLeave
  <2>3. CASE Naming(engine.headers, h) = {}
    <3>1. Value(sent'.headers, h) = Value(request.headers, h)
      BY <2>2, <2>3 DEF LeftBy
    <3>2. Naming({}, h) = {} BY DEF Naming
    <3> QED BY <1>2, <2>3, <3>1, <3>2 DEF LeftBy
  <2>4. CASE Naming(engine.headers, h) # {}
    BY <1>2, <2>2, <2>4
  <2> QED BY <2>3, <2>4
<1> QED BY <1>1, <1>2

LEMMA TransformerOnce == TransformerActsOnce
<1> SUFFICES ASSUME NEW actions \in Transforms, TransformsHeaders(actions), NEW h
             PROVE  LeftBy(actions, {a \in actions : a.condition = <<>>},
                           Value(request.headers, h), Value(sent'.headers, h), h)
  BY DEF TransformerActsOnce
<1>1. PICK order \in Orders(actions) :
        sent' = [Nothing EXCEPT !.headers = TransformerActs(request.headers, order)]
  BY DEF TransformsHeaders
<1>2. sent'.headers = Acts(request.headers, order, TRUE)
  BY <1>1 DEF TransformerActs, Nothing
<1> DEFINE surely == {a \in actions : a.condition = <<>>}
<1>3. Surely(surely, TRUE) BY DEF Surely
<1> HIDE DEF surely
<1>4. LeftBy(actions, surely, Value(request.headers, h), Value(Acts(request.headers, order, TRUE), h), h)
  BY <1>3, TransformsAssumption, ActsLeave
<1> QED BY <1>2, <1>4 DEF surely

\* In whatever order the maps yield their actions, and whatever keys they have for one
\* header: what the engine's actions overwrite or delete goes out as one of them leaves
\* it and not as a location's does, and what none names goes out as it came, but for the
\* content-length of a rewritten body (apply_request_modifications, apply_header_actions,
\* HeaderTransformer::apply).
THEOREM EngineActsAreLast == Spec => EngineHasTheLastWord
<1>1. Given => EngineActsLast /\ TransformerActsOnce
  BY EngineLast, TransformerOnce
<1> QED BY <1>1, InitGiven, NextGiven, PTL DEF Spec, EngineHasTheLastWord

-----------------------------------------------------------------------------
(* One step of a way through a JSON value.                                   *)

\* The walks that make what they miss, and those that do not.  (Names, so that the
\* provers take them as terms.)
Makes == TRUE
Looks == FALSE
IsValue(v) == DOMAIN v = {"type", "text", "fields", "elements"}
MadeOnTheWay == {Object(<<>>), Array(<<>>), Null}
IsStep(s) ==
  /\ s.into \in {"field", "element"}
  /\ s.into = "element" => s.key \in Int
  /\ s.missing \in MadeOnTheWay

\* What was made on the way leads nowhere.
LEMMA MadeLeadsNowhere ==
  ASSUME NEW v \in MadeOnTheWay, NEW t
  PROVE  ~Leads(v, t, Looks)
<1>1. v.fields = <<>> /\ v.elements = <<>>
  <2>1. CASE v = Object(<<>>) BY <2>1 DEF Object
  <2>2. CASE v = Array(<<>>) BY <2>2 DEF Array
  <2>3. CASE v = Null BY <2>3 DEF Null
  <2> QED BY <2>1, <2>2, <2>3 DEF MadeOnTheWay
<1>2. DOMAIN v.fields = {} /\ DOMAIN v.elements = {} BY <1>1
<1> QED BY <1>2 DEF Leads, Looks, HasField, HasElement

LEMMA MadeIsAValue == \A v \in MadeOnTheWay : IsValue(v)
BY DEF MadeOnTheWay, Object, Array, Null, IsValue

\* Reading takes the step back that an edit took.
LEMMA BackOnTheSameStep ==
  ASSUME NEW v, IsValue(v), NEW s, IsStep(s), NEW t, SameStep(s, t), NEW makes,
         Leads(v, s, makes), NEW child
  PROVE  Leads(Back(v, s, child), t, Looks) /\ Into(Back(v, s, child), t) = child
<1>1. CASE s.into = "element"
  <2>1. t.into = "element" /\ t.key = s.key /\ HasElement(v, s.key)
    BY <1>1 DEF Looks, SameStep, Leads
  <2> DEFINE x == WithElement(v, s.key, child)
  <2>2. x.type = v.type /\ x.elements = [v.elements EXCEPT ![s.key + 1] = child]
    BY DEF WithElement, IsValue
  <2>3. s.key + 1 \in DOMAIN v.elements /\ v.type = "array"
    BY <2>1 DEF HasElement
  <2>4. s.key + 1 \in DOMAIN x.elements /\ x.elements[s.key + 1] = child
    BY <2>2, <2>3
  <2> HIDE DEF x
  <2>5. HasElement(x, s.key)
    BY <2>2, <2>3, <2>4 DEF HasElement
  <2>6. Back(v, s, child) = x BY <1>1 DEF Back, x
  <2> QED BY <2>1, <2>4, <2>5, <2>6 DEF Looks, Leads, Into
<1>2. CASE s.into = "field"
  <2>1. t.into = "field" /\ t.key = s.key /\ v.type = "object"
    BY <1>2 DEF Looks, SameStep, Leads, HasField
  <2> DEFINE x == WithField(v, s.key, child)
  <2>2. /\ x.type = v.type
        /\ x.fields = [k \in DOMAIN v.fields \cup {s.key} |-> IF k = s.key THEN child ELSE v.fields[k]]
    BY DEF WithField, IsValue
  <2> HIDE DEF x
  <2>3. HasField(x, s.key) /\ x.fields[s.key] = child
    BY <2>1, <2>2 DEF HasField
  <2>4. Back(v, s, child) = x BY <1>2 DEF Back, x
  <2> QED BY <2>1, <2>3, <2>4 DEF Looks, Leads, Into
<1> QED BY <1>1, <1>2 DEF IsStep

\* And the other steps are as they were.
LEMMA BackOnAnotherStep ==
  ASSUME NEW v, IsValue(v), NEW s, IsStep(s), NEW t, IsStep(t), ~SameStep(s, t), NEW makes,
         Leads(v, s, makes), NEW child
  PROVE  /\ Leads(Back(v, s, child), t, Looks) <=> Leads(v, t, Looks)
         /\ Leads(v, t, Looks) => Into(Back(v, s, child), t) = Into(v, t)
<1>1. CASE s.into = "element"
  <2>1. HasElement(v, s.key) /\ s.key \in Int
    BY <1>1 DEF Looks, Leads, IsStep
  <2> DEFINE x == WithElement(v, s.key, child)
  <2>2. x.type = v.type /\ x.elements = [v.elements EXCEPT ![s.key + 1] = child]
    BY DEF WithElement, IsValue
  <2>3. v.type = "array" /\ DOMAIN x.elements = DOMAIN v.elements
    BY <2>1, <2>2 DEF HasElement
  <2>4. ASSUME t.into = "element"
        PROVE  /\ HasElement(x, t.key) <=> HasElement(v, t.key)
               /\ HasElement(v, t.key) => x.elements[t.key + 1] = v.elements[t.key + 1]
    <3>1. t.key \in Int /\ t.key # s.key
      BY <1>1, <2>4 DEF SameStep, IsStep
    <3>2. t.key + 1 # s.key + 1 BY <2>1, <3>1
    <3> HIDE DEF x
    <3> QED BY <2>2, <2>3, <3>2 DEF HasElement
  <2> HIDE DEF x
  <2>5. Back(v, s, child) = x BY <1>1 DEF Back, x
  <2>6. t.into # "element" => ~Leads(x, t, Looks) /\ ~Leads(v, t, Looks)
    BY <2>2, <2>3 DEF Looks, Leads, HasField
  <2> QED BY <2>4, <2>5, <2>6 DEF Looks, Leads, Into
<1>2. CASE s.into = "field"
  <2>1. v.type = "object" BY <1>2 DEF Looks, Leads, HasField
  <2> DEFINE x == WithField(v, s.key, child)
  <2>2. /\ x.type = v.type
        /\ x.fields = [k \in DOMAIN v.fields \cup {s.key} |-> IF k = s.key THEN child ELSE v.fields[k]]
    BY DEF WithField, IsValue
  <2> HIDE DEF x
  <2>3. ASSUME t.into = "field"
        PROVE  /\ HasField(x, t.key) <=> HasField(v, t.key)
               /\ HasField(v, t.key) => x.fields[t.key] = v.fields[t.key]
    <3>1. t.key # s.key BY <1>2, <2>3 DEF SameStep
    <3> QED BY <2>2, <3>1 DEF HasField
  <2>4. Back(v, s, child) = x BY <1>2 DEF Back, x
  <2>5. t.into = "element" => ~Leads(x, t, Looks) /\ ~Leads(v, t, Looks)
    BY <2>1, <2>2 DEF Looks, Leads, HasElement
  <2>6. t.into = "field" => (Leads(x, t, Looks) <=> HasField(x, t.key)) /\ (Leads(v, t, Looks) <=> HasField(v, t.key))
    BY DEF Looks, Leads
  <2>7. t.into = "field" /\ HasField(v, t.key) => Into(x, t) = x.fields[t.key] /\ Into(v, t) = v.fields[t.key]
    BY <2>3 DEF Into
  <2> QED BY <2>3, <2>4, <2>5, <2>6, <2>7 DEF IsStep
<1> QED BY <1>1, <1>2 DEF IsStep

-----------------------------------------------------------------------------
(* Ways: from the m-th step to the n-th, with what was found before them.      *)

Onward(found, step, makes) == {Into(w, step) : w \in {u \in found : Leads(u, step, makes)}}
Walks(g, found, steps, makes, m, n) ==
  g = [k \in m .. n |-> IF k = m THEN found ELSE Onward(g[k - 1], steps[k - 1], makes)]

LEMMA WalkExists ==
  ASSUME NEW found, NEW steps, NEW makes, NEW m \in Nat
  PROVE  \A j \in Nat : \E g : Walks(g, found, steps, makes, m, m + j)
<1> DEFINE S == {j \in Nat : \E g : Walks(g, found, steps, makes, m, m + j)}
<1>1. 0 \in S
  <2> DEFINE g == [k \in m .. m + 0 |-> found]
  <2>1. Walks(g, found, steps, makes, m, m + 0) BY DEF Walks
  <2> QED BY <2>1
<1>2. ASSUME NEW j \in Nat, j \in S PROVE j + 1 \in S
  <2> DEFINE n == m + j
  <2>1. PICK g : Walks(g, found, steps, makes, m, n) BY <1>2
  <2> DEFINE next == Onward(g[n], steps[n], makes)
             h == [k \in m .. n + 1 |-> IF k = n + 1 THEN next ELSE g[k]]
  <2> HIDE DEF next
  <2>2. ASSUME NEW k \in m .. n + 1
        PROVE  h[k] = IF k = m THEN found ELSE Onward(h[k - 1], steps[k - 1], makes)
    <3>1. CASE k = n + 1
      <4>1. h[k] = next /\ h[k - 1] = g[n] BY <3>1
      <4> QED BY <3>1, <4>1 DEF next
    <3>2. CASE k # n + 1
      <4>1. h[k] = g[k] /\ (k # m => h[k - 1] = g[k - 1])
        BY <3>2
      <4>2. g[k] = IF k = m THEN found ELSE Onward(g[k - 1], steps[k - 1], makes)
        BY <2>1, <3>2 DEF Walks
      <4> QED BY <4>1, <4>2
    <3> QED BY <3>1, <3>2
  <2>3. Walks(h, found, steps, makes, m, n + 1)
    BY <2>2 DEF Walks
  <2>4. n + 1 = m + (j + 1) OBVIOUS
  <2> HIDE DEF h
  <2> QED BY <2>3, <2>4
<1> HIDE DEF S
<1>3. Nat \subseteq S BY <1>1, <1>2, Induction
<1> QED BY <1>3 DEF S

LEMMA WalkIsOne ==
  ASSUME NEW found, NEW steps, NEW makes, NEW m \in Nat, NEW n \in Nat, NEW g, NEW h,
         Walks(g, found, steps, makes, m, n), Walks(h, found, steps, makes, m, n),
         NEW k \in m .. n
  PROVE  g[k] = h[k]
<1> DEFINE S == {j \in Nat : m + j <= n => g[m + j] = h[m + j]}
<1>1. 0 \in S BY DEF Walks
<1>2. ASSUME NEW j \in Nat, j \in S PROVE j + 1 \in S
  <2> SUFFICES ASSUME m + (j + 1) <= n PROVE g[m + (j + 1)] = h[m + (j + 1)]
    OBVIOUS
  <2> DEFINE i == m + (j + 1)
  <2>1. i \in m .. n /\ i # m /\ i - 1 = m + j OBVIOUS
  <2>2. g[i - 1] = h[i - 1] BY <1>2, <2>1
  <2>3. g[i] = Onward(g[i - 1], steps[i - 1], makes) /\ h[i] = Onward(h[i - 1], steps[i - 1], makes)
    BY <2>1 DEF Walks
  <2> QED BY <2>2, <2>3
<1> HIDE DEF S
<1>3. Nat \subseteq S BY <1>1, <1>2, Induction
<1>4. k - m \in S /\ m + (k - m) = k BY <1>3
<1> QED BY <1>4 DEF S

\* The way as the model has it.
LEMMA WayIs ==
  ASSUME NEW v, NEW steps, NEW makes, Len(steps) \in Nat
  PROVE  Walks(Way(v, steps, makes), {v}, steps, makes, 1, Len(steps) + 1)
<1>1. \E g : Walks(g, {v}, steps, makes, 1, Len(steps) + 1)
  <2>1. 1 + Len(steps) = Len(steps) + 1 OBVIOUS
  <2> QED BY <2>1, WalkExists
<1>2. Way(v, steps, makes) = CHOOSE g : Walks(g, {v}, steps, makes, 1, Len(steps) + 1)
  BY DEF Way, Walks, Onward
<1> QED BY <1>1, <1>2

\* What the steps from the k-th on lead to.
Reach(found, steps, makes, k) ==
  (CHOOSE g : Walks(g, found, steps, makes, k, Len(steps) + 1))[Len(steps) + 1]

LEMMA ReachIs ==
  ASSUME NEW found, NEW steps, NEW makes, Len(steps) \in Nat, NEW k \in 1 .. Len(steps) + 1,
         NEW g, Walks(g, found, steps, makes, k, Len(steps) + 1)
  PROVE  Reach(found, steps, makes, k) = g[Len(steps) + 1]
<1> DEFINE n == Len(steps) + 1
           h == CHOOSE f : Walks(f, found, steps, makes, k, n)
<1>1. Walks(h, found, steps, makes, k, n) /\ Walks(g, found, steps, makes, k, n)
  OBVIOUS
<1>2. n \in Nat /\ n \in k .. n /\ k \in Nat OBVIOUS
<1>5. Reach(found, steps, makes, k) = h[n] BY DEF Reach
<1> HIDE DEF h, n
<1>3. \A i \in k .. n : g[i] = h[i] BY <1>1, <1>2, WalkIsOne
<1>4. g[n] = h[n] BY <1>2, <1>3
<1> QED BY <1>4, <1>5 DEF n

LEMMA ReachExists ==
  ASSUME NEW found, NEW steps, NEW makes, Len(steps) \in Nat, NEW k \in 1 .. Len(steps) + 1
  PROVE  \E g : Walks(g, found, steps, makes, k, Len(steps) + 1)
<1>1. Len(steps) + 1 - k \in Nat /\ k + (Len(steps) + 1 - k) = Len(steps) + 1 /\ k \in Nat
  OBVIOUS
<1> QED BY <1>1, WalkExists

LEMMA ReachAtEnd ==
  ASSUME NEW found, NEW steps, NEW makes, Len(steps) \in Nat
  PROVE  Reach(found, steps, makes, Len(steps) + 1) = found
<1> DEFINE n == Len(steps) + 1
<1>1. n \in 1 .. Len(steps) + 1 OBVIOUS
<1>2. PICK g : Walks(g, found, steps, makes, n, n)
  BY <1>1, ReachExists
<1>3. g[n] = found BY <1>1, <1>2 DEF Walks
<1> QED BY <1>1, <1>2, <1>3, ReachIs

LEMMA ReachOnward ==
  ASSUME NEW found, NEW steps, NEW makes, Len(steps) \in Nat, NEW k \in 1 .. Len(steps)
  PROVE  Reach(found, steps, makes, k) = Reach(Onward(found, steps[k], makes), steps, makes, k + 1)
<1> DEFINE n == Len(steps) + 1
<1>1. k \in 1 .. n /\ k + 1 \in 1 .. n /\ n \in Nat OBVIOUS
<1>2. PICK g : Walks(g, found, steps, makes, k, n)
  BY <1>1, ReachExists
<1> DEFINE h == [i \in k + 1 .. n |-> g[i]]
<1>3. ASSUME NEW i \in k + 1 .. n
      PROVE  h[i] = IF i = k + 1 THEN Onward(found, steps[k], makes)
                    ELSE Onward(h[i - 1], steps[i - 1], makes)
  <2>1. i \in k .. n /\ i # k /\ h[i] = g[i] BY <1>1
  <2>2. g[i] = Onward(g[i - 1], steps[i - 1], makes)
    BY <1>2, <2>1 DEF Walks
  <2>3. CASE i = k + 1
    <3>1. g[k] = found /\ i - 1 = k
      BY <1>1, <1>2, <2>3 DEF Walks
    <3> QED BY <2>1, <2>2, <2>3, <3>1
  <2>4. CASE i # k + 1
    <3>1. h[i - 1] = g[i - 1] BY <1>1, <2>4
    <3> QED BY <2>1, <2>2, <2>4, <3>1
  <2> QED BY <2>3, <2>4
<1>4. Walks(h, Onward(found, steps[k], makes), steps, makes, k + 1, n)
  BY <1>1, <1>3 DEF Walks
<1>5. h[n] = g[n] BY <1>1
<1> HIDE DEF h
<1>6. Reach(found, steps, makes, k) = g[n]
  BY <1>1, <1>2, ReachIs
<1>7. Reach(Onward(found, steps[k], makes), steps, makes, k + 1) = h[n]
  BY <1>1, <1>4, ReachIs
<1> QED BY <1>5, <1>6, <1>7

\* What an edit leaves on the way, as the model has it.
Rebuilt(new, way, steps, k) ==
  {w \in way[k] : way[k + 1] = {}}
    \cup {Back(w, steps[k], child) : w \in way[k], child \in new[k + 1]}
Remakes(new, way, steps, ends, m) ==
  new = [k \in m .. Len(steps) + 1 |->
           IF k = Len(steps) + 1 THEN ends ELSE Rebuilt(new, way, steps, k)]

LEMMA RemadeExists ==
  ASSUME NEW way, NEW steps, NEW ends, Len(steps) \in Nat
  PROVE  \A j \in Nat : \E new : Remakes(new, way, steps, ends, Len(steps) + 1 - j)
<1> DEFINE n == Len(steps) + 1
           S == {j \in Nat : \E new : Remakes(new, way, steps, ends, n - j)}
<1>1. 0 \in S
  <2> DEFINE new == [k \in n - 0 .. n |-> ends]
  <2>1. Remakes(new, way, steps, ends, n - 0) BY DEF Remakes
  <2> QED BY <2>1
<1>2. ASSUME NEW j \in Nat, j \in S PROVE j + 1 \in S
  <2> DEFINE m == n - (j + 1)
  <2>1. PICK old : Remakes(old, way, steps, ends, m + 1)
    <3>1. m + 1 = n - j OBVIOUS
    <3> QED BY <1>2, <3>1
  <2>2. m \in Int /\ m < n /\ n \in Int OBVIOUS
  <2> DEFINE value == Rebuilt(old, way, steps, m)
             new == [k \in m .. n |-> IF k = m THEN value ELSE old[k]]
  <2> HIDE DEF value, m
  <2>3. ASSUME NEW k \in m .. n
        PROVE  new[k] = IF k = n THEN ends ELSE Rebuilt(new, way, steps, k)
    <3>1. CASE k = m
      <4>1. new[m + 1] = old[m + 1] /\ new[k] = value
        BY <2>2, <3>1
      <4>2. Rebuilt(new, way, steps, m) = Rebuilt(old, way, steps, m)
        <5> HIDE DEF new
        <5> QED BY <4>1 DEF Rebuilt
      <4> QED BY <2>2, <3>1, <4>1, <4>2 DEF value
    <3>2. CASE k # m
      <4>1. new[k] = old[k] /\ (k # n => new[k + 1] = old[k + 1])
        BY <2>2, <3>2
      <4>2. old[k] = IF k = n THEN ends ELSE Rebuilt(old, way, steps, k)
        BY <2>1, <2>2, <3>2 DEF Remakes
      <4>3. k # n => Rebuilt(new, way, steps, k) = Rebuilt(old, way, steps, k)
        <5> HIDE DEF new
        <5> QED BY <4>1 DEF Rebuilt
      <4> QED BY <4>1, <4>2, <4>3
    <3> QED BY <3>1, <3>2
  <2>4. Remakes(new, way, steps, ends, m)
    BY <2>3 DEF Remakes
  <2> HIDE DEF new
  <2> QED BY <2>4 DEF m
<1> HIDE DEF S
<1>3. Nat \subseteq S BY <1>1, <1>2, Induction
<1> QED BY <1>3 DEF S

LEMMA RemadeIs ==
  ASSUME NEW way, NEW steps, NEW ends, Len(steps) \in Nat
  PROVE  Remakes(Remade(way, steps, ends), way, steps, ends, 1)
<1>1. Len(steps) + 1 - Len(steps) = 1 OBVIOUS
<1>2. \E new : Remakes(new, way, steps, ends, 1)
  BY <1>1, RemadeExists
<1>3. Remade(way, steps, ends) = CHOOSE new : Remakes(new, way, steps, ends, 1)
  BY DEF Remade, Remakes, Rebuilt
<1> QED BY <1>2, <1>3

-----------------------------------------------------------------------------
(* Values on a way are values, one at most.                                  *)

Closed(Js) ==
  \A v \in Js : /\ IsValue(v)
                /\ \A key \in DOMAIN v.fields : v.fields[key] \in Js
                /\ \A i \in DOMAIN v.elements : v.elements[i] \in Js
AreSteps(steps) == Len(steps) \in Nat /\ \A k \in 1 .. Len(steps) : IsStep(steps[k])

LEMMA IntoIsAValue ==
  ASSUME NEW Js, Closed(Js), NEW v \in Js \cup MadeOnTheWay, NEW s, IsStep(s), NEW makes,
         Leads(v, s, makes)
  PROVE  Into(v, s) \in Js \cup MadeOnTheWay
<1>1. CASE s.into = "element"
  <2>1. HasElement(v, s.key) BY <1>1 DEF Leads
  <2>2. v \in Js
    <3>1. Leads(v, s, Looks) BY <1>1, <2>1 DEF Leads, Looks
    <3> QED BY <3>1, MadeLeadsNowhere
  <2> QED BY <1>1, <2>1, <2>2 DEF HasElement, Into, Closed
<1>2. CASE s.into = "field" /\ HasField(v, s.key)
  <2>2. v \in Js
    <3>1. Leads(v, s, Looks) BY <1>2 DEF Leads, Looks
    <3> QED BY <3>1, MadeLeadsNowhere
  <2> QED BY <1>2, <2>2 DEF HasField, Into, Closed
<1>3. CASE s.into = "field" /\ ~HasField(v, s.key)
  BY <1>3 DEF Into, IsStep
<1> QED BY <1>1, <1>2, <1>3 DEF IsStep

AtMostOne(found, Js) == found = {} \/ \E v \in Js \cup MadeOnTheWay : found = {v}

LEMMA OnwardIs ==
  ASSUME NEW v, NEW s, NEW makes
  PROVE  Onward({v}, s, makes) = IF Leads(v, s, makes) THEN {Into(v, s)} ELSE {}
BY DEF Onward

LEMMA OnwardFromNowhere == \A s, makes : Onward({}, s, makes) = {}
BY DEF Onward

LEMMA WayValues ==
  ASSUME NEW Js, Closed(Js), NEW v \in Js, NEW steps, AreSteps(steps), NEW makes,
         NEW k \in 1 .. Len(steps) + 1
  PROVE  AtMostOne(Way(v, steps, makes)[k], Js)
<1> DEFINE n == Len(steps) + 1
           way == Way(v, steps, makes)
           S == {j \in Nat : j + 1 <= n => AtMostOne(way[j + 1], Js)}
<1>1. n \in Nat /\ Walks(way, {v}, steps, makes, 1, n)
  BY WayIs DEF AreSteps
<1> HIDE DEF way
<1>2. 0 \in S
  <2>1. 0 + 1 = 1 /\ 1 <= n BY DEF AreSteps
  <2>2. way[1] = {v} BY <1>1, <2>1 DEF Walks
  <2> QED BY <2>1, <2>2 DEF AtMostOne
<1>3. ASSUME NEW j \in Nat, j \in S PROVE j + 1 \in S
  <2> SUFFICES ASSUME (j + 1) + 1 <= n PROVE AtMostOne(way[(j + 1) + 1], Js)
    OBVIOUS
  <2> DEFINE i == j + 1
  <2>1. i \in 1 .. Len(steps) /\ i + 1 \in 1 .. n /\ i + 1 # 1 /\ (i + 1) - 1 = i
    BY <1>1 DEF AreSteps
  <2>2. AtMostOne(way[i], Js) BY <1>3
  <2>3. way[i + 1] = Onward(way[i], steps[i], makes)
    BY <1>1, <2>1 DEF Walks
  <2>4. IsStep(steps[i]) BY <2>1 DEF AreSteps
  <2> HIDE DEF i
  <2>5. ASSUME way[i] = {} PROVE AtMostOne(way[i + 1], Js)
    <3>1. way[i + 1] = {} BY <2>3, <2>5, OnwardFromNowhere
    <3> QED BY <3>1 DEF AtMostOne
  <2>6. ASSUME NEW w \in Js \cup MadeOnTheWay, way[i] = {w} PROVE AtMostOne(way[i + 1], Js)
    <3>1. way[i + 1] = IF Leads(w, steps[i], makes) THEN {Into(w, steps[i])} ELSE {}
      BY <2>3, <2>6, OnwardIs
    <3>2. Leads(w, steps[i], makes) => Into(w, steps[i]) \in Js \cup MadeOnTheWay
      BY <2>4, <2>6, IntoIsAValue
    <3> QED BY <3>1, <3>2 DEF AtMostOne
  <2> QED BY <2>2, <2>5, <2>6 DEF AtMostOne, i
<1> HIDE DEF S
<1>4. Nat \subseteq S BY <1>2, <1>3, Induction
<1>5. k - 1 \in S /\ (k - 1) + 1 = k /\ k <= n BY <1>1, <1>4
<1> QED BY <1>5 DEF S, way

-----------------------------------------------------------------------------
(* An edit and the values on its way, before and after.                       *)

\* What was found is v.  (A name, so that the provers match it as a whole.)
Found(found, v) == found = {v}

Edits(way, new, steps, makes, Js) ==
  /\ Closed(Js) /\ AreSteps(steps)
  /\ \A k \in 1 .. Len(steps) + 1 : AtMostOne(way[k], Js)
  /\ \A k \in 1 .. Len(steps) : way[k + 1] = Onward(way[k], steps[k], makes)
  /\ \A k \in 1 .. Len(steps) : new[k] = Rebuilt(new, way, steps, k)
  /\ IF way[Len(steps) + 1] = {} THEN new[Len(steps) + 1] = {}
     ELSE \E c : Found(new[Len(steps) + 1], c)

LEMMA StepLeads ==
  ASSUME NEW way, NEW new, NEW steps, NEW makes, NEW Js, Edits(way, new, steps, makes, Js),
         NEW k \in 1 .. Len(steps), NEW w, Found(way[k], w), Leads(w, steps[k], makes)
  PROVE  Found(way[k + 1], Into(w, steps[k]))
BY OnwardIs DEF Edits, Found

\* What a step that leads nowhere leaves alone, and what one that leads on gives back.
LEMMA StepStays ==
  ASSUME NEW way, NEW new, NEW steps, NEW makes, NEW Js, Edits(way, new, steps, makes, Js),
         NEW k \in 1 .. Len(steps), NEW w, Found(way[k], w), ~Leads(w, steps[k], makes)
  PROVE  way[k + 1] = {} /\ Found(new[k], w)
<1>1. way[k + 1] = {} BY OnwardIs DEF Edits, Found
<1>2. new[k] = Rebuilt(new, way, steps, k) BY DEF Edits
<1>3. new[k + 1] = {}
  <2>1. CASE k = Len(steps) BY <1>1, <2>1 DEF Edits
  <2>2. CASE k # Len(steps)
    <3>1. k + 1 \in 1 .. Len(steps)
      BY <2>2 DEF Edits, AreSteps
    <3>2. new[k + 1] = Rebuilt(new, way, steps, k + 1)
      BY <3>1 DEF Edits
    <3> QED BY <1>1, <3>2 DEF Rebuilt
  <2> QED BY <2>1, <2>2
<1> QED BY <1>1, <1>2, <1>3 DEF Rebuilt, Found

LEMMA StepBack ==
  ASSUME NEW way, NEW new, NEW steps, NEW makes, NEW Js, Edits(way, new, steps, makes, Js),
         NEW k \in 1 .. Len(steps), NEW w, Found(way[k], w), Leads(w, steps[k], makes),
         NEW c, Found(new[k + 1], c)
  PROVE  Found(new[k], Back(w, steps[k], c))
<1>0. Found(way[k + 1], Into(w, steps[k])) BY StepLeads
<1>1. way[k + 1] # {} BY <1>0 DEF Found
<1>2. new[k] = Rebuilt(new, way, steps, k) BY DEF Edits
<1> QED BY <1>1, <1>2 DEF Rebuilt, Found

LEMMA NewIsOne ==
  ASSUME NEW way, NEW new, NEW steps, NEW makes, NEW Js, Edits(way, new, steps, makes, Js),
         NEW k \in 1 .. Len(steps) + 1, way[k] # {}
  PROVE  \E c : Found(new[k], c)
<1> DEFINE n == Len(steps) + 1
           P(i) == way[i] # {} => \E c : Found(new[i], c)
<1>1. n \in Nat BY DEF Edits, AreSteps
<1>3. ASSUME NEW i \in 1 .. Len(steps), P(i + 1) PROVE P(i)
  <2>0. i \in 1 .. Len(steps) + 1 BY <1>1
  <2> SUFFICES ASSUME way[i] # {} PROVE \E c : Found(new[i], c)
    OBVIOUS
  <2>2. PICK w : Found(way[i], w)
    BY <2>0 DEF Edits, AtMostOne, Found
  <2>4. CASE Leads(w, steps[i], makes)
    <3>1. Found(way[i + 1], Into(w, steps[i]))
      BY <2>2, <2>4, StepLeads
    <3>2. way[i + 1] # {} BY <3>1 DEF Found
    <3>3. PICK c : Found(new[i + 1], c) BY <1>3, <3>2
    <3>4. Found(new[i], Back(w, steps[i], c))
      BY <2>2, <2>4, <3>3, StepBack
    <3> QED BY <3>4
  <2>5. CASE ~Leads(w, steps[i], makes)
    BY <2>2, <2>5, StepStays
  <2> QED BY <2>4, <2>5
<1> DEFINE T == {i \in 1 .. n : P(i)}
<1>4. n \in T /\ \A i \in 1 .. n - 1 : i + 1 \in T => i \in T
  <2>1. P(n) BY DEF Edits
  <2> HIDE DEF P
  <2> QED BY <1>1, <1>3, <2>1
<1> HIDE DEF T
<1>5. k \in T BY <1>1, <1>4, Downward
<1> QED BY <1>5 DEF T

-----------------------------------------------------------------------------
(* Reading.                                                                  *)

\* What the steps from the k-th on lead to, from v.
ReachFrom(v, steps, k) == Reach({v}, steps, Looks, k)

LEMMA ReachFromNowhere ==
  ASSUME NEW steps, AreSteps(steps), NEW k \in 1 .. Len(steps) + 1
  PROVE  Reach({}, steps, Looks, k) = {}
<1> DEFINE n == Len(steps) + 1
           P(i) == Reach({}, steps, Looks, i) = {}
<1>1. n \in Nat /\ Len(steps) \in Nat BY DEF AreSteps
<1>3. ASSUME NEW i \in 1 .. Len(steps), P(i + 1) PROVE P(i)
  <2>1. Reach({}, steps, Looks, i) = Reach(Onward({}, steps[i], Looks), steps, Looks, i + 1)
    BY <1>1, ReachOnward
  <2> QED BY <1>3, <2>1, OnwardFromNowhere
<1> DEFINE T == {i \in 1 .. n : P(i)}
<1>4. n \in T /\ \A i \in 1 .. n - 1 : i + 1 \in T => i \in T
  <2>1. P(n) BY <1>1, ReachAtEnd
  <2> HIDE DEF P
  <2> QED BY <1>1, <1>3, <2>1
<1> HIDE DEF T
<1>5. k \in T BY <1>1, <1>4, Downward
<1> QED BY <1>5 DEF T

LEMMA ReachLeads ==
  ASSUME NEW v, NEW steps, AreSteps(steps), NEW k \in 1 .. Len(steps), Leads(v, steps[k], Looks)
  PROVE  ReachFrom(v, steps, k) = ReachFrom(Into(v, steps[k]), steps, k + 1)
<1>1. Len(steps) \in Nat BY DEF AreSteps
<1>2. Reach({v}, steps, Looks, k) = Reach(Onward({v}, steps[k], Looks), steps, Looks, k + 1)
  BY <1>1, ReachOnward
<1>3. Onward({v}, steps[k], Looks) = {Into(v, steps[k])}
  BY OnwardIs
<1> QED BY <1>2, <1>3 DEF ReachFrom

LEMMA ReachStops ==
  ASSUME NEW v, NEW steps, AreSteps(steps), NEW k \in 1 .. Len(steps), ~Leads(v, steps[k], Looks)
  PROVE  ReachFrom(v, steps, k) = {}
<1>1. Len(steps) \in Nat /\ k + 1 \in 1 .. Len(steps) + 1
  BY DEF AreSteps
<1>2. Reach({v}, steps, Looks, k) = Reach(Onward({v}, steps[k], Looks), steps, Looks, k + 1)
  BY <1>1, ReachOnward
<1>3. Onward({v}, steps[k], Looks) = {} BY OnwardIs
<1>4. Reach({}, steps, Looks, k + 1) = {}
  BY <1>1, ReachFromNowhere
<1> QED BY <1>2, <1>3, <1>4 DEF ReachFrom

LEMMA ReachFromMade ==
  ASSUME NEW v \in MadeOnTheWay, NEW steps, AreSteps(steps), NEW k \in 1 .. Len(steps)
  PROVE  ReachFrom(v, steps, k) = {}
<1>1. ~Leads(v, steps[k], Looks)
  BY MadeLeadsNowhere DEF Looks
<1> QED BY <1>1, ReachStops

\* From the k-th step on, others lead to the same before and after.
Kept(way, new, others, k) ==
  \A w : Found(way[k], w) =>
    \E c : Found(new[k], c) /\ ReachFrom(c, others, k) = ReachFrom(w, others, k)

LEMMA WayIsAValue ==
  ASSUME NEW way, NEW new, NEW steps, NEW makes, NEW Js, Edits(way, new, steps, makes, Js),
         NEW k \in 1 .. Len(steps) + 1, NEW w, Found(way[k], w)
  PROVE  IsValue(w)
<1>1. w \in Js \cup MadeOnTheWay
  BY DEF Edits, AtMostOne, Found
<1> QED BY <1>1, MadeIsAValue DEF Edits, Closed

LEMMA KeptAlong ==
  ASSUME NEW way, NEW new, NEW steps, NEW makes, NEW Js, Edits(way, new, steps, makes, Js),
         NEW others, AreSteps(others), NEW k \in 1 .. Len(steps), k + 1 <= Len(others),
         SameStep(steps[k], others[k]), Kept(way, new, others, k + 1)
  PROVE  Kept(way, new, others, k)
<1>1. /\ k \in 1 .. Len(others) /\ k + 1 \in 1 .. Len(others) /\ k \in 1 .. Len(steps) + 1
      /\ IsStep(steps[k]) /\ IsStep(others[k])
  BY DEF Edits, AreSteps
<1> SUFFICES ASSUME NEW w, Found(way[k], w)
             PROVE  \E c : Found(new[k], c) /\ ReachFrom(c, others, k) = ReachFrom(w, others, k)
  BY DEF Kept
<1>2. IsValue(w) BY <1>1, WayIsAValue
<1>3. CASE ~Leads(w, steps[k], makes)
  <2>1. Found(new[k], w) BY <1>3, StepStays
  <2> QED BY <2>1
<1>4. CASE Leads(w, steps[k], makes)
  <2> DEFINE u == Into(w, steps[k])
  <2>1. Found(way[k + 1], u) BY <1>4, StepLeads
  <2>2. PICK c : Found(new[k + 1], c) /\ ReachFrom(c, others, k + 1) = ReachFrom(u, others, k + 1)
    BY <2>1 DEF Kept
  <2> DEFINE b == Back(w, steps[k], c)
  <2>3. Found(new[k], b) BY <1>4, <2>2, StepBack
  <2>4. Leads(b, others[k], Looks) /\ Into(b, others[k]) = c
    BY <1>1, <1>2, <1>4, BackOnTheSameStep
  <2>5. ReachFrom(b, others, k) = ReachFrom(u, others, k + 1)
    <3> HIDE DEF b, u
    <3>1. ReachFrom(b, others, k) = ReachFrom(c, others, k + 1)
      BY <1>1, <2>4, ReachLeads
    <3> QED BY <2>2, <3>1
  <2>6. CASE Leads(w, others[k], Looks)
    <3>1. Into(w, others[k]) = u
      BY <1>1, <2>6 DEF Leads, Into, SameStep, Looks, IsStep
    <3>2. ReachFrom(w, others, k) = ReachFrom(Into(w, others[k]), others, k + 1)
      BY <1>1, <2>6, ReachLeads
    <3> HIDE DEF u, b
    <3> QED BY <2>3, <2>5, <3>1, <3>2
  <2>7. CASE ~Leads(w, others[k], Looks)
    <3>1. u \in MadeOnTheWay
      BY <1>1, <1>4, <2>7 DEF Leads, Into, SameStep, Looks, IsStep
    <3>2. ReachFrom(w, others, k) = {}
      BY <1>1, <2>7, ReachStops
    <3> HIDE DEF u, b
    <3>3. ReachFrom(u, others, k + 1) = {}
      BY <1>1, <3>1, ReachFromMade
    <3> QED BY <2>3, <2>5, <3>2, <3>3
  <2> QED BY <2>6, <2>7
<1> QED BY <1>3, <1>4

LEMMA KeptWhereTheyPart ==
  ASSUME NEW way, NEW new, NEW steps, NEW makes, NEW Js, Edits(way, new, steps, makes, Js),
         NEW others, AreSteps(others), NEW k \in 1 .. Len(steps), k <= Len(others),
         ~SameStep(steps[k], others[k])
  PROVE  Kept(way, new, others, k)
<1>1. /\ k \in 1 .. Len(others) /\ k \in 1 .. Len(steps) + 1 /\ k + 1 \in 1 .. Len(steps) + 1
      /\ IsStep(steps[k]) /\ IsStep(others[k])
  BY DEF Edits, AreSteps
<1> SUFFICES ASSUME NEW w, Found(way[k], w)
             PROVE  \E c : Found(new[k], c) /\ ReachFrom(c, others, k) = ReachFrom(w, others, k)
  BY DEF Kept
<1>2. IsValue(w) BY <1>1, WayIsAValue
<1>3. CASE ~Leads(w, steps[k], makes)
  <2>1. Found(new[k], w) BY <1>3, StepStays
  <2> QED BY <2>1
<1>4. CASE Leads(w, steps[k], makes)
  <2>1. Found(way[k + 1], Into(w, steps[k]))
    BY <1>4, StepLeads
  <2>2. way[k + 1] # {} BY <2>1 DEF Found
  <2>3. PICK c : Found(new[k + 1], c)
    BY <1>1, <2>2, NewIsOne
  <2> DEFINE b == Back(w, steps[k], c)
  <2>4. Found(new[k], b) BY <1>4, <2>3, StepBack
  <2>5. /\ Leads(b, others[k], Looks) <=> Leads(w, others[k], Looks)
        /\ Leads(w, others[k], Looks) => Into(b, others[k]) = Into(w, others[k])
    BY <1>1, <1>2, <1>4, BackOnAnotherStep
  <2> HIDE DEF b
  <2>6. CASE Leads(w, others[k], Looks)
    <3>1. ReachFrom(w, others, k) = ReachFrom(Into(w, others[k]), others, k + 1)
      BY <1>1, <2>6, ReachLeads
    <3>2. ReachFrom(b, others, k) = ReachFrom(Into(b, others[k]), others, k + 1)
      BY <1>1, <2>5, <2>6, ReachLeads
    <3> QED BY <2>4, <2>5, <2>6, <3>1, <3>2
  <2>7. CASE ~Leads(w, others[k], Looks)
    <3>1. ReachFrom(w, others, k) = {}
      BY <1>1, <2>7, ReachStops
    <3>2. ReachFrom(b, others, k) = {}
      BY <1>1, <2>5, <2>7, ReachStops
    <3> QED BY <2>4, <3>1, <3>2
  <2> QED BY <2>6, <2>7
<1> QED BY <1>3, <1>4

SameSteps(steps, others, n) == \A i \in 1 .. n : SameStep(steps[i], others[i])

\* Up to where they part, and back to the beginning.
LEMMA KeptFromTheStart ==
  ASSUME NEW way, NEW new, NEW steps, NEW makes, NEW Js, Edits(way, new, steps, makes, Js),
         NEW others, AreSteps(others), NEW d \in 1 .. Len(steps) + 1, d <= Len(others),
         SameSteps(steps, others, d - 1), Kept(way, new, others, d)
  PROVE  Kept(way, new, others, 1)
<1> DEFINE T == {i \in 1 .. d : Kept(way, new, others, i)}
<1>1. Len(steps) \in Nat /\ Len(others) \in Nat /\ d \in Nat
  BY DEF Edits, AreSteps
<1>2. d \in T BY <1>1
<1>3. ASSUME NEW i \in 1 .. d - 1, i + 1 \in T PROVE i \in T
  <2>1. i \in 1 .. Len(steps) /\ i + 1 <= Len(others) /\ i \in 1 .. d
    BY <1>1
  <2>2. Kept(way, new, others, i + 1) BY <1>3
  <2>3. Kept(way, new, others, i)
    BY <2>1, <2>2, KeptAlong DEF SameSteps
  <2> QED BY <2>1, <2>3
<1>4. 1 \in 1 .. d BY <1>1
<1> HIDE DEF T
<1>5. 1 \in T BY <1>1, <1>2, <1>3, <1>4, Downward
<1> QED BY <1>5 DEF T

\* What reads along the way of an edit that found its end reads on from what it left there.
LEMMA ReadAlong ==
  ASSUME NEW way, NEW new, NEW steps, NEW makes, NEW Js, Edits(way, new, steps, makes, Js),
         NEW others, AreSteps(others), Len(steps) <= Len(others),
         SameSteps(steps, others, Len(steps)),
         NEW n, n = Len(steps) + 1, way[n] # {}, NEW e, Found(new[n], e),
         NEW c, Found(new[1], c)
  PROVE  ReachFrom(c, others, 1) = ReachFrom(e, others, n)
<1> DEFINE P(i) == /\ way[i] # {}
                   /\ \E b : Found(new[i], b) /\ ReachFrom(b, others, i) = ReachFrom(e, others, n)
           T == {i \in 1 .. n : P(i)}
<1>1. Len(steps) \in Nat /\ Len(others) \in Nat /\ n \in Nat /\ 1 \in 1 .. n /\ n \in 1 .. n
  BY DEF Edits, AreSteps
<1>2. P(n) OBVIOUS
<1>3. ASSUME NEW i \in 1 .. Len(steps), P(i + 1) PROVE P(i)
  <2>1. /\ i \in 1 .. Len(others) /\ i \in 1 .. Len(steps) + 1
        /\ IsStep(steps[i]) /\ IsStep(others[i]) /\ SameStep(steps[i], others[i])
    BY <1>1 DEF Edits, AreSteps, SameSteps
  <2>2. way[i] # {}
    <3>1. way[i + 1] = Onward(way[i], steps[i], makes)
      BY DEF Edits
    <3> QED BY <1>3, <3>1, OnwardFromNowhere
  <2>3. PICK x : Found(way[i], x)
    BY <2>1, <2>2 DEF Edits, AtMostOne, Found
  <2>4. IsValue(x) BY <2>1, <2>3, WayIsAValue
  <2>5. Leads(x, steps[i], makes) BY <1>3, <2>3, StepStays
  <2>6. PICK b : Found(new[i + 1], b) /\ ReachFrom(b, others, i + 1) = ReachFrom(e, others, n)
    BY <1>3
  <2> DEFINE a == Back(x, steps[i], b)
  <2>7. Found(new[i], a) BY <2>3, <2>5, <2>6, StepBack
  <2>8. Leads(a, others[i], Looks) /\ Into(a, others[i]) = b
    BY <2>1, <2>4, <2>5, BackOnTheSameStep
  <2> HIDE DEF a
  <2>9. ReachFrom(a, others, i) = ReachFrom(b, others, i + 1)
    BY <2>1, <2>8, ReachLeads
  <2> QED BY <2>2, <2>6, <2>7, <2>9
<1>4. n \in T /\ \A i \in 1 .. n - 1 : i + 1 \in T => i \in T
  <2> HIDE DEF P
  <2> QED BY <1>1, <1>2, <1>3
<1> HIDE DEF T
<1>5. 1 \in T BY <1>1, <1>4, Downward
<1>6. PICK b : Found(new[1], b) /\ ReachFrom(b, others, 1) = ReachFrom(e, others, n)
  BY <1>5 DEF T
<1>7. b = c BY <1>6 DEF Found
<1> QED BY <1>6, <1>7

-----------------------------------------------------------------------------
(* The edits and the reads of the model.                                      *)

\* One edit of what is at the end of the way, or none if it has no end.
EditsEnd(way, steps, edits) ==
  IF way[Len(steps) + 1] = {} THEN edits = {} ELSE \E e : edits = {e}
Values(edits) == {e.value : e \in edits}

LEMMA EditedIs ==
  ASSUME NEW Js, Closed(Js), NEW v \in Js, NEW steps, AreSteps(steps), NEW makes, NEW edits,
         NEW way, way = Way(v, steps, makes),
         EditsEnd(way, steps, edits),
         NEW new, new = Remade(way, steps, Values(edits))
  PROVE  /\ Edits(way, new, steps, makes, Js) /\ Found(way[1], v)
         /\ new[Len(steps) + 1] = Values(edits)
         /\ Found(new[1], Edited(way, steps, edits).value)
<1> DEFINE n == Len(steps) + 1
<1>1. Len(steps) \in Nat /\ n \in 1 .. n /\ 1 \in 1 .. n
  BY DEF AreSteps
<1>2. Walks(way, {v}, steps, makes, 1, n) BY <1>1, WayIs
<1>3. way[1] = {v} /\ \A k \in 1 .. Len(steps) : way[k + 1] = Onward(way[k], steps[k], makes)
  <2>1. way[1] = {v} BY <1>1, <1>2 DEF Walks
  <2>2. ASSUME NEW k \in 1 .. Len(steps) PROVE way[k + 1] = Onward(way[k], steps[k], makes)
    <3>1. k + 1 \in 1 .. n /\ k + 1 # 1 /\ (k + 1) - 1 = k
      BY <1>1
    <3>2. way[k + 1] = Onward(way[(k + 1) - 1], steps[(k + 1) - 1], makes)
      BY <1>2, <3>1 DEF Walks
    <3> QED BY <3>1, <3>2
  <2> QED BY <2>1, <2>2
<1>4. \A k \in 1 .. n : AtMostOne(way[k], Js) BY WayValues
<1> DEFINE ends == Values(edits)
<1>5. Remakes(new, way, steps, ends, 1) BY <1>1, RemadeIs
<1>6. new[n] = ends /\ \A k \in 1 .. Len(steps) : new[k] = Rebuilt(new, way, steps, k)
  <2>1. \A k \in 1 .. n : new[k] = IF k = n THEN ends ELSE Rebuilt(new, way, steps, k)
    BY <1>5 DEF Remakes
  <2> HIDE DEF ends
  <2> QED BY <1>1, <2>1
<1>7. IF way[n] = {} THEN new[n] = {} ELSE \E c : Found(new[n], c)
  <2>1. CASE way[n] = {} BY <1>6, <2>1 DEF EditsEnd, Values
  <2>2. CASE way[n] # {}
    <3>1. PICK e : edits = {e} BY <2>2 DEF EditsEnd
    <3>2. ends = {e.value} BY <3>1 DEF Values
    <3> QED BY <1>6, <2>2, <3>2 DEF Found
  <2> QED BY <2>1, <2>2
<1>8. Edits(way, new, steps, makes, Js)
  BY <1>3, <1>4, <1>6, <1>7 DEF Edits
<1>9. PICK c : Found(new[1], c)
  <2>1. way[1] # {} BY <1>3
  <2> QED BY <1>1, <1>8, <2>1, NewIsOne
<1>10. Edited(way, steps, edits).value = CHOOSE u \in new[1] : TRUE
  BY DEF Edited, Values
<1>11. (CHOOSE u \in new[1] : TRUE) = c BY <1>9 DEF Found
<1>12. Found(way[1], v) BY <1>3 DEF Found
<1> QED BY <1>6, <1>8, <1>9, <1>10, <1>11, <1>12

LEMMA ReadIs ==
  ASSUME NEW v, NEW path, AreSteps(PathSteps(path))
  PROVE  GetByPath(v, path) = ReachFrom(v, PathSteps(path), 1)
<1> DEFINE steps == PathSteps(path)
<1>1. Len(steps) \in Nat /\ 1 \in 1 .. Len(steps) + 1
  BY DEF AreSteps
<1>2. GetByPath(v, path) = Way(v, steps, Looks)[Len(steps) + 1]
  BY DEF GetByPath, AtEnd, Looks
<1> HIDE DEF steps
<1>3. Walks(Way(v, steps, Looks), {v}, steps, Looks, 1, Len(steps) + 1)
  BY <1>1, WayIs
<1>4. Reach({v}, steps, Looks, 1) = Way(v, steps, Looks)[Len(steps) + 1]
  BY <1>1, <1>3, ReachIs
<1> QED BY <1>2, <1>4 DEF ReachFrom, steps

-----------------------------------------------------------------------------
(* Flattening, and the steps of a path.                                       *)

Flattens(f, seqs, n) ==
  f = [i \in 1 .. n |-> IF i = 1 THEN seqs[i] ELSE f[i - 1] \o seqs[i]]

LEMMA FlattenExists ==
  ASSUME NEW seqs
  PROVE  \A n \in Nat : \E f : Flattens(f, seqs, n)
<1> DEFINE S == {n \in Nat : \E f : Flattens(f, seqs, n)}
<1>1. 0 \in S
  <2> DEFINE f == [i \in 1 .. 0 |-> seqs[i]]
  <2>1. Flattens(f, seqs, 0) BY DEF Flattens
  <2> QED BY <2>1
<1>2. ASSUME NEW n \in Nat, n \in S PROVE n + 1 \in S
  <2>1. PICK f : Flattens(f, seqs, n) BY <1>2
  <2> DEFINE next == IF n + 1 = 1 THEN seqs[n + 1] ELSE f[n] \o seqs[n + 1]
             g == [i \in 1 .. n + 1 |-> IF i = n + 1 THEN next ELSE f[i]]
  <2> HIDE DEF next
  <2>2. ASSUME NEW i \in 1 .. n + 1
        PROVE  g[i] = IF i = 1 THEN seqs[i] ELSE g[i - 1] \o seqs[i]
    <3>1. CASE i = n + 1
      <4>1. g[i] = next /\ (i # 1 => g[i - 1] = f[n])
        BY <3>1
      <4> HIDE DEF g
      <4> QED BY <3>1, <4>1 DEF next
    <3>2. CASE i # n + 1
      <4>1. g[i] = f[i] /\ (i # 1 => g[i - 1] = f[i - 1])
        BY <3>2
      <4>2. f[i] = IF i = 1 THEN seqs[i] ELSE f[i - 1] \o seqs[i]
        <5>1. i \in 1 .. n BY <3>2
        <5> HIDE DEF g
        <5> QED BY <2>1, <5>1 DEF Flattens
      <4> HIDE DEF g
      <4> QED BY <4>1, <4>2
    <3> QED BY <3>1, <3>2
  <2>3. Flattens(g, seqs, n + 1) BY <2>2 DEF Flattens
  <2> HIDE DEF g
  <2> QED BY <2>3
<1> HIDE DEF S
<1>3. Nat \subseteq S BY <1>1, <1>2, Induction
<1> QED BY <1>3 DEF S

LEMMA FlattenIs ==
  ASSUME NEW S, NEW seqs \in Seq(Seq(S)), seqs # <<>>
  PROVE  \E f : Flattens(f, seqs, Len(seqs)) /\ FlattenSeq(seqs) = f[Len(seqs)]
<1> DEFINE f == CHOOSE g : Flattens(g, seqs, Len(seqs))
<1>1. Len(seqs) \in Nat /\ Len(seqs) # 0 OBVIOUS
<1>2. Flattens(f, seqs, Len(seqs)) BY <1>1, FlattenExists
<1>3. FlattenSeq(seqs) = f[Len(seqs)]
  BY <1>1 DEF FlattenSeq, Flattens
<1> QED BY <1>2, <1>3

LEMMA FlattenType ==
  ASSUME NEW S, NEW seqs \in Seq(Seq(S)), NEW f, NEW n \in Nat, n <= Len(seqs), Flattens(f, seqs, n)
  PROVE  \A i \in 1 .. n : f[i] \in Seq(S)
<1> DEFINE T == {i \in Nat : i + 1 <= n => f[i + 1] \in Seq(S)}
<1>1. 0 \in T BY DEF Flattens
<1>2. ASSUME NEW i \in Nat, i \in T PROVE i + 1 \in T
  <2> SUFFICES ASSUME (i + 1) + 1 <= n PROVE f[(i + 1) + 1] \in Seq(S)
    OBVIOUS
  <2>1. f[i + 1] \in Seq(S) BY <1>2
  <2>2. f[(i + 1) + 1] = f[i + 1] \o seqs[(i + 1) + 1]
    <3>1. (i + 1) + 1 \in 1 .. n /\ (i + 1) + 1 # 1 /\ ((i + 1) + 1) - 1 = i + 1
      OBVIOUS
    <3> QED BY <3>1 DEF Flattens
  <2>3. seqs[(i + 1) + 1] \in Seq(S) OBVIOUS
  <2> QED BY <2>1, <2>2, <2>3
<1> HIDE DEF T
<1>3. Nat \subseteq T BY <1>1, <1>2, Induction
<1>4. ASSUME NEW i \in 1 .. n PROVE f[i] \in Seq(S)
  <2>1. i - 1 \in T /\ (i - 1) + 1 = i BY <1>3
  <2> QED BY <2>1 DEF T
<1> QED BY <1>4

LEMMA FlattenSeqType ==
  ASSUME NEW S, NEW seqs \in Seq(Seq(S))
  PROVE  FlattenSeq(seqs) \in Seq(S)
<1>1. CASE seqs = <<>> BY <1>1 DEF FlattenSeq
<1>2. CASE seqs # <<>>
  <2>1. PICK f : Flattens(f, seqs, Len(seqs)) /\ FlattenSeq(seqs) = f[Len(seqs)]
    BY <1>2, FlattenIs
  <2>2. Len(seqs) \in Nat /\ Len(seqs) \in 1 .. Len(seqs)
    BY <1>2
  <2>3. \A i \in 1 .. Len(seqs) : f[i] \in Seq(S)
    BY <2>1, <2>2, FlattenType
  <2> QED BY <2>1, <2>2, <2>3
<1> QED BY <1>1, <1>2

Agree(s, t, n) == \A i \in 1 .. n : s[i] = t[i]

LEMMA FlattenAgree ==
  ASSUME NEW s, NEW t, NEW n \in Nat, Agree(s, t, n), NEW m \in Nat, n <= m,
         NEW f, Flattens(f, s, n), NEW g, Flattens(g, t, m)
  PROVE  Agree(f, g, n)
<1> DEFINE T == {i \in Nat : i + 1 <= n => f[i + 1] = g[i + 1]}
<1>1. 0 \in T BY DEF Flattens, Agree
<1>2. ASSUME NEW i \in Nat, i \in T PROVE i + 1 \in T
  <2> SUFFICES ASSUME (i + 1) + 1 <= n PROVE f[(i + 1) + 1] = g[(i + 1) + 1]
    OBVIOUS
  <2> DEFINE k == (i + 1) + 1
  <2>1. k \in 1 .. n /\ k \in 1 .. m /\ k # 1 /\ k - 1 = i + 1
    OBVIOUS
  <2>2. f[i + 1] = g[i + 1] BY <1>2
  <2> HIDE DEF k
  <2>3. f[k] = f[k - 1] \o s[k] /\ g[k] = g[k - 1] \o t[k]
    BY <2>1 DEF Flattens
  <2>4. s[k] = t[k] BY <2>1 DEF Agree
  <2> QED BY <2>1, <2>2, <2>3, <2>4 DEF k
<1> HIDE DEF T
<1>3. Nat \subseteq T BY <1>1, <1>2, Induction
<1>4. ASSUME NEW i \in 1 .. n PROVE f[i] = g[i]
  <2>1. i - 1 \in T /\ (i - 1) + 1 = i BY <1>3
  <2> QED BY <2>1 DEF T
<1> QED BY <1>4 DEF Agree

\* The last of the sequences comes behind the others.
LEMMA FlattenLast ==
  ASSUME NEW S, NEW s \in Seq(Seq(S)), NEW t \in Seq(Seq(S)), Len(t) = Len(s) + 1,
         Agree(s, t, Len(s))
  PROVE  FlattenSeq(t) = FlattenSeq(s) \o t[Len(t)]
<1>1. t # <<>> /\ Len(t) \in Nat /\ Len(s) \in Nat /\ t[Len(t)] \in Seq(S)
  OBVIOUS
<1>2. PICK g : Flattens(g, t, Len(t)) /\ FlattenSeq(t) = g[Len(t)]
  BY <1>1, FlattenIs
<1>3. CASE s = <<>>
  <2>1. Len(t) = 1 /\ FlattenSeq(s) = <<>>
    BY <1>3 DEF FlattenSeq
  <2>2. g[Len(t)] = t[Len(t)] BY <1>2, <2>1 DEF Flattens
  <2> QED BY <1>1, <1>2, <2>1, <2>2
<1>4. CASE s # <<>>
  <2>1. PICK f : Flattens(f, s, Len(s)) /\ FlattenSeq(s) = f[Len(s)]
    BY <1>4, FlattenIs
  <2>2. Agree(f, g, Len(s))
    <3>1. Len(s) <= Len(t) /\ Flattens(f, s, Len(s)) /\ Flattens(g, t, Len(t))
      BY <1>1, <1>2, <2>1
    <3> QED BY <1>1, <3>1, FlattenAgree
  <2>3. Len(t) \in 1 .. Len(t) /\ Len(t) # 1 /\ Len(t) - 1 = Len(s) /\ Len(s) \in 1 .. Len(s)
    BY <1>1, <1>4
  <2>4. g[Len(t)] = g[Len(t) - 1] \o t[Len(t)]
    BY <1>2, <2>3 DEF Flattens
  <2> QED BY <1>2, <2>1, <2>2, <2>3, <2>4 DEF Agree
<1> QED BY <1>3, <1>4

Steps == [into : {"field"}, key : STRING, missing : MadeOnTheWay]
           \cup [into : {"element"}, key : Int, missing : MadeOnTheWay]

LEMMA StepsAreSteps ==
  ASSUME NEW steps \in Seq(Steps)
  PROVE  AreSteps(steps)
<1>1. \A s \in Steps : IsStep(s) BY DEF Steps, IsStep
<1>2. Len(steps) \in Nat /\ \A k \in 1 .. Len(steps) : steps[k] \in Steps
  OBVIOUS
<1> QED BY <1>1, <1>2 DEF AreSteps

LEMMA IntoFieldType ==
  ASSUME NEW part \in PathParts
  PROVE  IntoField(part) \in Seq(Steps)
<1>1. CASE part.field = "" /\ part.indexes # <<>>
  <2>1. IntoField(part) = <<>> BY <1>1 DEF IntoField
  <2> QED BY <2>1
<1>2. CASE ~(part.field = "" /\ part.indexes # <<>>)
  <2> DEFINE s == [into |-> "field", key |-> part.field,
                   missing |-> IF part.indexes = <<>> THEN Object(<<>>) ELSE Array(<<>>)]
  <2>1. s \in Steps BY DEF PathParts, Steps, MadeOnTheWay
  <2>2. IntoField(part) = <<s>> BY <1>2 DEF IntoField
  <2> HIDE DEF s
  <2> QED BY <2>1, <2>2
<1> QED BY <1>1, <1>2

LEMMA IntoElementsType ==
  ASSUME NEW part \in PathParts
  PROVE  /\ IntoElements(part) \in Seq(Steps)
         /\ part.indexes = <<>> => IntoElements(part) = <<>>
<1> DEFINE step(i) == [into |-> "element", key |-> i, missing |-> Null]
           into(k) == IF part.indexes[k] = Unclosed THEN <<>> ELSE <<step(part.indexes[k])>>
           seqs == [k \in DOMAIN part.indexes |-> into(k)]
<1>1. part.indexes \in Seq(Int) BY DEF PathParts
<1>2. DOMAIN part.indexes = 1 .. Len(part.indexes) /\ Len(part.indexes) \in Nat
  BY <1>1
<1>3. ASSUME NEW k \in DOMAIN part.indexes PROVE into(k) \in Seq(Steps)
  <2>1. part.indexes[k] \in Int BY <1>1, <1>3
  <2>2. step(part.indexes[k]) \in Steps
    BY <2>1 DEF Steps, MadeOnTheWay
  <2> HIDE DEF step
  <2> QED BY <2>2
<1>4. IntoElements(part) = FlattenSeq(seqs)
  BY DEF IntoElements
<1> HIDE DEF into
<1>5. seqs \in Seq(Seq(Steps)) BY <1>2, <1>3
<1>6. part.indexes = <<>> => seqs = <<>> BY <1>2
<1>7. FlattenSeq(<<>>) = <<>> BY DEF FlattenSeq
<1> HIDE DEF seqs
<1> QED BY <1>4, <1>5, <1>6, <1>7, FlattenSeqType

PartSteps(part) == IntoField(part) \o IntoElements(part)

LEMMA PathStepsAre ==
  ASSUME NEW path \in Seq(PathParts)
  PROVE  /\ [k \in DOMAIN path |-> PartSteps(path[k])] \in Seq(Seq(Steps))
         /\ PathSteps(path) = FlattenSeq([k \in DOMAIN path |-> PartSteps(path[k])])
         /\ PathSteps(path) \in Seq(Steps)
<1>1. DOMAIN path = 1 .. Len(path) /\ Len(path) \in Nat /\ \A k \in DOMAIN path : path[k] \in PathParts
  OBVIOUS
<1>2. \A k \in DOMAIN path : PartSteps(path[k]) \in Seq(Steps)
  BY <1>1, IntoFieldType, IntoElementsType DEF PartSteps
<1>3. [k \in DOMAIN path |-> PartSteps(path[k])] \in Seq(Seq(Steps))
  BY <1>1, <1>2
<1>4. PathSteps(path) = FlattenSeq([k \in DOMAIN path |-> PartSteps(path[k])])
  BY DEF PathSteps, PartSteps
<1> QED BY <1>3, <1>4, FlattenSeqType

LEMMA PathStepsLast ==
  ASSUME NEW path \in Seq(PathParts), path # <<>>
  PROVE  /\ Front(path) \in Seq(PathParts) /\ Last(path) \in PathParts
         /\ PathSteps(path) = PathSteps(Front(path)) \o PartSteps(Last(path))
<1> DEFINE front == Front(path)
           s == [k \in DOMAIN front |-> PartSteps(front[k])]
           t == [k \in DOMAIN path |-> PartSteps(path[k])]
<1>1. Len(path) \in Nat /\ Len(path) # 0 /\ DOMAIN path = 1 .. Len(path)
  OBVIOUS
<1>2. /\ front \in Seq(PathParts) /\ Len(front) = Len(path) - 1 /\ DOMAIN front = 1 .. Len(path) - 1
      /\ \A k \in 1 .. Len(path) - 1 : front[k] = path[k]
  BY <1>1 DEF Front
<1>3. Last(path) \in PathParts /\ t[Len(path)] = PartSteps(Last(path)) /\ Len(path) \in DOMAIN path
  BY <1>1 DEF Last
<1> HIDE DEF front
<1>4. s \in Seq(Seq(Steps)) /\ PathSteps(front) = FlattenSeq(s)
  BY <1>2, PathStepsAre
<1>5. t \in Seq(Seq(Steps)) /\ PathSteps(path) = FlattenSeq(t)
  BY PathStepsAre
<1>6. Len(s) = Len(path) - 1 /\ Len(t) = Len(path)
  BY <1>1, <1>2
<1>7. Agree(s, t, Len(s)) BY <1>1, <1>2, <1>6 DEF Agree
<1> HIDE DEF s, t
<1>8. Len(t) = Len(s) + 1 BY <1>1, <1>6
<1>9. FlattenSeq(t) = FlattenSeq(s) \o t[Len(t)]
  BY <1>4, <1>5, <1>7, <1>8, FlattenLast
<1> QED BY <1>2, <1>3, <1>4, <1>5, <1>6, <1>9 DEF front

\* The field that a delete of a field takes away comes last.
LEMMA ParentStepsAre ==
  ASSUME NEW path \in Seq(PathParts), path # <<>>
  PROVE  /\ ParentSteps(path) \in Seq(Steps)
         /\ Last(path).indexes = <<>> =>
              \E s \in Steps : /\ s.into = "field" /\ s.key = Last(path).field
                               /\ PathSteps(path) = Append(ParentSteps(path), s)
<1>1. /\ Front(path) \in Seq(PathParts) /\ Last(path) \in PathParts
      /\ PathSteps(path) = PathSteps(Front(path)) \o PartSteps(Last(path))
  BY PathStepsLast
<1>2. PathSteps(Front(path)) \in Seq(Steps)
  BY <1>1, PathStepsAre
<1>3. IntoField(Last(path)) \in Seq(Steps) /\ IntoElements(Last(path)) \in Seq(Steps)
  BY <1>1, IntoFieldType, IntoElementsType
<1>4. ParentSteps(path) \in Seq(Steps)
  BY <1>2, <1>3 DEF ParentSteps
<1>5. ASSUME Last(path).indexes = <<>>
      PROVE  \E s \in Steps : /\ s.into = "field" /\ s.key = Last(path).field
                              /\ PathSteps(path) = Append(ParentSteps(path), s)
  <2> DEFINE s == [into |-> "field", key |-> Last(path).field, missing |-> Object(<<>>)]
  <2>1. IntoField(Last(path)) = <<s>> BY <1>5 DEF IntoField
  <2>2. s \in Steps /\ s.into = "field" /\ s.key = Last(path).field
    BY <1>1 DEF PathParts, Steps, MadeOnTheWay
  <2>3. PartSteps(Last(path)) = <<s>>
    <3>1. IntoElements(Last(path)) = <<>>
      BY <1>1, <1>5, IntoElementsType
    <3> HIDE DEF s
    <3> QED BY <2>1, <2>2, <3>1 DEF PartSteps
  <2>4. ParentSteps(path) = PathSteps(Front(path))
    BY <1>2, <1>5 DEF ParentSteps
  <2> HIDE DEF s
  <2>5. PathSteps(path) = Append(ParentSteps(path), s)
    BY <1>1, <1>2, <2>2, <2>3, <2>4
  <2> QED BY <2>2, <2>5
<1> QED BY <1>4, <1>5

\* Where two ways part first.
PartAt(steps, others, d) ==
  d <= Len(others) /\ ~SameStep(steps[d], others[d]) /\ SameSteps(steps, others, d - 1)

LEMMA FirstParting ==
  ASSUME NEW steps, AreSteps(steps), NEW others, AreSteps(others), ~Touches(steps, others)
  PROVE  \E d \in 1 .. Len(steps) : PartAt(steps, others, d)
<1> DEFINE T == {i \in 1 .. Len(steps) : i <= Len(others) /\ ~SameStep(steps[i], others[i])}
<1>1. Len(steps) \in Nat /\ Len(others) \in Nat
  BY DEF AreSteps
<1>2. T # {} /\ T \subseteq Nat BY <1>1 DEF Touches
<1>3. PICK d \in T : \A i \in T : d <= i
  <2> HIDE DEF T
  <2> QED BY <1>2, LeastNatural
<1>4. ASSUME NEW i \in 1 .. d - 1 PROVE SameStep(steps[i], others[i])
  <2>1. i \in 1 .. Len(steps) /\ i <= Len(others) /\ ~(d <= i)
    BY <1>1
  <2>2. i \notin T BY <1>3, <2>1
  <2> QED BY <2>1, <2>2
<1> QED BY <1>4 DEF PartAt, SameSteps

\* A way that parts from an edit's within the edit's leads where it led.
LEMMA EditKeeps ==
  ASSUME NEW Js, Closed(Js), NEW v \in Js, NEW steps, AreSteps(steps), NEW makes, NEW edits,
         NEW way, way = Way(v, steps, makes),
         EditsEnd(way, steps, edits),
         NEW others, AreSteps(others), NEW d \in 1 .. Len(steps),
         PartAt(steps, others, d)
  PROVE  ReachFrom(Edited(way, steps, edits).value, others, 1) = ReachFrom(v, others, 1)
<1> DEFINE new == Remade(way, steps, Values(edits))
           after == Edited(way, steps, edits).value
<1>1. Edits(way, new, steps, makes, Js) /\ Found(way[1], v) /\ Found(new[1], after)
  BY EditedIs
<1> HIDE DEF new, after
<1>2. Kept(way, new, others, d)
  BY <1>1, KeptWhereTheyPart DEF PartAt
<1>3. d \in 1 .. Len(steps) + 1 BY DEF AreSteps
<1>4. Kept(way, new, others, 1)
  BY <1>1, <1>2, <1>3, KeptFromTheStart DEF PartAt
<1>5. PICK c : Found(new[1], c) /\ ReachFrom(c, others, 1) = ReachFrom(v, others, 1)
  BY <1>1, <1>4 DEF Kept
<1>6. c = after BY <1>1, <1>5 DEF Found
<1> QED BY <1>5, <1>6 DEF after

\* What is found at the end of a way, and the edits made of it.
LEMMA EndIsOne ==
  ASSUME NEW Js, Closed(Js), NEW v \in Js, NEW steps, AreSteps(steps), NEW makes
  PROVE  LET found == AtEnd(Way(v, steps, makes), steps)
         IN found = {} \/ \E w : found = {w} /\ IsValue(w)
<1> DEFINE found == Way(v, steps, makes)[Len(steps) + 1]
<1>1. Len(steps) + 1 \in 1 .. Len(steps) + 1 BY DEF AreSteps
<1>2. AtMostOne(found, Js) BY <1>1, WayValues
<1>3. \A w \in Js \cup MadeOnTheWay : IsValue(w)
  BY MadeIsAValue DEF Closed
<1> QED BY <1>2, <1>3 DEF AtMostOne, AtEnd

-----------------------------------------------------------------------------
(* Overwrites and adds.                                                      *)

SetEdits(v, path, new) ==
  {Done(new) : w \in AtEnd(Way(v, PathSteps(path), Makes), PathSteps(path))}

LEMMA SetIs ==
  ASSUME NEW Js, Closed(Js), NEW v \in Js, NEW path \in Seq(PathParts), NEW new
  PROVE  LET steps == PathSteps(path)
             way == Way(v, steps, Makes)
             edits == SetEdits(v, path, new)
         IN /\ AreSteps(steps) /\ EditsEnd(way, steps, edits)
            /\ edits # {} => edits = {Done(new)} /\ \E w : Found(way[Len(steps) + 1], w)
            /\ SetByPath(v, path, new) = Edited(way, steps, edits)
<1> DEFINE steps == PathSteps(path)
           way == Way(v, steps, Makes)
           edits == SetEdits(v, path, new)
           n == Len(steps) + 1
<1>1. AreSteps(steps) BY PathStepsAre, StepsAreSteps
<1>2. SetByPath(v, path, new) = Edited(way, steps, edits)
  BY DEF SetByPath, SetEdits, Makes
<1>3. edits = {Done(new) : w \in way[n]}
  BY DEF AtEnd, SetEdits
<1>4. way[n] = {} \/ \E w : way[n] = {w}
  BY <1>1, EndIsOne DEF AtEnd
<1> HIDE DEF way, edits
<1>5. EditsEnd(way, steps, edits) /\ (edits # {} => edits = {Done(new)} /\ \E w : Found(way[n], w))
  <2>1. CASE way[n] = {} BY <1>3, <2>1 DEF EditsEnd
  <2>2. ASSUME NEW w, way[n] = {w}
        PROVE  EditsEnd(way, steps, edits) /\ edits = {Done(new)} /\ Found(way[n], w)
    <3>1. edits = {Done(new)} BY <1>3, <2>2
    <3> QED BY <2>2, <3>1 DEF EditsEnd, Found
  <2> QED BY <1>4, <2>1, <2>2
<1> QED BY <1>1, <1>2, <1>5 DEF way, edits

LEMMA SetKeeps ==
  ASSUME NEW Js, Closed(Js), NEW v \in Js, NEW path \in Seq(PathParts), NEW new,
         NEW other \in Seq(PathParts), ~Touches(PathSteps(path), PathSteps(other))
  PROVE  GetByPath(SetByPath(v, path, new).value, other) = GetByPath(v, other)
<1> DEFINE steps == PathSteps(path)
           others == PathSteps(other)
           way == Way(v, steps, Makes)
           edits == SetEdits(v, path, new)
<1>1. /\ AreSteps(steps) /\ SetByPath(v, path, new) = Edited(way, steps, edits)
      /\ EditsEnd(way, steps, edits)
  BY SetIs
<1>2. AreSteps(others) BY PathStepsAre, StepsAreSteps
<1>3. ~Touches(steps, others) OBVIOUS
<1>4. \A u : GetByPath(u, other) = ReachFrom(u, others, 1)
  BY <1>2, ReadIs
<1> HIDE DEF steps, others, edits
<1>5. PICK d \in 1 .. Len(steps) : PartAt(steps, others, d)
  BY <1>1, <1>2, <1>3, FirstParting
<1>6. ReachFrom(Edited(way, steps, edits).value, others, 1) = ReachFrom(v, others, 1)
  BY <1>1, <1>2, <1>5, EditKeeps
<1> QED BY <1>1, <1>4, <1>6

LEMMA SetReads ==
  ASSUME NEW Js, Closed(Js), NEW v \in Js, NEW path \in Seq(PathParts), NEW new,
         SetByPath(v, path, new).ok
  PROVE  Found(GetByPath(SetByPath(v, path, new).value, path), new)
<1> DEFINE steps == PathSteps(path)
           way == Way(v, steps, Makes)
           edits == SetEdits(v, path, new)
           news == Remade(way, steps, Values(edits))
           after == Edited(way, steps, edits).value
           n == Len(steps) + 1
<1>1. /\ AreSteps(steps) /\ SetByPath(v, path, new) = Edited(way, steps, edits)
      /\ EditsEnd(way, steps, edits)
      /\ edits # {} => edits = {Done(new)} /\ \E w : Found(way[n], w)
  BY SetIs
<1>2. GetByPath(after, path) = ReachFrom(after, steps, 1)
  BY <1>1, ReadIs
<1> HIDE DEF steps, edits
<1>4. edits # {} BY <1>1 DEF Edited
<1>5. PICK w : Found(way[n], w) BY <1>1, <1>4
<1>6. edits = {Done(new)} BY <1>1, <1>4
<1>7. /\ Edits(way, news, steps, Makes, Js) /\ Found(news[1], after)
      /\ news[n] = Values(edits)
  BY <1>1, EditedIs
<1>8. Found(news[n], new)
  BY <1>6, <1>7 DEF Found, Done, Values
<1>9. SameSteps(steps, steps, Len(steps))
  BY DEF SameStep, SameSteps
<1> HIDE DEF way, news, after
<1>10. ReachFrom(after, steps, 1) = ReachFrom(new, steps, n)
  <2>1. Len(steps) <= Len(steps) BY <1>1 DEF AreSteps
  <2>2. n = Len(steps) + 1 OBVIOUS
  <2>3. way[n] # {} BY <1>5 DEF Found
  <2> HIDE DEF n
  <2> QED BY <1>1, <1>7, <1>8, <1>9, <2>1, <2>2, <2>3, ReadAlong
<1>11. ReachFrom(new, steps, n) = {new}
  BY <1>1, ReachAtEnd DEF ReachFrom, AreSteps
<1> QED BY <1>1, <1>2, <1>10, <1>11 DEF after, Found

-----------------------------------------------------------------------------
(* Deletes.                                                                  *)

\* A field that is taken away leads nowhere, and the other steps are as they were.
LEMMA FieldTaken ==
  ASSUME NEW v, IsValue(v), NEW last, last.indexes = <<>>, NEW e, e = Deleted(v, last).value,
         NEW t, IsStep(t)
  PROVE  /\ t.into = "field" /\ t.key = last.field => ~Leads(e, t, Looks)
         /\ ~(t.into = "field" /\ t.key = last.field) =>
              /\ Leads(e, t, Looks) <=> Leads(v, t, Looks)
              /\ Leads(v, t, Looks) => Into(e, t) = Into(v, t)
<1>1. e = IF v.type = "object" THEN WithoutField(v, last.field) ELSE v
  BY DEF Deleted, Done
<1>2. CASE v.type # "object"
  BY <1>1, <1>2 DEF Leads, Into, HasField, Looks
<1>3. CASE v.type = "object"
  <2>1. /\ e.type = "object"
        /\ e.fields = [k \in DOMAIN v.fields \ {last.field} |-> v.fields[k]]
    BY <1>1, <1>3 DEF WithoutField, IsValue
  <2>2. CASE t.into = "element"
    BY <1>3, <2>1, <2>2 DEF Leads, HasElement
  <2>3. CASE t.into = "field"
    <3>1. HasField(e, t.key) <=> HasField(v, t.key) /\ t.key # last.field
      BY <1>3, <2>1 DEF HasField
    <3>2. HasField(v, t.key) /\ t.key # last.field => e.fields[t.key] = v.fields[t.key]
      BY <2>1 DEF HasField
    <3>3. /\ Leads(e, t, Looks) <=> HasField(e, t.key)
          /\ Leads(v, t, Looks) <=> HasField(v, t.key)
      BY <2>3 DEF Leads, Looks
    <3>4. /\ HasField(e, t.key) => Into(e, t) = e.fields[t.key]
          /\ HasField(v, t.key) => Into(v, t) = v.fields[t.key]
      BY <2>3 DEF Into
    <3> QED BY <3>1, <3>2, <3>3, <3>4, <2>3
  <2> QED BY <2>2, <2>3 DEF IsStep
<1> QED BY <1>2, <1>3

DeleteEdits(v, path) ==
  {Deleted(parent, Last(path)) :
     parent \in AtEnd(Way(v, ParentSteps(path), Looks), ParentSteps(path))}

LEMMA DeleteIs ==
  ASSUME NEW Js, Closed(Js), NEW v \in Js, NEW path \in Seq(PathParts), path # <<>>
  PROVE  LET steps == ParentSteps(path)
             way == Way(v, steps, Looks)
             edits == DeleteEdits(v, path)
         IN /\ AreSteps(steps) /\ EditsEnd(way, steps, edits)
            /\ DeleteByPath(v, path) = Edited(way, steps, edits)
            /\ \A w : Found(way[Len(steps) + 1], w) =>
                        IsValue(w) /\ edits = {Deleted(w, Last(path))}
            /\ edits # {} => \E w : Found(way[Len(steps) + 1], w)
<1> DEFINE steps == ParentSteps(path)
           way == Way(v, steps, Looks)
           edits == DeleteEdits(v, path)
           n == Len(steps) + 1
<1>1. AreSteps(steps) BY ParentStepsAre, StepsAreSteps
<1>2. DeleteByPath(v, path) = Edited(way, steps, edits)
  BY DEF DeleteByPath, DeleteEdits, Looks
<1>3. edits = {Deleted(w, Last(path)) : w \in way[n]}
  BY DEF AtEnd, DeleteEdits
<1>4. way[n] = {} \/ \E w : way[n] = {w} /\ IsValue(w)
  BY <1>1, EndIsOne DEF AtEnd
<1> HIDE DEF way, edits
<1>5. /\ EditsEnd(way, steps, edits)
      /\ \A w : Found(way[n], w) => IsValue(w) /\ edits = {Deleted(w, Last(path))}
      /\ edits # {} => \E w : Found(way[n], w)
  <2>1. CASE way[n] = {} BY <1>3, <2>1 DEF EditsEnd, Found
  <2>2. ASSUME NEW w, way[n] = {w}, IsValue(w)
        PROVE  /\ EditsEnd(way, steps, edits)
               /\ \A u : Found(way[n], u) => IsValue(u) /\ edits = {Deleted(u, Last(path))}
               /\ \E u : Found(way[n], u)
    <3>1. edits = {Deleted(w, Last(path))} BY <1>3, <2>2
    <3>2. \A u : Found(way[n], u) => u = w BY <2>2 DEF Found
    <3>3. Found(way[n], w) BY <2>2 DEF Found
    <3>4. EditsEnd(way, steps, edits)
      BY <2>2, <3>1 DEF EditsEnd
    <3> QED BY <2>2, <3>1, <3>2, <3>3, <3>4
  <2> QED BY <1>4, <2>1, <2>2
<1> QED BY <1>1, <1>2, <1>5 DEF way, edits

LEMMA DeleteOfElementsKeeps ==
  ASSUME NEW Js, Closed(Js), NEW v \in Js, NEW path \in Seq(PathParts), path # <<>>,
         NEW other \in Seq(PathParts), ~Touches(ParentSteps(path), PathSteps(other))
  PROVE  GetByPath(DeleteByPath(v, path).value, other) = GetByPath(v, other)
<1> DEFINE steps == ParentSteps(path)
           others == PathSteps(other)
           way == Way(v, steps, Looks)
           edits == DeleteEdits(v, path)
<1>1. /\ AreSteps(steps) /\ DeleteByPath(v, path) = Edited(way, steps, edits)
      /\ EditsEnd(way, steps, edits)
  BY DeleteIs
<1>2. AreSteps(others) BY PathStepsAre, StepsAreSteps
<1>3. ~Touches(steps, others) OBVIOUS
<1>4. \A u : GetByPath(u, other) = ReachFrom(u, others, 1)
  BY <1>2, ReadIs
<1> HIDE DEF steps, others, edits
<1>5. PICK d \in 1 .. Len(steps) : PartAt(steps, others, d)
  BY <1>1, <1>2, <1>3, FirstParting
<1>6. ReachFrom(Edited(way, steps, edits).value, others, 1) = ReachFrom(v, others, 1)
  BY <1>1, <1>2, <1>5, EditKeeps
<1> QED BY <1>1, <1>4, <1>6

LEMMA DeleteOfAFieldKeeps ==
  ASSUME NEW Js, Closed(Js), NEW v \in Js, NEW path \in Seq(PathParts), path # <<>>,
         Last(path).indexes = <<>>,
         NEW other \in Seq(PathParts), ~Touches(PathSteps(path), PathSteps(other))
  PROVE  GetByPath(DeleteByPath(v, path).value, other) = GetByPath(v, other)
<1> DEFINE steps == ParentSteps(path)
           all == PathSteps(path)
           others == PathSteps(other)
           way == Way(v, steps, Looks)
           edits == DeleteEdits(v, path)
           new == Remade(way, steps, Values(edits))
           after == Edited(way, steps, edits).value
           last == Last(path)
           n == Len(steps) + 1
<1>1. /\ AreSteps(steps) /\ DeleteByPath(v, path) = Edited(way, steps, edits)
      /\ EditsEnd(way, steps, edits)
      /\ \A w : Found(way[n], w) => IsValue(w) /\ edits = {Deleted(w, last)}
  BY DeleteIs
<1>2. AreSteps(others) /\ AreSteps(all)
  BY PathStepsAre, StepsAreSteps
<1>3. ~Touches(all, others) /\ last.indexes = <<>> OBVIOUS
<1>4. \A u : GetByPath(u, other) = ReachFrom(u, others, 1)
  BY <1>2, ReadIs
<1>5. /\ Len(all) = n /\ \A i \in 1 .. Len(steps) : all[i] = steps[i]
      /\ all[n].into = "field" /\ all[n].key = last.field
  <2>1. PICK s \in Steps : s.into = "field" /\ s.key = last.field /\ all = Append(steps, s)
    BY ParentStepsAre
  <2>2. steps \in Seq(Steps) BY ParentStepsAre
  <2> HIDE DEF all, steps, last
  <2> QED BY <2>1, <2>2
<1>6. n \in Nat /\ n \in 1 .. n BY <1>1 DEF AreSteps
<1> HIDE DEF steps, others, edits, all, last
<1>7. PICK d \in 1 .. n : PartAt(all, others, d)
  BY <1>2, <1>3, <1>5, FirstParting
<1>8. ReachFrom(after, others, 1) = ReachFrom(v, others, 1)
  <2>1. CASE d # n
    <3>1. d \in 1 .. Len(steps) BY <1>6, <2>1
    <3>2. PartAt(steps, others, d)
      BY <1>5, <1>7, <3>1 DEF PartAt, SameSteps
    <3> QED BY <1>1, <1>2, <3>1, <3>2, EditKeeps
  <2>2. CASE d = n
    <3>1. /\ Edits(way, new, steps, Looks, Js) /\ Found(way[1], v) /\ Found(new[1], after)
          /\ new[n] = Values(edits)
      BY <1>1, EditedIs
    <3>2. n <= Len(others) /\ SameSteps(steps, others, n - 1) /\ n \in 1 .. Len(others)
      BY <1>2, <1>5, <1>6, <1>7, <2>2 DEF PartAt, SameSteps, AreSteps
    <3>3. ~(others[n].into = "field" /\ others[n].key = last.field) /\ IsStep(others[n])
      BY <1>2, <1>5, <1>7, <2>2, <3>2 DEF PartAt, SameStep, AreSteps
    <3> HIDE DEF way, new, after
    <3>4. ASSUME NEW w, Found(way[n], w)
          PROVE  \E c : Found(new[n], c) /\ ReachFrom(c, others, n) = ReachFrom(w, others, n)
      <4> DEFINE c == Deleted(w, last).value
      <4>1. IsValue(w) /\ edits = {Deleted(w, last)}
        BY <1>1, <3>4
      <4>2. Found(new[n], c) BY <3>1, <4>1 DEF Found, Values
      <4>3. /\ Leads(c, others[n], Looks) <=> Leads(w, others[n], Looks)
            /\ Leads(w, others[n], Looks) => Into(c, others[n]) = Into(w, others[n])
        BY <1>3, <3>3, <4>1, FieldTaken
      <4> HIDE DEF c, n
      <4>4. CASE Leads(w, others[n], Looks)
        <5>1. ReachFrom(w, others, n) = ReachFrom(Into(w, others[n]), others, n + 1)
          BY <1>2, <3>2, <4>4, ReachLeads
        <5>2. ReachFrom(c, others, n) = ReachFrom(Into(c, others[n]), others, n + 1)
          BY <1>2, <3>2, <4>3, <4>4, ReachLeads
        <5> QED BY <4>2, <4>3, <4>4, <5>1, <5>2
      <4>5. CASE ~Leads(w, others[n], Looks)
        <5>1. ReachFrom(w, others, n) = {}
          BY <1>2, <3>2, <4>5, ReachStops
        <5>2. ReachFrom(c, others, n) = {}
          BY <1>2, <3>2, <4>3, <4>5, ReachStops
        <5> QED BY <4>2, <5>1, <5>2
      <4> QED BY <4>4, <4>5
    <3>5. Kept(way, new, others, n) BY <3>4 DEF Kept
    <3>6. Kept(way, new, others, 1)
      BY <1>2, <1>6, <3>1, <3>2, <3>5, KeptFromTheStart
    <3>7. PICK c : Found(new[1], c) /\ ReachFrom(c, others, 1) = ReachFrom(v, others, 1)
      BY <3>1, <3>6 DEF Kept
    <3>8. c = after BY <3>1, <3>7 DEF Found
    <3> QED BY <3>7, <3>8
  <2> QED BY <2>1, <2>2
<1> QED BY <1>1, <1>4, <1>8 DEF after

LEMMA DeleteOfAFieldReads ==
  ASSUME NEW Js, Closed(Js), NEW v \in Js, NEW path \in Seq(PathParts), path # <<>>,
         Last(path).indexes = <<>>, DeleteByPath(v, path).ok
  PROVE  GetByPath(DeleteByPath(v, path).value, path) = {}
<1> DEFINE steps == ParentSteps(path)
           all == PathSteps(path)
           way == Way(v, steps, Looks)
           edits == DeleteEdits(v, path)
           new == Remade(way, steps, Values(edits))
           after == Edited(way, steps, edits).value
           last == Last(path)
           n == Len(steps) + 1
<1>1. /\ AreSteps(steps) /\ DeleteByPath(v, path) = Edited(way, steps, edits)
      /\ EditsEnd(way, steps, edits)
      /\ \A w : Found(way[n], w) => IsValue(w) /\ edits = {Deleted(w, last)}
      /\ edits # {} => \E w : Found(way[n], w)
  BY DeleteIs
<1>2. AreSteps(all) BY PathStepsAre, StepsAreSteps
<1>3. GetByPath(after, path) = ReachFrom(after, all, 1)
  BY <1>2, ReadIs
<1>4. /\ Len(all) = n /\ \A i \in 1 .. Len(steps) : all[i] = steps[i]
      /\ all[n].into = "field" /\ all[n].key = last.field /\ last.indexes = <<>>
  <2>1. PICK s \in Steps : s.into = "field" /\ s.key = last.field /\ all = Append(steps, s)
    BY ParentStepsAre
  <2>2. steps \in Seq(Steps) /\ last.indexes = <<>>
    BY ParentStepsAre
  <2> HIDE DEF all, steps, last
  <2> QED BY <2>1, <2>2
<1>5. n \in Nat /\ n \in 1 .. Len(all) /\ Len(steps) <= Len(all)
  BY <1>1, <1>4 DEF AreSteps
<1> HIDE DEF steps, edits, all, last
<1>6. edits # {} BY <1>1 DEF Edited
<1>7. PICK w : Found(way[n], w) BY <1>1, <1>6
<1>8. IsValue(w) /\ edits = {Deleted(w, last)} BY <1>1, <1>7
<1>9. /\ Edits(way, new, steps, Looks, Js) /\ Found(new[1], after)
      /\ new[n] = Values(edits)
  BY <1>1, EditedIs
<1> DEFINE e == Deleted(w, last).value
<1>10. Found(new[n], e) BY <1>8, <1>9 DEF Found, Values
<1>11. SameSteps(steps, all, Len(steps))
  BY <1>4 DEF SameStep, SameSteps
<1>12. way[n] # {} BY <1>7 DEF Found
<1>13. n = Len(steps) + 1 OBVIOUS
<1>14. ~Leads(e, all[n], Looks)
  <2>1. IsStep(all[n]) BY <1>2, <1>5 DEF AreSteps
  <2> QED BY <1>4, <1>8, <2>1, FieldTaken
<1> HIDE DEF way, new, after, e, n
<1>15. ReachFrom(after, all, 1) = ReachFrom(e, all, n)
  BY <1>2, <1>5, <1>9, <1>10, <1>11, <1>12, <1>13, ReadAlong
<1>16. ReachFrom(e, all, n) = {}
  BY <1>2, <1>5, <1>14, ReachStops
<1> QED BY <1>1, <1>3, <1>15, <1>16 DEF after

LEMMA ValuesAreClosed == Closed(JsonValues)
BY JsonAssumption DEF Closed, IsValue

LEMMA RulesAreRead ==
  ASSUME NEW rule, rule.path \in Seq(PathParts), NEW v \in JsonValues
  PROVE  ReadsAsRewritten(rule, v, Transformed(v, rule).value)
<1>1. CASE rule.action # "delete"
  <2>1. Transformed(v, rule) = SetByPath(v, rule.path, rule.value)
    BY <1>1 DEF Transformed
  <2>2. ASSUME Transformed(v, rule).ok
        PROVE  GetByPath(Transformed(v, rule).value, rule.path) = {rule.value}
    <3>1. SetByPath(v, rule.path, rule.value).ok
      BY <2>1, <2>2
    <3>2. Found(GetByPath(SetByPath(v, rule.path, rule.value).value, rule.path), rule.value)
      BY <3>1, ValuesAreClosed, SetReads
    <3> QED BY <2>1, <3>2 DEF Found
  <2> QED BY <1>1, <2>2 DEF ReadsAsRewritten
<1>2. CASE rule.action = "delete"
  <2>1. Transformed(v, rule) = DeleteByPath(v, rule.path)
    BY <1>2 DEF Transformed
  <2>2. ASSUME Transformed(v, rule).ok, rule.path # <<>>, Last(rule.path).indexes = <<>>
        PROVE  GetByPath(Transformed(v, rule).value, rule.path) = {}
    BY <2>1, <2>2, ValuesAreClosed, DeleteOfAFieldReads
  <2> QED BY <1>2, <2>2 DEF ReadsAsRewritten
<1> QED BY <1>1, <1>2

LEMMA RulesKeep ==
  ASSUME NEW rule, rule.path \in Seq(PathParts), NEW v \in JsonValues,
         NEW other, other.path \in Seq(PathParts),
         ~Touches(ChangedAt(rule), PathSteps(other.path))
  PROVE  GetByPath(v, other.path) = GetByPath(Transformed(v, rule).value, other.path)
<1>1. CASE rule.action # "delete"
  <2>1. Transformed(v, rule) = SetByPath(v, rule.path, rule.value)
    BY <1>1 DEF Transformed
  <2>2. ~Touches(PathSteps(rule.path), PathSteps(other.path))
    BY <1>1 DEF ChangedAt
  <2> QED BY <2>1, <2>2, ValuesAreClosed, SetKeeps
<1>2. CASE rule.action = "delete"
  <2>1. Transformed(v, rule) = DeleteByPath(v, rule.path)
    BY <1>2 DEF Transformed
  <2>2. rule.path # <<>>
    <3>1. PathSteps(<<>>) = <<>>
      <4> DEFINE seqs == [k \in DOMAIN <<>> |-> PartSteps(<<>>[k])]
      <4>1. PathSteps(<<>>) = FlattenSeq(seqs)
        BY DEF PathSteps, PartSteps
      <4>2. seqs = <<>> OBVIOUS
      <4>3. FlattenSeq(<<>>) = <<>> BY DEF FlattenSeq
      <4> HIDE DEF seqs
      <4> QED BY <4>1, <4>2, <4>3
    <3>2. Len(<<>>) = 0 OBVIOUS
    <3>3. rule.path = <<>> => ChangedAt(rule) = <<>>
      BY <3>1 DEF ChangedAt
    <3> QED BY <3>2, <3>3 DEF Touches
  <2>3. CASE Last(rule.path).indexes # <<>>
    <3>1. ~Touches(ParentSteps(rule.path), PathSteps(other.path))
      BY <1>2, <2>2, <2>3 DEF ChangedAt
    <3> QED BY <2>1, <2>2, <3>1, ValuesAreClosed, DeleteOfElementsKeeps
  <2>4. CASE Last(rule.path).indexes = <<>>
    <3>1. ~Touches(PathSteps(rule.path), PathSteps(other.path))
      BY <1>2, <2>4 DEF ChangedAt
    <3> QED BY <2>1, <2>2, <2>4, <3>1, ValuesAreClosed, DeleteOfAFieldKeeps
  <2> QED BY <2>3, <2>4
<1> QED BY <1>1, <1>2

LEMMA BodiesAreRewritten == ASSUME Given PROVE BodyIsRewritten
<1> SUFFICES ASSUME Rewrites, chosen # 0, Location.rewrite # <<>>, Location.rewrite[1].body # <<>>,
                    request.body.type = "json"
             PROVE  LET rule == Location.rewrite[1].body[1]
                    IN /\ ReadsAsRewritten(rule, request.body.value, sent'.body)
                       /\ OthersAreKept(rule, request.body.value, sent'.body)
  BY DEF BodyIsRewritten
<1> DEFINE rewrite == Location.rewrite[1]
           rule == rewrite.body[1]
           v == request.body.value
<1>1. PICK c \in Cases : engine = c.engine /\ request = c.request
  BY DEF Given
<1>2. v \in JsonValues BY <1>1, JsonAssumption
<1>3. rule \in BodyRules
  <2>1. chosen \in DOMAIN c.engine.locations
    BY <1>1 DEF Given
  <2>2. Location \in ToSet(c.engine.locations)
    BY <1>1, <2>1 DEF Location, ToSet
  <2>3. Location \in {m \in UNION {ToSet(k.engine.locations) : k \in Cases} :
                        m.rewrite # <<>> /\ m.rewrite[1].body # <<>>}
    BY <2>2
  <2> QED BY <2>3 DEF BodyRules
<1>4. rule.path \in Seq(PathParts) BY <1>3, JsonAssumption
<1>5. PICK order, engineOrder : sent' = Rewritten(request, rewrite, order, engineOrder)
  BY DEF Rewrites
<1>6. sent'.body = Transformed(v, rule).value
  <2>1. sent'.body = BodySent(request.body, rule)
    <3> HIDE DEF rewrite
    <3>1. rewrite.body # <<>> BY DEF rewrite
    <3> QED BY <1>5, <3>1 DEF Rewritten
  <2> HIDE DEF rule
  <2> QED BY <2>1 DEF BodySent
<1> HIDE DEF rule, v
<1>7. ReadsAsRewritten(rule, v, sent'.body)
  BY <1>2, <1>4, <1>6, RulesAreRead
<1>8. OthersAreKept(rule, v, sent'.body)
  <2> SUFFICES ASSUME NEW other \in BodyRules, ~Touches(ChangedAt(rule), PathSteps(other.path))
               PROVE  GetByPath(v, other.path) = GetByPath(sent'.body, other.path)
    BY DEF OthersAreKept
  <2>1. other.path \in Seq(PathParts) BY JsonAssumption
  <2>2. GetByPath(v, other.path) = GetByPath(Transformed(v, rule).value, other.path)
    BY <1>2, <1>4, <2>1, RulesKeep
  <2> QED BY <1>6, <2>2
<1> QED BY <1>7, <1>8 DEF rule, v

\* What lies on another path than a rule's is untouched by it, even where it fails
\* half-way, and what the rule set reads as set (body.rs).
THEOREM RewritesAreLocal == Spec => RewritesTouchOnlyTheirPath
<1>1. Given => BodyIsRewritten BY BodiesAreRewritten
<1> QED BY <1>1, InitGiven, NextGiven, PTL DEF Spec, RewritesTouchOnlyTheirPath

-----------------------------------------------------------------------------
(* Texts and their parts.                                                   *)

\* Split reads a text character by character.
SplitBy(f, s, at, n) ==
  f = [k \in 0 .. n |-> IF k = 0 THEN << <<>> >> ELSE Grown(f[k - 1], s[k], at)]

LEMMA SplitByExists ==
  ASSUME NEW at, NEW s
  PROVE  \A n \in Nat : \E f : SplitBy(f, s, at, n)
<1> DEFINE S == {n \in Nat : \E f : SplitBy(f, s, at, n)}
<1>1. 0 \in S
  <2> DEFINE f == [k \in 0 .. 0 |-> << <<>> >>]
  <2>1. SplitBy(f, s, at, 0) BY DEF SplitBy
  <2> QED BY <2>1
<1>2. ASSUME NEW n \in Nat, n \in S PROVE n + 1 \in S
  <2>1. PICK f : SplitBy(f, s, at, n) BY <1>2
  <2> DEFINE next == Grown(f[n], s[n + 1], at)
             g == [k \in 0 .. n + 1 |-> IF k = n + 1 THEN next ELSE f[k]]
  <2> HIDE DEF next
  <2>2. ASSUME NEW k \in 0 .. n + 1
        PROVE  g[k] = IF k = 0 THEN << <<>> >> ELSE Grown(g[k - 1], s[k], at)
    <3>1. CASE k = n + 1
      <4>1. g[k] = next /\ g[k - 1] = f[n] /\ k # 0 BY <3>1
      <4> HIDE DEF g
      <4> QED BY <3>1, <4>1 DEF next
    <3>2. CASE k # n + 1
      <4>1. k \in 0 .. n /\ g[k] = f[k] /\ (k # 0 => g[k - 1] = f[k - 1])
        BY <3>2
      <4> HIDE DEF g
      <4>2. f[k] = IF k = 0 THEN << <<>> >> ELSE Grown(f[k - 1], s[k], at)
        BY <2>1, <4>1 DEF SplitBy
      <4> QED BY <4>1, <4>2
    <3> QED BY <3>1, <3>2
  <2>3. SplitBy(g, s, at, n + 1) BY <2>2 DEF SplitBy
  <2> HIDE DEF g
  <2> QED BY <2>3
<1> HIDE DEF S
<1>3. Nat \subseteq S BY <1>1, <1>2, Induction
<1> QED BY <1>3 DEF S

LEMMA SplitByAgree ==
  ASSUME NEW at, NEW s, NEW t, NEW n \in Nat, NEW m \in Nat, n <= m, Agree(s, t, n),
         NEW f, SplitBy(f, s, at, n), NEW g, SplitBy(g, t, at, m)
  PROVE  f[n] = g[n]
<1> DEFINE S == {k \in Nat : k <= n => f[k] = g[k]}
<1>1. 0 \in S BY DEF SplitBy
<1>2. ASSUME NEW k \in Nat, k \in S PROVE k + 1 \in S
  <2> SUFFICES ASSUME k + 1 <= n PROVE f[k + 1] = g[k + 1]
    OBVIOUS
  <2>1. k + 1 \in 0 .. n /\ k + 1 \in 0 .. m /\ k + 1 # 0 /\ (k + 1) - 1 = k /\ k + 1 \in 1 .. n
    OBVIOUS
  <2>2. f[k] = g[k] /\ s[k + 1] = t[k + 1]
    BY <1>2, <2>1 DEF Agree
  <2>3. f[k + 1] = Grown(f[k], s[k + 1], at)
    BY <2>1 DEF SplitBy
  <2>4. g[k + 1] = Grown(g[k], t[k + 1], at)
    BY <2>1 DEF SplitBy
  <2> QED BY <2>2, <2>3, <2>4
<1> HIDE DEF S
<1>3. Nat \subseteq S BY <1>1, <1>2, Induction
<1> QED BY <1>3 DEF S

LEMMA SplitIs ==
  ASSUME NEW at, NEW s, Len(s) \in Nat
  PROVE  \E f : SplitBy(f, s, at, Len(s)) /\ Split(s, at) = f[Len(s)]
<1> DEFINE f == CHOOSE g : SplitBy(g, s, at, Len(s))
<1>1. SplitBy(f, s, at, Len(s)) BY SplitByExists
<1>2. Split(s, at) = f[Len(s)] BY DEF Split, SplitBy
<1> QED BY <1>1, <1>2

LEMMA SplitOfNone ==
  ASSUME NEW at, NEW s, s = <<>>
  PROVE  Split(s, at) = << <<>> >>
<1>1. Len(s) = 0 /\ Len(s) \in Nat OBVIOUS
<1>2. PICK f : SplitBy(f, s, at, Len(s)) /\ Split(s, at) = f[Len(s)]
  BY <1>1, SplitIs
<1> QED BY <1>1, <1>2 DEF SplitBy

LEMMA SplitOfMore ==
  ASSUME NEW at, NEW s, NEW t, NEW n \in Nat, Len(s) = n, Len(t) = n + 1, Agree(s, t, n)
  PROVE  Split(t, at) = Grown(Split(s, at), t[n + 1], at)
<1>1. PICK f : SplitBy(f, s, at, Len(s)) /\ Split(s, at) = f[Len(s)]
  BY SplitIs
<1>2. PICK g : SplitBy(g, t, at, Len(t)) /\ Split(t, at) = g[Len(t)]
  BY SplitIs
<1>3. f[n] = g[n]
  <2>1. SplitBy(f, s, at, n) /\ SplitBy(g, t, at, n + 1) /\ n + 1 \in Nat /\ n <= n + 1
    BY <1>1, <1>2
  <2> QED BY <2>1, SplitByAgree
<1>4. n + 1 \in 0 .. n + 1 /\ n + 1 # 0 /\ (n + 1) - 1 = n
  OBVIOUS
<1>5. g[n + 1] = Grown(g[n], t[n + 1], at)
  BY <1>2, <1>4 DEF SplitBy
<1> QED BY <1>1, <1>2, <1>3, <1>5

\* Induction over texts, which are read from their first character on.
LEMMA TextInduction ==
  ASSUME NEW C, NEW T, <<>> \in T, \A t \in Seq(C) : \A c \in C : t \in T => Append(t, c) \in T
  PROVE  Seq(C) \subseteq T
<1> DEFINE S == {n \in Nat : \A t \in Seq(C) : Len(t) = n => t \in T}
<1>1. 0 \in S OBVIOUS
<1>2. ASSUME NEW n \in Nat, n \in S PROVE n + 1 \in S
  <2> SUFFICES ASSUME NEW t \in Seq(C), Len(t) = n + 1 PROVE t \in T
    OBVIOUS
  <2> DEFINE s == SubSeq(t, 1, n)
  <2>1. s \in Seq(C) /\ Len(s) = n /\ t[n + 1] \in C /\ t = Append(s, t[n + 1])
    OBVIOUS
  <2>2. s \in T BY <1>2, <2>1
  <2> HIDE DEF s
  <2> QED BY <2>1, <2>2
<1> HIDE DEF S
<1>3. Nat \subseteq S BY <1>1, <1>2, Induction
<1> QED BY <1>3 DEF S

LEMMA SplitAppend ==
  ASSUME NEW C, NEW t \in Seq(C), NEW c, NEW at
  PROVE  Split(Append(t, c), at) = Grown(Split(t, at), c, at)
<1> DEFINE s == Append(t, c)
<1>1. Len(s) = Len(t) + 1 /\ Len(t) \in Nat /\ s[Len(t) + 1] = c /\ \A i \in 1 .. Len(t) : t[i] = s[i]
  OBVIOUS
<1> HIDE DEF s
<1>2. Agree(t, s, Len(t)) BY <1>1 DEF Agree
<1>3. Split(s, at) = Grown(Split(t, at), s[Len(t) + 1], at)
  BY <1>1, <1>2, SplitOfMore
<1> QED BY <1>1, <1>3 DEF s

LEMMA SplitNothing == \A at : Split(<<>>, at) = << <<>> >>
BY SplitOfNone

\* No separator is in a part, and there is at least one part.
LEMMA SplitType ==
  ASSUME NEW C, NEW at
  PROVE  \A t \in Seq(C) : Split(t, at) \in Seq(Seq(C \ {at})) /\ Split(t, at) # <<>>
<1> DEFINE D == C \ {at}
           T == {t \in Seq(C) : Split(t, at) \in Seq(Seq(D)) /\ Split(t, at) # <<>>}
<1>1. <<>> \in T
  <2>1. <<>> \in Seq(C) /\ << <<>> >> \in Seq(Seq(D)) /\ << <<>> >> # <<>>
    OBVIOUS
  <2>2. Split(<<>>, at) = << <<>> >> BY SplitNothing
  <2> QED BY <2>1, <2>2
<1>2. ASSUME NEW t \in Seq(C), NEW c \in C, t \in T PROVE Append(t, c) \in T
  <2> DEFINE parts == Split(t, at)
  <2>1. parts \in Seq(Seq(D)) /\ parts # <<>> /\ Append(t, c) \in Seq(C)
    BY <1>2
  <2>2. Split(Append(t, c), at) = Grown(parts, c, at)
    BY SplitAppend
  <2> HIDE DEF parts
  <2>3. CASE c = at
    <3>1. Append(parts, <<>>) \in Seq(Seq(D)) /\ Append(parts, <<>>) # <<>>
      BY <2>1
    <3> QED BY <2>1, <2>2, <2>3, <3>1 DEF Grown
  <2>4. CASE c # at
    <3>1. Len(parts) \in 1 .. Len(parts) /\ parts[Len(parts)] \in Seq(D) /\ c \in D
      BY <2>1, <2>4
    <3>2. Append(parts[Len(parts)], c) \in Seq(D) BY <3>1
    <3>3. [parts EXCEPT ![Len(parts)] = Append(@, c)] \in Seq(Seq(D))
      BY <2>1, <3>1, <3>2
    <3>4. [parts EXCEPT ![Len(parts)] = Append(@, c)] # <<>>
      BY <2>1, <3>1
    <3> QED BY <2>1, <2>2, <2>4, <3>3, <3>4 DEF Grown
  <2> QED BY <2>3, <2>4
<1> HIDE DEF T
<1>3. Seq(C) \subseteq T BY <1>1, <1>2, TextInduction
<1> QED BY <1>3 DEF T

\* Sequences of anything.
Joins(s, p, q) ==
  /\ Len(s) = Len(p) + Len(q)
  /\ \A i \in 1 .. Len(p) : s[i] = p[i]
  /\ \A i \in 1 .. Len(q) : s[Len(p) + i] = q[i]

LEMMA ConcatIs ==
  ASSUME NEW E, NEW p \in Seq(E), NEW q \in Seq(E)
  PROVE  p \o q \in Seq(E) /\ Joins(p \o q, p, q)
BY DEF Joins

LEMMA SameSequence ==
  ASSUME NEW E, NEW p \in Seq(E), NEW q \in Seq(E), Len(p) = Len(q), Agree(p, q, Len(p))
  PROVE  p = q
<1>1. p = [i \in 1 .. Len(p) |-> p[i]] /\ q = [i \in 1 .. Len(q) |-> q[i]]
  OBVIOUS
<1> QED BY <1>1 DEF Agree

AppendsBehind(p, q, x) == Append(p \o q, x) = p \o Append(q, x)
LEMMA AppendBehind ==
  ASSUME NEW E, NEW p \in Seq(E), NEW q \in Seq(E), NEW x \in E
  PROVE  AppendsBehind(p, q, x)
BY DEF AppendsBehind

\* A sequence with another last element.
LastAs(p, x) == [p EXCEPT ![Len(p)] = x]
EndsWith(s, p, x) ==
  /\ Len(s) = Len(p)
  /\ s[Len(p)] = x
  /\ \A i \in 1 .. Len(p) : i # Len(p) => s[i] = p[i]

LEMMA LastIs ==
  ASSUME NEW E, NEW p \in Seq(E), p # <<>>
  PROVE  Len(p) \in 1 .. Len(p) /\ p[Len(p)] \in E
OBVIOUS

LEMMA LastAsIs ==
  ASSUME NEW E, NEW p \in Seq(E), p # <<>>, NEW x \in E
  PROVE  LastAs(p, x) \in Seq(E) /\ LastAs(p, x) # <<>> /\ EndsWith(LastAs(p, x), p, x)
BY DEF LastAs, EndsWith

LEMMA LastAsBehind ==
  ASSUME NEW E, NEW p \in Seq(E), NEW q \in Seq(E), q # <<>>, NEW x \in E
  PROVE  LastAs(p \o q, x) = p \o LastAs(q, x)
<1> DEFINE all == p \o q
           r == LastAs(q, x)
<1>1. all \in Seq(E) /\ Joins(all, p, q) BY ConcatIs
<1>2. Len(q) \in 1 .. Len(q) /\ Len(p) \in Nat /\ Len(q) \in Nat
  OBVIOUS
<1>3. r \in Seq(E) /\ EndsWith(r, q, x) BY LastAsIs
<1> HIDE DEF all, r
<1>4. p \o r \in Seq(E) /\ Joins(p \o r, p, r)
  BY <1>3, ConcatIs
<1>5. all # <<>> BY <1>1, <1>2 DEF Joins
<1>6. LastAs(all, x) \in Seq(E) /\ EndsWith(LastAs(all, x), all, x)
  BY <1>1, <1>5, LastAsIs
<1>7. ASSUME NEW i \in 1 .. Len(all) PROVE LastAs(all, x)[i] = (p \o r)[i]
  <2>1. CASE i <= Len(p)
    <3>1. i \in 1 .. Len(p) /\ i # Len(all)
      BY <1>1, <1>2, <2>1 DEF Joins
    <3> QED BY <1>1, <1>4, <1>6, <3>1 DEF Joins, EndsWith
  <2>2. CASE i > Len(p)
    <3> DEFINE j == i - Len(p)
    <3>1. j \in 1 .. Len(q) /\ Len(p) + j = i /\ (i = Len(all) <=> j = Len(q))
      BY <1>1, <1>2, <2>2 DEF Joins
    <3> HIDE DEF j
    <3>2. (p \o r)[i] = r[j]
      BY <1>3, <1>4, <3>1 DEF Joins, EndsWith
    <3>3. all[i] = q[j] BY <1>1, <3>1 DEF Joins
    <3> QED BY <1>3, <1>6, <3>1, <3>2, <3>3 DEF EndsWith
  <2>3. Len(all) \in Nat BY <1>1
  <2>4. i <= Len(p) \/ i > Len(p) BY <1>2, <2>3
  <2> QED BY <2>1, <2>2, <2>4
<1>8. Agree(LastAs(all, x), p \o r, Len(LastAs(all, x)))
  BY <1>6, <1>7 DEF Agree, EndsWith
<1>9. Len(LastAs(all, x)) = Len(p \o r)
  BY <1>1, <1>3, <1>4, <1>6 DEF Joins, EndsWith
<1>10. LastAs(all, x) = p \o r
  BY <1>4, <1>6, <1>8, <1>9, SameSequence
<1> QED BY <1>10 DEF all, r

LEMMA GrownIs ==
  ASSUME NEW parts, NEW c, NEW at
  PROVE  /\ c = at => Grown(parts, c, at) = Append(parts, <<>>)
         /\ c # at => Grown(parts, c, at) = LastAs(parts, Append(parts[Len(parts)], c))
BY DEF Grown, LastAs

AreParts(parts, C, at) == parts \in Seq(Seq(C \ {at}))
LEMMA GrownBehind ==
  ASSUME NEW C, NEW at, NEW p, AreParts(p, C, at), NEW q, AreParts(q, C, at), q # <<>>, NEW c \in C
  PROVE  Grown(p \o q, c, at) = p \o Grown(q, c, at)
<1> DEFINE E == Seq(C \ {at})
<1>0. <<>> \in E OBVIOUS
<1>1. CASE c = at
  <2>0. p \in Seq(E) /\ q \in Seq(E) BY DEF AreParts
  <2> HIDE DEF E
  <2>1. ASSUME NEW x \in E PROVE Append(p \o q, x) = p \o Append(q, x)
    BY <2>0
  <2>2. Append(p \o q, <<>>) = p \o Append(q, <<>>)
    BY <1>0, <2>1
  <2> QED BY <1>1, <2>2, GrownIs
<1>2. CASE c # at
  <2> DEFINE last == q[Len(q)]
  <2>0. p \in Seq(E) /\ q \in Seq(E) BY DEF AreParts
  <2>1. last \in E /\ Len(q) \in 1 .. Len(q) BY <2>0, LastIs
  <2>2. Append(last, c) \in E BY <1>2, <2>1
  <2> HIDE DEF E, last
  <2>3. Joins(p \o q, p, q) BY <2>0, ConcatIs
  <2>4. LastAs(p \o q, Append(last, c)) = p \o LastAs(q, Append(last, c))
    BY <2>0, <2>2, LastAsBehind
  <2>5. (p \o q)[Len(p \o q)] = last
    BY <2>1, <2>3 DEF Joins, last
  <2>6. Grown(p \o q, c, at) = LastAs(p \o q, Append(last, c))
    BY <1>2, <2>5, GrownIs
  <2>7. Grown(q, c, at) = LastAs(q, Append(last, c))
    BY <1>2, GrownIs DEF last
  <2> QED BY <2>4, <2>6, <2>7
<1> QED BY <1>1, <1>2

\* A separator parts what is before it from what is behind.
LEMMA SplitAtSeparator ==
  ASSUME NEW C, NEW at \in C, NEW t \in Seq(C)
  PROVE  \A u \in Seq(C) : Split(Append(t, at) \o u, at) = Split(t, at) \o Split(u, at)
<1> DEFINE D == C \ {at}
           s == Append(t, at)
           T == {u \in Seq(C) : Split(s \o u, at) = Split(t, at) \o Split(u, at)}
<1>0. s \in Seq(C) /\ Split(t, at) \in Seq(Seq(D))
  BY SplitType
<1>1. <<>> \in T
  <2>1. s \o <<>> = s /\ <<>> \in Seq(C) BY <1>0
  <2>2. Split(s, at) = Append(Split(t, at), <<>>)
    BY SplitAppend DEF Grown
  <2>3. Split(<<>>, at) = << <<>> >> BY SplitNothing
  <2>4. Append(Split(t, at), <<>>) = Split(t, at) \o << <<>> >>
    BY <1>0
  <2> QED BY <2>1, <2>2, <2>3, <2>4
<1> HIDE DEF s
<1>2. ASSUME NEW u \in Seq(C), NEW c \in C, u \in T PROVE Append(u, c) \in T
  <2>1. Append(u, c) \in Seq(C) /\ s \o Append(u, c) = Append(s \o u, c) /\ s \o u \in Seq(C)
    BY <1>0
  <2>2. Split(Append(s \o u, c), at) = Grown(Split(s \o u, at), c, at)
    BY <2>1, SplitAppend
  <2>3. Split(Append(u, c), at) = Grown(Split(u, at), c, at)
    BY SplitAppend
  <2>4. Split(s \o u, at) = Split(t, at) \o Split(u, at)
    BY <1>2
  <2>5. Split(u, at) \in Seq(Seq(D)) /\ Split(u, at) # <<>>
    BY SplitType
  <2>7. Grown(Split(t, at) \o Split(u, at), c, at) = Split(t, at) \o Grown(Split(u, at), c, at)
    <3>1. AreParts(Split(t, at), C, at) BY <1>0 DEF AreParts
    <3>2. AreParts(Split(u, at), C, at) BY <2>5 DEF AreParts
    <3> QED BY <2>5, <3>1, <3>2, GrownBehind
  <2> QED BY <2>1, <2>2, <2>3, <2>4, <2>7
<1> HIDE DEF T
<1>3. Seq(C) \subseteq T BY <1>1, <1>2, TextInduction
<1> QED BY <1>3 DEF T, s

\* What has no separator only makes the last part longer.
LEMMA SplitAlongPart ==
  ASSUME NEW C, NEW at, NEW t \in Seq(C)
  PROVE  \A u \in Seq(C \ {at}) :
           Split(t \o u, at) = LastAs(Split(t, at), Split(t, at)[Len(Split(t, at))] \o u)
<1> DEFINE D == C \ {at}
           E == Seq(D)
           parts == Split(t, at)
           last == parts[Len(parts)]
           T == {u \in Seq(D) : Split(t \o u, at) = LastAs(parts, last \o u)}
<1>1. parts \in Seq(E) /\ parts # <<>> BY SplitType
<1>2. last \in E BY <1>1
<1>3. <<>> \in T
  <2>1. t \o <<>> = t /\ last \o <<>> = last /\ <<>> \in Seq(D)
    BY <1>2
  <2> HIDE DEF E, parts
  <2>2. LastAs(parts, last) = parts BY <1>1 DEF LastAs
  <2> QED BY <2>1, <2>2 DEF parts
<1>4. ASSUME NEW u \in Seq(D), NEW c \in D, u \in T PROVE Append(u, c) \in T
  <2> DEFINE more == LastAs(parts, last \o u)
  <2>1. Append(u, c) \in Seq(D) /\ t \o Append(u, c) = Append(t \o u, c) /\ t \o u \in Seq(C)
    OBVIOUS
  <2>2. Split(Append(t \o u, c), at) = Grown(more, c, at)
    BY <1>4, <2>1, SplitAppend
  <2>3. last \o u \in E /\ c # at /\ Append(last \o u, c) = last \o Append(u, c)
    <3>1. last \in Seq(D) /\ c # at BY <1>2
    <3> HIDE DEF D, last, more, T, parts
    <3>2. last \o u \in Seq(D) BY <3>1
    <3>3. AppendsBehind(last, u, c) BY <3>1, AppendBehind
    <3> QED BY <3>1, <3>2, <3>3 DEF AppendsBehind
  <2>7. last \o Append(u, c) \in E BY <1>2, <2>1
  <2> HIDE DEF E, parts, last
  <2>4. Len(more) = Len(parts) /\ more[Len(parts)] = last \o u
    BY <1>1, <2>3, LastAsIs DEF EndsWith
  <2>5. LastAs(more, last \o Append(u, c)) = LastAs(parts, last \o Append(u, c))
    BY <2>4 DEF LastAs
  <2>6. Grown(more, c, at) = LastAs(parts, last \o Append(u, c))
    <3>1. Grown(more, c, at) = LastAs(more, Append(more[Len(more)], c))
      BY <2>3, GrownIs
    <3>2. Append(more[Len(more)], c) = last \o Append(u, c)
      BY <2>3, <2>4
    <3> QED BY <2>5, <3>1, <3>2
  <2> QED BY <2>1, <2>2, <2>6
<1> HIDE DEF T
<1>5. Seq(D) \subseteq T BY <1>3, <1>4, TextInduction
<1> QED BY <1>5 DEF T, parts, last

\* Every character but the separators is in a part.
Occurs(c, parts) == \E i \in 1 .. Len(parts) : \E j \in 1 .. Len(parts[i]) : parts[i][j] = c
LEMMA SplitKeeps ==
  ASSUME NEW C, NEW at
  PROVE  \A t \in Seq(C) : \A k \in 1 .. Len(t) : t[k] # at => Occurs(t[k], Split(t, at))
<1> DEFINE D == C \ {at}
           T == {t \in Seq(C) : \A k \in 1 .. Len(t) : t[k] # at => Occurs(t[k], Split(t, at))}
<1>1. <<>> \in T
  <2>1. <<>> \in Seq(C) /\ Len(<<>>) = 0 OBVIOUS
  <2> QED BY <2>1
<1>2. ASSUME NEW t \in Seq(C), NEW c \in C, t \in T PROVE Append(t, c) \in T
  <2> SUFFICES ASSUME NEW k \in 1 .. Len(t) + 1, Append(t, c)[k] # at
               PROVE  Occurs(Append(t, c)[k], Split(Append(t, c), at))
    <3>1. Append(t, c) \in Seq(C) /\ Len(Append(t, c)) = Len(t) + 1
      OBVIOUS
    <3> QED BY <3>1
  <2> DEFINE parts == Split(t, at)
             last == Len(parts)
  <2>1. Split(Append(t, c), at) = Grown(parts, c, at)
    BY SplitAppend
  <2>2. parts \in Seq(Seq(D)) /\ parts # <<>> BY SplitType
  <2>3. \A i \in 1 .. Len(t) : t[i] # at => Occurs(t[i], parts)
    BY <1>2
  <2> HIDE DEF parts
  <2>4. last \in 1 .. last /\ parts[last] \in Seq(D) BY <2>2
  <2>5. ASSUME NEW d, Occurs(d, parts) PROVE Occurs(d, Grown(parts, c, at))
    <3>0. PICK i \in 1 .. last : \E j \in 1 .. Len(parts[i]) : parts[i][j] = d
      BY <2>5 DEF Occurs
    <3>1. PICK j \in 1 .. Len(parts[i]) : parts[i][j] = d
      BY <3>0
    <3>2. CASE c = at
      <4>1. Grown(parts, c, at) = Append(parts, <<>>)
        BY <3>2 DEF Grown
      <4>2. \A x \in Seq(D) : Len(Append(parts, x)) = last + 1 /\ Append(parts, x)[i] = parts[i]
        BY <2>2
      <4>3. i \in 1 .. last + 1 BY <2>2
      <4>4. Len(Append(parts, <<>>)) = last + 1 /\ Append(parts, <<>>)[i] = parts[i]
        BY <4>2
      <4> QED BY <3>1, <4>1, <4>3, <4>4 DEF Occurs
    <3>3. CASE c # at
      <4> DEFINE more == LastAs(parts, Append(parts[last], c))
      <4>1. Grown(parts, c, at) = more BY <3>3, GrownIs
      <4>0. Append(parts[last], c) \in Seq(D) BY <2>4, <3>3
      <4>2. Len(more) = last /\ more[last] = Append(parts[last], c)
            /\ \A h \in 1 .. last : h # last => more[h] = parts[h]
        <5>1. EndsWith(more, parts, Append(parts[last], c))
          BY <2>2, <4>0, LastAsIs
        <5> HIDE DEF more
        <5> QED BY <5>1 DEF EndsWith
      <4>3. j \in 1 .. Len(more[i]) /\ more[i][j] = d
        <5>1. CASE i = last
          <6>1. more[i] = Append(parts[i], c) BY <4>2, <5>1
          <6>2. parts[i] \in Seq(D) BY <2>2
          <6> HIDE DEF more
          <6> QED BY <3>1, <6>1, <6>2
        <5>2. CASE i # last
          <6>1. more[i] = parts[i] BY <4>2, <5>2
          <6> QED BY <3>1, <6>1
        <5> QED BY <5>1, <5>2
      <4> HIDE DEF more
      <4> QED BY <4>1, <4>2, <4>3 DEF Occurs
    <3> QED BY <3>2, <3>3
  <2>6. CASE k <= Len(t)
    <3>1. Append(t, c)[k] = t[k] /\ k \in 1 .. Len(t)
      BY <2>6
    <3> QED BY <2>1, <2>3, <2>5, <3>1
  <2>7. CASE k = Len(t) + 1
    <3>1. Append(t, c)[k] = c /\ c # at BY <2>7
    <3> DEFINE more == LastAs(parts, Append(parts[last], c))
    <3>0. Append(parts[last], c) \in Seq(D) /\ Grown(parts, c, at) = more
      BY <2>4, <3>1, GrownIs
    <3>2. Grown(parts, c, at) = more /\ Len(more) = last
      BY <2>2, <3>0, LastAsIs DEF EndsWith
    <3>3. more[last] = Append(parts[last], c)
      BY <2>2, <3>0, LastAsIs DEF EndsWith
    <3>4. Len(more[last]) \in 1 .. Len(more[last]) /\ more[last][Len(more[last])] = c
      BY <2>4, <3>3
    <3> HIDE DEF more
    <3>5. Occurs(c, more) BY <2>4, <3>2, <3>4 DEF Occurs
    <3> QED BY <2>1, <3>1, <3>2, <3>5
  <2> QED BY <2>6, <2>7
<1> HIDE DEF T
<1>3. Seq(C) \subseteq T BY <1>1, <1>2, TextInduction
<1> QED BY <1>3 DEF T


\* NonEmpty reads the parts one by one.
NonEmptyBy(f, s, n) ==
  f = [k \in 0 .. n |-> IF k = 0 THEN <<>> ELSE IF s[k] = <<>> THEN f[k - 1] ELSE Append(f[k - 1], s[k])]

LEMMA NonEmptyByExists ==
  ASSUME NEW s
  PROVE  \A n \in Nat : \E f : NonEmptyBy(f, s, n)
<1> DEFINE S == {n \in Nat : \E f : NonEmptyBy(f, s, n)}
<1>1. 0 \in S
  <2> DEFINE f == [k \in 0 .. 0 |-> <<>>]
  <2>1. NonEmptyBy(f, s, 0) BY DEF NonEmptyBy
  <2> QED BY <2>1
<1>2. ASSUME NEW n \in Nat, n \in S PROVE n + 1 \in S
  <2>1. PICK f : NonEmptyBy(f, s, n) BY <1>2
  <2> DEFINE next == IF s[n + 1] = <<>> THEN f[n] ELSE Append(f[n], s[n + 1])
             g == [k \in 0 .. n + 1 |-> IF k = n + 1 THEN next ELSE f[k]]
  <2> HIDE DEF next
  <2>2. ASSUME NEW k \in 0 .. n + 1
        PROVE  g[k] = IF k = 0 THEN <<>> ELSE IF s[k] = <<>> THEN g[k - 1] ELSE Append(g[k - 1], s[k])
    <3>1. CASE k = n + 1
      <4>1. g[k] = next /\ g[k - 1] = f[n] /\ k # 0 BY <3>1
      <4> HIDE DEF g
      <4> QED BY <3>1, <4>1 DEF next
    <3>2. CASE k # n + 1
      <4>1. k \in 0 .. n /\ g[k] = f[k] /\ (k # 0 => g[k - 1] = f[k - 1])
        BY <3>2
      <4> HIDE DEF g
      <4>2. f[k] = IF k = 0 THEN <<>> ELSE IF s[k] = <<>> THEN f[k - 1] ELSE Append(f[k - 1], s[k])
        BY <2>1, <4>1 DEF NonEmptyBy
      <4> QED BY <4>1, <4>2
    <3> QED BY <3>1, <3>2
  <2>3. NonEmptyBy(g, s, n + 1) BY <2>2 DEF NonEmptyBy
  <2> HIDE DEF g
  <2> QED BY <2>3
<1> HIDE DEF S
<1>3. Nat \subseteq S BY <1>1, <1>2, Induction
<1> QED BY <1>3 DEF S

LEMMA NonEmptyByAgree ==
  ASSUME NEW s, NEW t, NEW n \in Nat, NEW m \in Nat, n <= m, Agree(s, t, n),
         NEW f, NonEmptyBy(f, s, n), NEW g, NonEmptyBy(g, t, m)
  PROVE  f[n] = g[n]
<1> DEFINE S == {k \in Nat : k <= n => f[k] = g[k]}
<1>1. 0 \in S BY DEF NonEmptyBy
<1>2. ASSUME NEW k \in Nat, k \in S PROVE k + 1 \in S
  <2> SUFFICES ASSUME k + 1 <= n PROVE f[k + 1] = g[k + 1]
    OBVIOUS
  <2>1. k + 1 \in 0 .. n /\ k + 1 \in 0 .. m /\ k + 1 # 0 /\ (k + 1) - 1 = k /\ k + 1 \in 1 .. n
    OBVIOUS
  <2>2. f[k] = g[k] /\ s[k + 1] = t[k + 1]
    BY <1>2, <2>1 DEF Agree
  <2>3. f[k + 1] = IF s[k + 1] = <<>> THEN f[k] ELSE Append(f[k], s[k + 1])
    BY <2>1 DEF NonEmptyBy
  <2>4. g[k + 1] = IF t[k + 1] = <<>> THEN g[k] ELSE Append(g[k], t[k + 1])
    BY <2>1 DEF NonEmptyBy
  <2> QED BY <2>2, <2>3, <2>4
<1> HIDE DEF S
<1>3. Nat \subseteq S BY <1>1, <1>2, Induction
<1> QED BY <1>3 DEF S

LEMMA NonEmptyIs ==
  ASSUME NEW s, Len(s) \in Nat
  PROVE  \E f : NonEmptyBy(f, s, Len(s)) /\ NonEmpty(s) = f[Len(s)]
<1> DEFINE f == CHOOSE g : NonEmptyBy(g, s, Len(s))
<1>1. NonEmptyBy(f, s, Len(s)) BY NonEmptyByExists
<1>2. NonEmpty(s) = f[Len(s)] BY DEF NonEmpty, NonEmptyBy
<1> QED BY <1>1, <1>2

LEMMA NonEmptyOfNone ==
  ASSUME NEW s, s = <<>>
  PROVE  NonEmpty(s) = <<>>
<1>1. Len(s) = 0 /\ Len(s) \in Nat OBVIOUS
<1>2. PICK f : NonEmptyBy(f, s, Len(s)) /\ NonEmpty(s) = f[Len(s)]
  BY <1>1, NonEmptyIs
<1> QED BY <1>1, <1>2 DEF NonEmptyBy

LEMMA NonEmptyOfMore ==
  ASSUME NEW s, NEW t, NEW n \in Nat, Len(s) = n, Len(t) = n + 1, Agree(s, t, n)
  PROVE  NonEmpty(t) = IF t[n + 1] = <<>> THEN NonEmpty(s) ELSE Append(NonEmpty(s), t[n + 1])
<1>1. PICK f : NonEmptyBy(f, s, Len(s)) /\ NonEmpty(s) = f[Len(s)]
  BY NonEmptyIs
<1>2. PICK g : NonEmptyBy(g, t, Len(t)) /\ NonEmpty(t) = g[Len(t)]
  BY NonEmptyIs
<1>3. f[n] = g[n]
  <2>1. NonEmptyBy(f, s, n) /\ NonEmptyBy(g, t, n + 1) /\ n + 1 \in Nat /\ n <= n + 1
    BY <1>1, <1>2
  <2> QED BY <2>1, NonEmptyByAgree
<1>4. n + 1 \in 0 .. n + 1 /\ n + 1 # 0 /\ (n + 1) - 1 = n
  OBVIOUS
<1>5. g[n + 1] = IF t[n + 1] = <<>> THEN g[n] ELSE Append(g[n], t[n + 1])
  BY <1>2, <1>4 DEF NonEmptyBy
<1> QED BY <1>1, <1>2, <1>3, <1>5

LEMMA NonEmptyAppend ==
  ASSUME NEW E, NEW parts \in Seq(E), NEW part
  PROVE  NonEmpty(Append(parts, part)) =
           IF part = <<>> THEN NonEmpty(parts) ELSE Append(NonEmpty(parts), part)
<1> DEFINE s == Append(parts, part)
<1>1. Len(s) = Len(parts) + 1 /\ Len(parts) \in Nat /\ s[Len(parts) + 1] = part
      /\ \A i \in 1 .. Len(parts) : parts[i] = s[i]
  OBVIOUS
<1> HIDE DEF s
<1>2. Agree(parts, s, Len(parts)) BY <1>1 DEF Agree
<1>3. NonEmpty(s) = IF s[Len(parts) + 1] = <<>> THEN NonEmpty(parts)
                    ELSE Append(NonEmpty(parts), s[Len(parts) + 1])
  BY <1>1, <1>2, NonEmptyOfMore
<1> QED BY <1>1, <1>3 DEF s

LEMMA NonEmptyNothing == NonEmpty(<<>>) = <<>> /\ NonEmpty(<< <<>> >>) = <<>>
<1>1. NonEmpty(<<>>) = <<>> BY NonEmptyOfNone
<1>2. <<>> \in Seq({<<>>}) /\ Append(<<>>, <<>>) = << <<>> >>
  OBVIOUS
<1>3. NonEmpty(Append(<<>>, <<>>)) = NonEmpty(<<>>)
  BY <1>2, NonEmptyAppend
<1> QED BY <1>1, <1>2, <1>3

LEMMA NonEmptyType ==
  ASSUME NEW E
  PROVE  \A parts \in Seq(E) : NonEmpty(parts) \in Seq(E)
<1> DEFINE T == {parts \in Seq(E) : NonEmpty(parts) \in Seq(E)}
<1>1. <<>> \in T
  <2>1. <<>> \in Seq(E) OBVIOUS
  <2> QED BY <2>1, NonEmptyNothing
<1>2. ASSUME NEW parts \in Seq(E), NEW part \in E, parts \in T PROVE Append(parts, part) \in T
  <2>1. NonEmpty(parts) \in Seq(E) /\ Append(parts, part) \in Seq(E)
    BY <1>2
  <2>2. Append(NonEmpty(parts), part) \in Seq(E) BY <2>1
  <2>3. NonEmpty(Append(parts, part)) \in {NonEmpty(parts), Append(NonEmpty(parts), part)}
    BY NonEmptyAppend
  <2> QED BY <2>1, <2>2, <2>3
<1> HIDE DEF T
<1>3. Seq(E) \subseteq T BY <1>1, <1>2, TextInduction
<1> QED BY <1>3 DEF T

\* A part that is not empty stays.
Has(parts, part) == \E i \in 1 .. Len(parts) : parts[i] = part
LEMMA HasAppend ==
  ASSUME NEW E, NEW parts \in Seq(E), NEW part, NEW x
  PROVE  Has(Append(parts, part), x) <=> x = part \/ Has(parts, x)
<1> DEFINE s == Append(parts, part)
<1>1. Len(s) = Len(parts) + 1 /\ Len(parts) \in Nat /\ s[Len(parts) + 1] = part
      /\ \A i \in 1 .. Len(parts) : parts[i] = s[i]
  OBVIOUS
<1> HIDE DEF s
<1>2. ASSUME Has(s, x), x # part PROVE Has(parts, x)
  <2>1. PICK i \in 1 .. Len(s) : s[i] = x BY <1>2 DEF Has
  <2>2. i # Len(parts) + 1 BY <1>1, <1>2, <2>1
  <2>3. i \in 1 .. Len(parts) BY <1>1, <2>1, <2>2
  <2> QED BY <1>1, <2>1, <2>3 DEF Has
<1>3. x = part => Has(s, x)
  <2>1. Len(parts) + 1 \in 1 .. Len(s) BY <1>1
  <2> QED BY <1>1, <2>1 DEF Has
<1>4. ASSUME Has(parts, x) PROVE Has(s, x)
  <2>1. PICK i \in 1 .. Len(parts) : parts[i] = x
    BY <1>4 DEF Has
  <2>2. i \in 1 .. Len(s) BY <1>1
  <2> QED BY <1>1, <2>1, <2>2 DEF Has
<1> QED BY <1>2, <1>3, <1>4 DEF s

LEMMA NonEmptyHas ==
  ASSUME NEW E, NEW x, x # <<>>
  PROVE  \A parts \in Seq(E) : Has(parts, x) => Has(NonEmpty(parts), x)
<1> DEFINE T == {parts \in Seq(E) : Has(parts, x) => Has(NonEmpty(parts), x)}
<1>1. <<>> \in T
  <2>1. <<>> \in Seq(E) /\ Len(<<>>) = 0 OBVIOUS
  <2>2. ~Has(<<>>, x) BY <2>1 DEF Has
  <2> QED BY <2>1, <2>2
<1>2. ASSUME NEW parts \in Seq(E), NEW part \in E, parts \in T PROVE Append(parts, part) \in T
  <2>1. Append(parts, part) \in Seq(E) /\ (Has(parts, x) => Has(NonEmpty(parts), x))
    BY <1>2
  <2>2. Has(Append(parts, part), x) => x = part \/ Has(parts, x)
    BY HasAppend
  <2>3. NonEmpty(parts) \in Seq(E) BY NonEmptyType
  <2>4. CASE part = <<>>
    <3>1. NonEmpty(Append(parts, part)) = NonEmpty(parts)
      BY <2>4, NonEmptyAppend
    <3> QED BY <2>1, <2>2, <2>4, <3>1
  <2>5. CASE part # <<>>
    <3>1. NonEmpty(Append(parts, part)) = Append(NonEmpty(parts), part)
      BY <2>5, NonEmptyAppend
    <3>2. x = part \/ Has(NonEmpty(parts), x) => Has(Append(NonEmpty(parts), part), x)
      BY <2>3, HasAppend
    <3> QED BY <2>1, <2>2, <3>1, <3>2
  <2> QED BY <2>4, <2>5
<1> HIDE DEF T
<1>3. Seq(E) \subseteq T BY <1>1, <1>2, TextInduction
<1> QED BY <1>3 DEF T

\* An empty part in front makes no difference.
LEMMA NonEmptyBehindEmpty ==
  ASSUME NEW E, <<>> \in E
  PROVE  \A parts \in Seq(E) : NonEmpty(<< <<>> >> \o parts) = NonEmpty(parts)
<1> DEFINE one == << <<>> >>
           T == {parts \in Seq(E) : NonEmpty(one \o parts) = NonEmpty(parts)}
<1>0. one \in Seq(E) OBVIOUS
<1>1. <<>> \in T
  <2>1. one \o <<>> = one /\ <<>> \in Seq(E) BY <1>0
  <2> QED BY <2>1, NonEmptyNothing
<1> HIDE DEF one
<1>2. ASSUME NEW parts \in Seq(E), NEW part \in E, parts \in T PROVE Append(parts, part) \in T
  <2>1. NonEmpty(one \o parts) = NonEmpty(parts) /\ Append(parts, part) \in Seq(E)
    BY <1>2
  <2>2. AppendsBehind(one, parts, part)
    BY <1>0, AppendBehind
  <2>3. one \o parts \in Seq(E) BY <1>0, ConcatIs
  <2>4. NonEmpty(Append(one \o parts, part)) = NonEmpty(Append(parts, part))
    <3> DEFINE all == one \o parts
    <3>1. all \in Seq(E) /\ NonEmpty(all) = NonEmpty(parts)
      BY <2>1, <2>3
    <3> HIDE DEF all
    <3>2. NonEmpty(Append(all, part)) =
            IF part = <<>> THEN NonEmpty(all) ELSE Append(NonEmpty(all), part)
      BY <3>1, NonEmptyAppend
    <3>3. NonEmpty(Append(parts, part)) =
            IF part = <<>> THEN NonEmpty(parts) ELSE Append(NonEmpty(parts), part)
      BY NonEmptyAppend
    <3>4. NonEmpty(Append(all, part)) = NonEmpty(Append(parts, part))
      BY <3>1, <3>2, <3>3
    <3> QED BY <3>4 DEF all
  <2> QED BY <2>1, <2>2, <2>4 DEF AppendsBehind
<1> HIDE DEF T
<1>3. Seq(E) \subseteq T BY <1>1, <1>2, TextInduction
<1> QED BY <1>3 DEF T, one


-----------------------------------------------------------------------------
(* Paths and where they lead.                                               *)

\* canonicalize_path goes name by name.
LexicalBy(f, s, n) ==
  f = [k \in 0 .. n |-> IF k = 0 THEN <<>> ELSE LexicalStep(f[k - 1], s[k])]

LEMMA LexicalByExists ==
  ASSUME NEW s
  PROVE  \A n \in Nat : \E f : LexicalBy(f, s, n)
<1> DEFINE S == {n \in Nat : \E f : LexicalBy(f, s, n)}
<1>1. 0 \in S
  <2> DEFINE f == [k \in 0 .. 0 |-> <<>>]
  <2>1. LexicalBy(f, s, 0) BY DEF LexicalBy
  <2> QED BY <2>1
<1>2. ASSUME NEW n \in Nat, n \in S PROVE n + 1 \in S
  <2>1. PICK f : LexicalBy(f, s, n) BY <1>2
  <2> DEFINE next == LexicalStep(f[n], s[n + 1])
             g == [k \in 0 .. n + 1 |-> IF k = n + 1 THEN next ELSE f[k]]
  <2> HIDE DEF next
  <2>2. ASSUME NEW k \in 0 .. n + 1
        PROVE  g[k] = IF k = 0 THEN <<>> ELSE LexicalStep(g[k - 1], s[k])
    <3>1. CASE k = n + 1
      <4>1. g[k] = next /\ g[k - 1] = f[n] /\ k # 0 BY <3>1
      <4> HIDE DEF g
      <4> QED BY <3>1, <4>1 DEF next
    <3>2. CASE k # n + 1
      <4>1. k \in 0 .. n /\ g[k] = f[k] /\ (k # 0 => g[k - 1] = f[k - 1])
        BY <3>2
      <4> HIDE DEF g
      <4>2. f[k] = IF k = 0 THEN <<>> ELSE LexicalStep(f[k - 1], s[k])
        BY <2>1, <4>1 DEF LexicalBy
      <4> QED BY <4>1, <4>2
    <3> QED BY <3>1, <3>2
  <2>3. LexicalBy(g, s, n + 1) BY <2>2 DEF LexicalBy
  <2> HIDE DEF g
  <2> QED BY <2>3
<1> HIDE DEF S
<1>3. Nat \subseteq S BY <1>1, <1>2, Induction
<1> QED BY <1>3 DEF S

LEMMA LexicalByAgree ==
  ASSUME NEW s, NEW t, NEW n \in Nat, NEW m \in Nat, n <= m, Agree(s, t, n),
         NEW f, LexicalBy(f, s, n), NEW g, LexicalBy(g, t, m)
  PROVE  f[n] = g[n]
<1> DEFINE S == {k \in Nat : k <= n => f[k] = g[k]}
<1>1. 0 \in S BY DEF LexicalBy
<1>2. ASSUME NEW k \in Nat, k \in S PROVE k + 1 \in S
  <2> SUFFICES ASSUME k + 1 <= n PROVE f[k + 1] = g[k + 1]
    OBVIOUS
  <2>1. k + 1 \in 0 .. n /\ k + 1 \in 0 .. m /\ k + 1 # 0 /\ (k + 1) - 1 = k /\ k + 1 \in 1 .. n
    OBVIOUS
  <2>2. f[k] = g[k] /\ s[k + 1] = t[k + 1]
    BY <1>2, <2>1 DEF Agree
  <2>3. f[k + 1] = LexicalStep(f[k], s[k + 1])
    BY <2>1 DEF LexicalBy
  <2>4. g[k + 1] = LexicalStep(g[k], t[k + 1])
    BY <2>1 DEF LexicalBy
  <2> QED BY <2>2, <2>3, <2>4
<1> HIDE DEF S
<1>3. Nat \subseteq S BY <1>1, <1>2, Induction
<1> QED BY <1>3 DEF S

LEMMA LexicalIs ==
  ASSUME NEW s, Len(s) \in Nat
  PROVE  \E f : LexicalBy(f, s, Len(s)) /\ Lexical(s) = f[Len(s)]
<1> DEFINE f == CHOOSE g : LexicalBy(g, s, Len(s))
<1>1. LexicalBy(f, s, Len(s)) BY LexicalByExists
<1>2. Lexical(s) = f[Len(s)] BY DEF Lexical, LexicalBy
<1> QED BY <1>1, <1>2

LEMMA LexicalOfNone ==
  ASSUME NEW s, s = <<>>
  PROVE  Lexical(s) = <<>>
<1>1. Len(s) = 0 /\ Len(s) \in Nat OBVIOUS
<1>2. PICK f : LexicalBy(f, s, Len(s)) /\ Lexical(s) = f[Len(s)]
  BY <1>1, LexicalIs
<1> QED BY <1>1, <1>2 DEF LexicalBy

LEMMA LexicalOfMore ==
  ASSUME NEW s, NEW t, NEW n \in Nat, Len(s) = n, Len(t) = n + 1, Agree(s, t, n)
  PROVE  Lexical(t) = LexicalStep(Lexical(s), t[n + 1])
<1>1. PICK f : LexicalBy(f, s, Len(s)) /\ Lexical(s) = f[Len(s)]
  BY LexicalIs
<1>2. PICK g : LexicalBy(g, t, Len(t)) /\ Lexical(t) = g[Len(t)]
  BY LexicalIs
<1>3. f[n] = g[n]
  <2>1. LexicalBy(f, s, n) /\ LexicalBy(g, t, n + 1) /\ n + 1 \in Nat /\ n <= n + 1
    BY <1>1, <1>2
  <2> QED BY <2>1, LexicalByAgree
<1>4. n + 1 \in 0 .. n + 1 /\ n + 1 # 0 /\ (n + 1) - 1 = n
  OBVIOUS
<1>5. g[n + 1] = LexicalStep(g[n], t[n + 1])
  BY <1>2, <1>4 DEF LexicalBy
<1> QED BY <1>1, <1>2, <1>3, <1>5

\* So does the file system.
WalkedBy(f, s, tree, from, n) ==
  f = [k \in 0 .. n |-> IF k = 0 THEN {from} ELSE Enter(tree, f[k - 1], s[k])]

LEMMA WalkedByExists ==
  ASSUME NEW tree, NEW from, NEW s
  PROVE  \A n \in Nat : \E f : WalkedBy(f, s, tree, from, n)
<1> DEFINE S == {n \in Nat : \E f : WalkedBy(f, s, tree, from, n)}
<1>1. 0 \in S
  <2> DEFINE f == [k \in 0 .. 0 |-> {from}]
  <2>1. WalkedBy(f, s, tree, from, 0) BY DEF WalkedBy
  <2> QED BY <2>1
<1>2. ASSUME NEW n \in Nat, n \in S PROVE n + 1 \in S
  <2>1. PICK f : WalkedBy(f, s, tree, from, n) BY <1>2
  <2> DEFINE next == Enter(tree, f[n], s[n + 1])
             g == [k \in 0 .. n + 1 |-> IF k = n + 1 THEN next ELSE f[k]]
  <2> HIDE DEF next
  <2>2. ASSUME NEW k \in 0 .. n + 1
        PROVE  g[k] = IF k = 0 THEN {from} ELSE Enter(tree, g[k - 1], s[k])
    <3>1. CASE k = n + 1
      <4>1. g[k] = next /\ g[k - 1] = f[n] /\ k # 0 BY <3>1
      <4> HIDE DEF g
      <4> QED BY <3>1, <4>1 DEF next
    <3>2. CASE k # n + 1
      <4>1. k \in 0 .. n /\ g[k] = f[k] /\ (k # 0 => g[k - 1] = f[k - 1])
        BY <3>2
      <4> HIDE DEF g
      <4>2. f[k] = IF k = 0 THEN {from} ELSE Enter(tree, f[k - 1], s[k])
        BY <2>1, <4>1 DEF WalkedBy
      <4> QED BY <4>1, <4>2
    <3> QED BY <3>1, <3>2
  <2>3. WalkedBy(g, s, tree, from, n + 1)
    BY <2>2 DEF WalkedBy
  <2> HIDE DEF g
  <2> QED BY <2>3
<1> HIDE DEF S
<1>3. Nat \subseteq S BY <1>1, <1>2, Induction
<1> QED BY <1>3 DEF S

LEMMA WalkedByAgree ==
  ASSUME NEW tree, NEW from, NEW s, NEW t, NEW n \in Nat, NEW m \in Nat, n <= m, Agree(s, t, n),
         NEW f, WalkedBy(f, s, tree, from, n), NEW g, WalkedBy(g, t, tree, from, m)
  PROVE  f[n] = g[n]
<1> DEFINE S == {k \in Nat : k <= n => f[k] = g[k]}
<1>1. 0 \in S BY DEF WalkedBy
<1>2. ASSUME NEW k \in Nat, k \in S PROVE k + 1 \in S
  <2> SUFFICES ASSUME k + 1 <= n PROVE f[k + 1] = g[k + 1]
    OBVIOUS
  <2>1. k + 1 \in 0 .. n /\ k + 1 \in 0 .. m /\ k + 1 # 0 /\ (k + 1) - 1 = k /\ k + 1 \in 1 .. n
    OBVIOUS
  <2>2. f[k] = g[k] /\ s[k + 1] = t[k + 1]
    BY <1>2, <2>1 DEF Agree
  <2>3. f[k + 1] = Enter(tree, f[k], s[k + 1])
    BY <2>1 DEF WalkedBy
  <2>4. g[k + 1] = Enter(tree, g[k], t[k + 1])
    BY <2>1 DEF WalkedBy
  <2> QED BY <2>2, <2>3, <2>4
<1> HIDE DEF S
<1>3. Nat \subseteq S BY <1>1, <1>2, Induction
<1> QED BY <1>3 DEF S

LEMMA WalkedIs ==
  ASSUME NEW tree, NEW from, NEW s, Len(s) \in Nat
  PROVE  \E f : WalkedBy(f, s, tree, from, Len(s)) /\ Walked(tree, from, s) = f[Len(s)]
<1> DEFINE f == CHOOSE g : WalkedBy(g, s, tree, from, Len(s))
<1>1. WalkedBy(f, s, tree, from, Len(s)) BY WalkedByExists
<1>2. Walked(tree, from, s) = f[Len(s)]
  BY DEF Walked, WalkedBy
<1> QED BY <1>1, <1>2

LEMMA WalkedOfNone ==
  ASSUME NEW tree, NEW from, NEW s, s = <<>>
  PROVE  Walked(tree, from, s) = {from}
<1>1. Len(s) = 0 /\ Len(s) \in Nat OBVIOUS
<1>2. PICK f : WalkedBy(f, s, tree, from, Len(s)) /\ Walked(tree, from, s) = f[Len(s)]
  BY <1>1, WalkedIs
<1> QED BY <1>1, <1>2 DEF WalkedBy

LEMMA WalkedOfMore ==
  ASSUME NEW tree, NEW from, NEW s, NEW t, NEW n \in Nat, Len(s) = n, Len(t) = n + 1, Agree(s, t, n)
  PROVE  Walked(tree, from, t) = Enter(tree, Walked(tree, from, s), t[n + 1])
<1>1. PICK f : WalkedBy(f, s, tree, from, Len(s)) /\ Walked(tree, from, s) = f[Len(s)]
  BY WalkedIs
<1>2. PICK g : WalkedBy(g, t, tree, from, Len(t)) /\ Walked(tree, from, t) = g[Len(t)]
  BY WalkedIs
<1>3. f[n] = g[n]
  <2>1. WalkedBy(f, s, tree, from, n) /\ WalkedBy(g, t, tree, from, n + 1) /\ n + 1 \in Nat /\ n <= n + 1
    BY <1>1, <1>2
  <2> QED BY <2>1, WalkedByAgree
<1>4. n + 1 \in 0 .. n + 1 /\ n + 1 # 0 /\ (n + 1) - 1 = n
  OBVIOUS
<1>5. g[n + 1] = Enter(tree, g[n], t[n + 1])
  BY <1>2, <1>4 DEF WalkedBy
<1> QED BY <1>1, <1>2, <1>3, <1>5

LEMMA AppendIs ==
  ASSUME NEW E, NEW p \in Seq(E), NEW x
  PROVE  /\ Len(p) \in Nat
         /\ Len(Append(p, x)) = Len(p) + 1
         /\ Append(p, x)[Len(p) + 1] = x
         /\ Agree(p, Append(p, x), Len(p))
<1> DEFINE s == Append(p, x)
<1>1. Len(s) = Len(p) + 1 /\ Len(p) \in Nat /\ s[Len(p) + 1] = x /\ \A i \in 1 .. Len(p) : p[i] = s[i]
  OBVIOUS
<1> HIDE DEF s
<1> QED BY <1>1 DEF Agree, s

LEMMA LexicalAppend ==
  ASSUME NEW E, NEW path \in Seq(E), NEW name
  PROVE  Lexical(Append(path, name)) = LexicalStep(Lexical(path), name)
<1> DEFINE s == Append(path, name)
<1>1. /\ Len(path) \in Nat /\ Len(s) = Len(path) + 1
      /\ s[Len(path) + 1] = name /\ Agree(path, s, Len(path))
  BY AppendIs
<1> HIDE DEF s
<1>2. Lexical(s) = LexicalStep(Lexical(path), s[Len(path) + 1])
  BY <1>1, LexicalOfMore
<1> QED BY <1>1, <1>2 DEF s

\* A path without dots is what it says.
LEMMA LexicalOfPlain ==
  ASSUME NEW E, <<".">> \notin E, <<"..">> \notin E
  PROVE  \A path \in Seq(E) : Lexical(path) = path
<1> DEFINE T == {path \in Seq(E) : Lexical(path) = path}
<1>1. <<>> \in T
  <2>1. <<>> \in Seq(E) OBVIOUS
  <2> QED BY <2>1, LexicalOfNone
<1>2. ASSUME NEW path \in Seq(E), NEW name \in E, path \in T PROVE Append(path, name) \in T
  <2>1. Append(path, name) \in Seq(E) /\ name # <<".">> /\ name # <<"..">>
    OBVIOUS
  <2>2. Lexical(Append(path, name)) = LexicalStep(path, name)
    BY <1>2, LexicalAppend
  <2> QED BY <2>1, <2>2 DEF LexicalStep
<1> HIDE DEF T
<1>3. Seq(E) \subseteq T BY <1>1, <1>2, TextInduction
<1> QED BY <1>3 DEF T

LEMMA WalkedAppend ==
  ASSUME NEW tree, NEW from, NEW E, NEW names \in Seq(E), NEW name
  PROVE  Walked(tree, from, Append(names, name)) = Enter(tree, Walked(tree, from, names), name)
<1> DEFINE s == Append(names, name)
<1>1. /\ Len(names) \in Nat /\ Len(s) = Len(names) + 1
      /\ s[Len(names) + 1] = name /\ Agree(names, s, Len(names))
  BY AppendIs
<1> HIDE DEF s
<1>2. Walked(tree, from, s) = Enter(tree, Walked(tree, from, names), s[Len(names) + 1])
  BY <1>1, WalkedOfMore
<1> QED BY <1>1, <1>2 DEF s

\* At most one path, and it is no link.
Paths == Seq(Seq(STRING))
Lands(tree, found) ==
  /\ found \subseteq Paths
  /\ \A p, q \in found : p = q
  /\ \A p \in found \cap DOMAIN tree : tree[p].kind # "link"

LEMMA EnterLands ==
  ASSUME NEW tree \in Trees, NEW found, Lands(tree, found), NEW name \in Seq(STRING)
  PROVE  Lands(tree, Enter(tree, found, name))
<1> DEFINE To(p) == IF tree[Append(p, name)].kind = "link" THEN tree[Append(p, name)].to
                    ELSE Append(p, name)
<1>1. Enter(tree, found, name) = {To(p) : p \in {q \in found : Append(q, name) \in DOMAIN tree}}
  BY DEF Enter
<1>2. ASSUME NEW p \in found, Append(p, name) \in DOMAIN tree
      PROVE  To(p) \in Paths /\ (To(p) \in DOMAIN tree => tree[To(p)].kind # "link")
  BY <1>2, LinksAssumption DEF Paths
<1>3. \A p, q \in found : p = q BY DEF Lands
<1> HIDE DEF To
<1> QED BY <1>1, <1>2, <1>3 DEF Lands

LEMMA WalkedLands ==
  ASSUME NEW tree \in Trees
  PROVE  \A names \in Paths : Lands(tree, Walked(tree, <<>>, names))
<1> DEFINE T == {names \in Paths : Lands(tree, Walked(tree, <<>>, names))}
<1>1. <<>> \in T
  <2>1. <<>> \in Paths BY DEF Paths
  <2>2. Walked(tree, <<>>, <<>>) = {<<>>} BY WalkedOfNone
  <2>3. <<>> \in DOMAIN tree /\ tree[<<>>].kind = "dir"
    BY LinksAssumption
  <2>4. Lands(tree, {<<>>}) BY <2>1, <2>3 DEF Lands
  <2> QED BY <2>1, <2>2, <2>4
<1>2. ASSUME NEW names \in Paths, NEW name \in Seq(STRING), names \in T PROVE Append(names, name) \in T
  <2>1. Append(names, name) \in Paths BY DEF Paths
  <2>2. Walked(tree, <<>>, Append(names, name)) = Enter(tree, Walked(tree, <<>>, names), name)
    BY WalkedAppend DEF Paths
  <2>3. Lands(tree, Walked(tree, <<>>, names)) BY <1>2
  <2>4. Lands(tree, Enter(tree, Walked(tree, <<>>, names), name))
    BY <2>3, EnterLands
  <2> QED BY <2>1, <2>2, <2>4
<1> HIDE DEF T
<1>3. Paths \subseteq T
  BY <1>1, <1>2, TextInduction DEF Paths
<1> QED BY <1>3 DEF T

LEMMA FrontOfAppend ==
  ASSUME NEW E, NEW p \in Seq(E), NEW x \in E
  PROVE  Front(Append(p, x)) = p /\ Append(p, x) # <<>>
BY DEF Front

\* What is not a link is found where it is.
LEMMA WalkedToItself ==
  ASSUME NEW tree \in Trees
  PROVE  \A p \in Paths : p \in DOMAIN tree /\ tree[p].kind # "link" => Walked(tree, <<>>, p) = {p}
<1> DEFINE T == {p \in Paths : p \in DOMAIN tree /\ tree[p].kind # "link" => Walked(tree, <<>>, p) = {p}}
<1>1. <<>> \in T
  <2>1. <<>> \in Paths BY DEF Paths
  <2>2. Walked(tree, <<>>, <<>>) = {<<>>} BY WalkedOfNone
  <2> QED BY <2>1, <2>2
<1>2. ASSUME NEW p \in Paths, NEW name \in Seq(STRING), p \in T PROVE Append(p, name) \in T
  <2> DEFINE s == Append(p, name)
  <2>1. s \in Paths /\ Front(s) = p /\ s # <<>>
    BY FrontOfAppend DEF Paths
  <2>2. Walked(tree, <<>>, s) = Enter(tree, Walked(tree, <<>>, p), name)
    BY WalkedAppend DEF Paths
  <2> SUFFICES ASSUME s \in DOMAIN tree, tree[s].kind # "link" PROVE Walked(tree, <<>>, s) = {s}
    BY <2>1
  <2>3. p \in DOMAIN tree /\ tree[p].kind = "dir"
    BY <2>1, LinksAssumption
  <2>4. Walked(tree, <<>>, p) = {p} BY <1>2, <2>3
  <2>5. Enter(tree, {p}, name) = {s} BY DEF Enter
  <2> QED BY <2>2, <2>4, <2>5
<1> HIDE DEF T
<1>3. Paths \subseteq T
  BY <1>1, <1>2, TextInduction DEF Paths
<1> QED BY <1>3 DEF T

LEMMA TopOff ==
  ASSUME NEW path \in Paths, Top \in Seq(STRING)
  PROVE  <<Top>> \o path \in Paths /\ (<<Top>> \o path) # <<>>
         /\ (<<Top>> \o path)[1] = Top /\ Tail(<<Top>> \o path) = path
<1> HIDE DEF Top
<1> DEFINE s == <<Top>> \o path
<1>2. s \in Paths /\ s # <<>> /\ s[1] = Top /\ Len(s) = Len(path) + 1 /\ Len(path) \in Nat
      /\ \A i \in 1 .. Len(path) : s[i + 1] = path[i]
  BY DEF Paths
<1>3. Tail(s) = path
  <2>1. Tail(s) \in Paths /\ Len(Tail(s)) = Len(path) /\ \A i \in 1 .. Len(path) : Tail(s)[i] = s[i + 1]
    BY <1>2 DEF Paths
  <2> HIDE DEF s
  <2>2. Agree(Tail(s), path, Len(Tail(s)))
    BY <1>2, <2>1 DEF Agree
  <2> QED BY <2>1, <2>2, SameSequence DEF Paths
<1> QED BY <1>2, <1>3

\* A path from the top on.
Absolute(path) == path \in Paths /\ path # <<>> /\ path[1] = Top

LEMMA RealOfAbsolute ==
  ASSUME NEW tree, NEW path, Absolute(path)
  PROVE  RealIn(tree, path) = DOMAIN tree \cap Walked(tree, <<>>, Tail(path))
BY DEF Absolute, RealIn

LEMMA AbsoluteAppend ==
  ASSUME NEW path, Absolute(path), NEW name \in Seq(STRING)
  PROVE  Absolute(Append(path, name)) /\ Tail(path) \in Paths
         /\ Tail(Append(path, name)) = Append(Tail(path), name)
<1>1. path \in Seq(Seq(STRING)) /\ path # <<>> /\ path[1] = Top
  BY DEF Absolute, Paths
<1>2. Append(path, name) \in Seq(Seq(STRING)) /\ Append(path, name) # <<>> /\ Append(path, name)[1] = path[1]
      /\ Tail(path) \in Seq(Seq(STRING))
  BY <1>1
<1>3. Tail(Append(path, name)) = Append(Tail(path), name)
  <2> DEFINE E == Seq(STRING)
  <2>0. path \in Seq(E) /\ name \in E BY <1>1
  <2> HIDE DEF E
  <2> QED BY <1>1, <2>0
<1> QED BY <1>1, <1>2, <1>3 DEF Absolute, Paths

\* What lies below a path lies below what the path stands for.
LEMMA RealBelow ==
  ASSUME NEW tree \in Trees, NEW path, Absolute(path), NEW name \in Seq(STRING)
  PROVE  /\ RealIn(tree, Append(path, name)) =
              UNION {RealIn(tree, <<Top>> \o p \o <<name>>) : p \in RealIn(tree, path)}
         /\ \A p \in RealIn(tree, path) :
              RealIn(tree, <<Top>> \o p \o <<name>>) # {} => tree[p].kind = "dir"
<1> DEFINE found == Walked(tree, <<>>, Tail(path))
           D == DOMAIN tree
<1>1. Absolute(Append(path, name)) /\ Tail(path) \in Paths
      /\ Tail(Append(path, name)) = Append(Tail(path), name)
  BY AbsoluteAppend
<1>2. RealIn(tree, Append(path, name)) = D \cap Enter(tree, found, name)
  <2> DEFINE rest == Tail(path)
  <2>1. rest \in Seq(Seq(STRING)) BY <1>1 DEF Paths
  <2> HIDE DEF rest
  <2>2. Walked(tree, <<>>, Append(rest, name)) = Enter(tree, Walked(tree, <<>>, rest), name)
    BY <2>1, WalkedAppend
  <2> QED BY <1>1, <2>2, RealOfAbsolute DEF rest
<1>3. RealIn(tree, path) = D \cap found BY RealOfAbsolute
<1>4. Lands(tree, found) BY <1>1, WalkedLands
<1> HIDE DEF found
<1>0. Top \in Seq(STRING) BY DEF Absolute, Paths
<1>5. ASSUME NEW p \in D \cap found
      PROVE  RealIn(tree, <<Top>> \o p \o <<name>>) = D \cap Enter(tree, {p}, name)
  <2>1. p \in Paths /\ tree[p].kind # "link"
    BY <1>4 DEF Lands
  <2>2. Absolute(<<Top>> \o p) /\ Tail(<<Top>> \o p) = p
    BY <1>0, <2>1, TopOff DEF Absolute
  <2> DEFINE full == <<Top>> \o p
  <2>3. full \o <<name>> = Append(full, name)
    <3>1. full \in Seq(Seq(STRING))
      BY <2>2 DEF Absolute, Paths
    <3> HIDE DEF full
    <3> QED BY <3>1
  <2>4. Absolute(Append(full, name)) /\ Tail(Append(full, name)) = Append(p, name)
    BY <2>2, AbsoluteAppend
  <2>5. Walked(tree, <<>>, Append(p, name)) = Enter(tree, Walked(tree, <<>>, p), name)
    BY <2>1, WalkedAppend DEF Paths
  <2>6. Walked(tree, <<>>, p) = {p} BY <2>1, WalkedToItself
  <2> QED BY <2>3, <2>4, <2>5, <2>6, RealOfAbsolute
<1>6. ASSUME NEW q \in found, Append(q, name) \in D PROVE q \in D
  <2>1. q \in Paths BY <1>4 DEF Lands
  <2>2. Front(Append(q, name)) = q /\ Append(q, name) # <<>>
    BY <2>1, FrontOfAppend DEF Paths
  <2> QED BY <1>6, <2>2, LinksAssumption
<1>10. ASSUME NEW p \in D \cap found, Enter(tree, {p}, name) # {} PROVE tree[p].kind = "dir"
  <2>1. Append(p, name) \in D BY <1>10 DEF Enter
  <2>2. p \in Paths BY <1>4 DEF Lands
  <2>3. Front(Append(p, name)) = p /\ Append(p, name) # <<>>
    BY <2>2, FrontOfAppend DEF Paths
  <2> QED BY <2>1, <2>3, LinksAssumption
<1>7. Enter(tree, found, name) = UNION {Enter(tree, {p}, name) : p \in D \cap found}
  BY <1>6 DEF Enter
<1> DEFINE Below(p) == RealIn(tree, <<Top>> \o p \o <<name>>)
<1>8. \A p \in D \cap found : Below(p) = D \cap Enter(tree, {p}, name)
  BY <1>5
<1>9. RealIn(tree, Append(path, name)) = UNION {Below(p) : p \in D \cap found}
  <2> DEFINE From(p) == Enter(tree, {p}, name)
             there == D \cap found
  <2>1. \A p \in there : Below(p) = D \cap From(p) BY <1>8
  <2>2. RealIn(tree, Append(path, name)) = D \cap UNION {From(p) : p \in there}
    BY <1>2, <1>7
  <2> HIDE DEF Below, D, From, there
  <2>3. ASSUME NEW x PROVE x \in D \cap UNION {From(p) : p \in there} <=> \E p \in there : x \in Below(p)
    BY <2>1
  <2>4. D \cap UNION {From(p) : p \in there} = UNION {Below(p) : p \in there}
    BY <2>3
  <2>5. RealIn(tree, Append(path, name)) = UNION {Below(p) : p \in there}
    BY <2>2, <2>4
  <2> QED BY <2>5 DEF there
<1>11. ASSUME NEW p \in RealIn(tree, path), Below(p) # {} PROVE tree[p].kind = "dir"
  <2>1. Enter(tree, {p}, name) # {} BY <1>3, <1>8, <1>11
  <2> QED BY <1>3, <1>10, <2>1
<1> QED BY <1>3, <1>9, <1>11

\* A text is made of its characters.
Ones(text) == [i \in DOMAIN text |-> <<text[i]>>]

LEMMA OnesAre ==
  ASSUME NEW C, NEW t \in Seq(C)
  PROVE  /\ Ones(t) \in Seq(Seq(C)) /\ Len(Ones(t)) = Len(t)
         /\ \A i \in 1 .. Len(t) : Ones(t)[i] = <<t[i]>>
<1>1. DOMAIN t = 1 .. Len(t) /\ Len(t) \in Nat /\ \A i \in 1 .. Len(t) : t[i] \in C
  OBVIOUS
<1>2. \A i \in 1 .. Len(t) : <<t[i]>> \in Seq(C) BY <1>1
<1> DEFINE E == Seq(C)
<1>3. Ones(t) \in [1 .. Len(t) -> E] BY <1>1, <1>2 DEF Ones
<1> HIDE DEF E
<1>4. Ones(t) \in Seq(E) /\ Len(Ones(t)) = Len(t)
  BY <1>1, <1>3
<1> QED BY <1>1, <1>4 DEF Ones, E

LEMMA FlattenOnes ==
  ASSUME NEW C
  PROVE  \A t \in Seq(C) : FlattenSeq(Ones(t)) = t
<1> DEFINE T == {t \in Seq(C) : FlattenSeq(Ones(t)) = t}
<1>1. <<>> \in T
  <2>1. <<>> \in Seq(C) /\ Len(<<>>) = 0 OBVIOUS
  <2>2. Ones(<<>>) \in Seq(Seq(C)) /\ Len(Ones(<<>>)) = 0
    BY <2>1, OnesAre
  <2>3. Ones(<<>>) = <<>>
    <3> DEFINE E == Seq(C)
    <3>1. Ones(<<>>) \in Seq(E) BY <2>2
    <3> HIDE DEF E
    <3> QED BY <2>2, <3>1
  <2> QED BY <2>1, <2>3 DEF FlattenSeq
<1>2. ASSUME NEW t \in Seq(C), NEW c \in C, t \in T PROVE Append(t, c) \in T
  <2> DEFINE u == Append(t, c)
  <2>1. u \in Seq(C) /\ Len(u) = Len(t) + 1 /\ Len(t) \in Nat /\ u[Len(t) + 1] = c /\ u = t \o <<c>>
    OBVIOUS
  <2>2. Agree(t, u, Len(t)) BY AppendIs
  <2> HIDE DEF u
  <2>3. Ones(t) \in Seq(Seq(C)) /\ Ones(u) \in Seq(Seq(C)) /\ Len(Ones(t)) = Len(t)
        /\ Len(Ones(u)) = Len(t) + 1
    BY <2>1, OnesAre
  <2>4. \A i \in 1 .. Len(t) : Ones(t)[i] = <<t[i]>>
    BY OnesAre
  <2>5. \A i \in 1 .. Len(u) : Ones(u)[i] = <<u[i]>>
    BY <2>1, OnesAre
  <2>6. Agree(Ones(t), Ones(u), Len(Ones(t)))
    <3>1. ASSUME NEW i \in 1 .. Len(t) PROVE Ones(t)[i] = Ones(u)[i]
      <4>1. i \in 1 .. Len(u) /\ t[i] = u[i]
        BY <2>1, <2>2 DEF Agree
      <4> QED BY <2>4, <2>5, <4>1
    <3> QED BY <2>3, <3>1 DEF Agree
  <2>7. FlattenSeq(Ones(u)) = FlattenSeq(Ones(t)) \o Ones(u)[Len(Ones(u))]
    BY <2>3, <2>6, FlattenLast
  <2>8. Ones(u)[Len(Ones(u))] = <<c>>
    <3>1. Len(Ones(u)) \in 1 .. Len(u) /\ u[Len(Ones(u))] = c
      BY <2>1, <2>3
    <3> QED BY <2>5, <3>1
  <2>9. FlattenSeq(Ones(t)) = t BY <1>2
  <2> QED BY <2>1, <2>7, <2>8, <2>9 DEF u
<1> HIDE DEF T
<1>3. Seq(C) \subseteq T BY <1>1, <1>2, TextInduction
<1> QED BY <1>3 DEF T

Escaped == {"+", "%2F", "%C3%A9"}

LEMMA NothingDecoded ==
  ASSUME NEW uri \in Seq(STRING), \A i \in DOMAIN uri : uri[i] \notin Escaped
  PROVE  Decoded(uri) = uri
<1>1. \A i \in DOMAIN uri : uri[i] # "+" /\ uri[i] # "%2F" /\ uri[i] # "%C3%A9"
  BY DEF Escaped
<1>2. Decoded(uri) = FlattenSeq(Ones(uri))
  BY <1>1 DEF Decoded, Ones
<1> QED BY <1>2, FlattenOnes

\* Names without escapes come from a text without escapes.
LEMMA PlainTexts ==
  ASSUME NEW uri \in Seq(STRING), NEW names, names = NonEmpty(Split(uri, "/")),
         \A i \in DOMAIN names : ToSet(names[i]) \cap Escaped = {}
  PROVE  Decoded(uri) = uri
<1> DEFINE parts == Split(uri, "/")
           E == Seq(STRING \ {"/"})
<1>1. parts \in Seq(E) BY SplitType
<1>2. names \in Seq(E)
  <2> HIDE DEF parts
  <2> HIDE DEF E
  <2> QED BY <1>1, NonEmptyType DEF parts
<1> SUFFICES ASSUME NEW k \in DOMAIN uri, uri[k] \in Escaped PROVE FALSE
  BY NothingDecoded
<1>3. k \in 1 .. Len(uri) /\ uri[k] # "/" BY DEF Escaped
<1>4. Occurs(uri[k], parts) BY <1>3, SplitKeeps
<1>5. PICK i \in 1 .. Len(parts) : \E j \in 1 .. Len(parts[i]) : parts[i][j] = uri[k]
  BY <1>4 DEF Occurs
<1>6. PICK j \in 1 .. Len(parts[i]) : parts[i][j] = uri[k]
  BY <1>5
<1> HIDE DEF parts
<1>7. parts[i] \in E BY <1>1
<1>8. parts[i] # <<>> /\ Has(parts, parts[i])
  BY <1>6, <1>7 DEF Has
<1>9. Has(names, parts[i])
  <2> HIDE DEF E
  <2> QED BY <1>1, <1>8, NonEmptyHas DEF parts
<1>10. PICK h \in 1 .. Len(names) : names[h] = parts[i]
  BY <1>9 DEF Has
<1>11. h \in DOMAIN names /\ j \in DOMAIN names[h] /\ names[h][j] = uri[k]
  BY <1>2, <1>6, <1>7, <1>10
<1>12. uri[k] \in ToSet(names[h]) BY <1>11 DEF ToSet
<1> QED BY <1>11, <1>12

-----------------------------------------------------------------------------
(* How a pattern meets a path.                                              *)

LEMMA GreatestIs ==
  ASSUME NEW n \in Nat, NEW S, S \subseteq 0 .. n, S # {}
  PROVE  Max(S) \in S /\ \A y \in S : y <= Max(S)
<1> DEFINE T == {n - x : x \in S}
<1>1. T \subseteq Nat /\ T # {} OBVIOUS
<1>2. PICK l \in T : \A m \in T : l <= m
  BY <1>1, LeastNatural
<1>3. PICK x \in S : l = n - x BY <1>2
<1>4. \A y \in S : y <= x BY <1>2, <1>3
<1>5. \E z \in S : \A y \in S : y <= z BY <1>4
<1> QED BY <1>5 DEF Max

\* Where the elements of a pattern from the m-th on have what they need.
FitsFrom(f, pattern, path, wholly, stops, m) ==
  f = [i \in m .. Len(pattern) |->
        IF i = Len(pattern) THEN IF wholly THEN {Len(path)} ELSE 0 .. Len(path)
        ELSE {s \in 0 .. Len(path) : \E e \in f[i + 1] : Takes(pattern, path, stops, i + 1, s, e)}]

LEMMA FittingExists ==
  ASSUME NEW pattern, NEW path, NEW wholly, NEW stops, Len(pattern) \in Nat
  PROVE  \A k \in Nat : k <= Len(pattern) =>
           \E f : FitsFrom(f, pattern, path, wholly, stops, Len(pattern) - k)
<1> DEFINE n == Len(pattern)
           end == IF wholly THEN {Len(path)} ELSE 0 .. Len(path)
           Before(after, i) ==
             {s \in 0 .. Len(path) : \E e \in after : Takes(pattern, path, stops, i + 1, s, e)}
           Are(f, m) == f = [i \in m .. n |-> IF i = n THEN end ELSE Before(f[i + 1], i)]
           S == {k \in Nat : k <= n => \E f : Are(f, n - k)}
<1>0. \A f, m : FitsFrom(f, pattern, path, wholly, stops, m) <=> Are(f, m)
  BY DEF FitsFrom
<1> HIDE DEF Before, end
<1>1. 0 \in S
  <2> DEFINE f == [i \in n .. n |-> end]
  <2>1. Are(f, n) OBVIOUS
  <2>2. n - 0 = n OBVIOUS
  <2> QED BY <2>1, <2>2
<1>2. ASSUME NEW k \in Nat, k \in S PROVE k + 1 \in S
  <2> SUFFICES ASSUME k + 1 <= n PROVE \E f : Are(f, n - (k + 1))
    OBVIOUS
  <2> DEFINE m == n - (k + 1)
  <2>1. m \in Nat /\ n - k = m + 1 /\ m < n OBVIOUS
  <2>2. PICK f : Are(f, m + 1)
    <3>1. \E f : Are(f, n - k) BY <1>2
    <3> QED BY <2>1, <3>1
  <2> HIDE DEF m
  <2> DEFINE g == [i \in m .. n |-> IF i = m THEN Before(f[m + 1], m) ELSE f[i]]
  <2>3. ASSUME NEW i \in m .. n PROVE g[i] = IF i = n THEN end ELSE Before(g[i + 1], i)
    <3>1. CASE i = m
      <4>1. g[i] = Before(f[m + 1], m) /\ g[m + 1] = f[m + 1] /\ i # n
        BY <2>1, <3>1
      <4> HIDE DEF g
      <4> QED BY <3>1, <4>1
    <3>2. CASE i # m
      <4>1. i \in m + 1 .. n /\ g[i] = f[i] /\ (i # n => g[i + 1] = f[i + 1])
        BY <2>1, <3>2
      <4>2. f[i] = IF i = n THEN end ELSE Before(f[i + 1], i)
        BY <2>2, <4>1
      <4> HIDE DEF g
      <4> QED BY <4>1, <4>2
    <3> QED BY <3>1, <3>2
  <2>4. Are(g, m) BY <2>3
  <2> HIDE DEF g, Are
  <2> QED BY <2>4 DEF m
<1> HIDE DEF S
<1>3. Nat \subseteq S BY <1>1, <1>2, Induction
<1> HIDE DEF Are
<1> QED BY <1>0, <1>3 DEF S

LEMMA FittingIs ==
  ASSUME NEW pattern, NEW path, NEW wholly, NEW stops, Len(pattern) \in Nat
  PROVE  FitsFrom(Fitting(pattern, path, wholly, stops), pattern, path, wholly, stops, 0)
<1> DEFINE f == CHOOSE g : FitsFrom(g, pattern, path, wholly, stops, 0)
<1>1. \E g : FitsFrom(g, pattern, path, wholly, stops, 0)
  <2>1. Len(pattern) <= Len(pattern) /\ Len(pattern) - Len(pattern) = 0
    OBVIOUS
  <2> QED BY <2>1, FittingExists
<1>2. FitsFrom(f, pattern, path, wholly, stops, 0) BY <1>1
<1>3. f = Fitting(pattern, path, wholly, stops)
  BY DEF Fitting, FitsFrom
<1> QED BY <1>2, <1>3

\* Where the elements of a pattern end, up to the n-th.
CutsBy(g, from, pattern, path, stops, n) ==
  g = [i \in 0 .. n |-> IF i = 0 THEN 0
                        ELSE Max({e \in from[i] : Takes(pattern, path, stops, i, g[i - 1], e)})]

LEMMA CutsExist ==
  ASSUME NEW from, NEW pattern, NEW path, NEW stops
  PROVE  \A n \in Nat : \E g : CutsBy(g, from, pattern, path, stops, n)
<1> DEFINE Further(i, s) == Max({e \in from[i] : Takes(pattern, path, stops, i, s, e)})
           By(g, n) == g = [i \in 0 .. n |-> IF i = 0 THEN 0 ELSE Further(i, g[i - 1])]
           S == {n \in Nat : \E g : By(g, n)}
<1>0. \A g, n : CutsBy(g, from, pattern, path, stops, n) <=> By(g, n)
  BY DEF CutsBy
<1> HIDE DEF Further
<1>1. 0 \in S
  <2> DEFINE g == [i \in 0 .. 0 |-> 0]
  <2>1. By(g, 0) OBVIOUS
  <2> QED BY <2>1
<1>2. ASSUME NEW n \in Nat, n \in S PROVE n + 1 \in S
  <2>1. PICK g : By(g, n) BY <1>2
  <2> DEFINE h == [i \in 0 .. n + 1 |-> IF i = n + 1 THEN Further(n + 1, g[n]) ELSE g[i]]
  <2>2. ASSUME NEW i \in 0 .. n + 1 PROVE h[i] = IF i = 0 THEN 0 ELSE Further(i, h[i - 1])
    <3>1. CASE i = n + 1
      <4>1. h[i] = Further(n + 1, g[n]) /\ h[i - 1] = g[n] /\ i # 0
        BY <3>1
      <4> HIDE DEF h
      <4> QED BY <3>1, <4>1
    <3>2. CASE i # n + 1
      <4>1. i \in 0 .. n /\ h[i] = g[i] /\ (i # 0 => h[i - 1] = g[i - 1])
        BY <3>2
      <4> HIDE DEF h
      <4>2. g[i] = IF i = 0 THEN 0 ELSE Further(i, g[i - 1])
        BY <2>1, <4>1
      <4> QED BY <4>1, <4>2
    <3> QED BY <3>1, <3>2
  <2>3. By(h, n + 1) BY <2>2
  <2> HIDE DEF h, By
  <2> QED BY <2>3
<1> HIDE DEF S
<1>3. Nat \subseteq S BY <1>1, <1>2, Induction
<1> HIDE DEF By
<1> QED BY <1>0, <1>3 DEF S

\* One cut after the other, the last of them as far as it goes.
CutsAlong(cut, pattern, path, stops) ==
  /\ cut[0] = 0
  /\ \A i \in 0 .. Len(pattern) : cut[i] \in 0 .. Len(path)
  /\ \A i \in 1 .. Len(pattern) : Takes(pattern, path, stops, i, cut[i - 1], cut[i])
  /\ Len(pattern) > 0 =>
       \A e \in 0 .. Len(path) :
         Takes(pattern, path, stops, Len(pattern), cut[Len(pattern) - 1], e) => e <= cut[Len(pattern)]

LEMMA CutIs ==
  ASSUME NEW pattern, Len(pattern) \in Nat, NEW path, Len(path) \in Nat, NEW stops,
         NEW cut \in Cuts(pattern, path, FALSE, stops)
  PROVE  CutsAlong(cut, pattern, path, stops)
<1> DEFINE n == Len(pattern)
           from == Fitting(pattern, path, FALSE, stops)
           Reached(i, s) == {e \in from[i] : Takes(pattern, path, stops, i, s, e)}
<1>1. FitsFrom(from, pattern, path, FALSE, stops, 0)
  BY FittingIs
<1>2. 0 \in from[0] /\ CutsBy(cut, from, pattern, path, stops, n)
  <2> DEFINE g == CHOOSE f : CutsBy(f, from, pattern, path, stops, n)
  <2>1. \E f : CutsBy(f, from, pattern, path, stops, n)
    BY CutsExist
  <2>2. CutsBy(g, from, pattern, path, stops, n) BY <2>1
  <2>3. Cuts(pattern, path, FALSE, stops) = IF 0 \in from[0] THEN {g} ELSE {}
    BY DEF Cuts, CutsBy
  <2> QED BY <2>2, <2>3
<1> HIDE DEF from
<1>3. from[n] = 0 .. Len(path) BY <1>1 DEF FitsFrom
<1>4. ASSUME NEW i \in 0 .. n - 1
      PROVE  from[i] = {s \in 0 .. Len(path) : \E e \in from[i + 1] : Takes(pattern, path, stops, i + 1, s, e)}
  <2>1. i \in 0 .. n /\ i # n OBVIOUS
  <2> QED BY <1>1, <2>1 DEF FitsFrom
<1>5. \A i \in 0 .. n : from[i] \subseteq 0 .. Len(path)
  <2> SUFFICES ASSUME NEW i \in 0 .. n PROVE from[i] \subseteq 0 .. Len(path)
    OBVIOUS
  <2>1. i = n \/ i \in 0 .. n - 1 OBVIOUS
  <2> QED BY <1>3, <1>4, <2>1
<1>6. cut[0] = 0
  <2>1. 0 \in 0 .. n OBVIOUS
  <2> QED BY <1>2, <2>1 DEF CutsBy
<1>7. ASSUME NEW i \in 1 .. n PROVE cut[i] = Max(Reached(i, cut[i - 1]))
  <2>1. i \in 0 .. n /\ i # 0 OBVIOUS
  <2> QED BY <1>2, <2>1 DEF CutsBy
<1> DEFINE Best(i) == /\ cut[i] \in Reached(i, cut[i - 1])
                      /\ \A e \in Reached(i, cut[i - 1]) : e <= cut[i]
<1>8. ASSUME NEW i \in 0 .. n - 1, cut[i] \in from[i] PROVE Best(i + 1)
  <2> DEFINE S == Reached(i + 1, cut[i])
  <2>1. i + 1 \in 1 .. n /\ i + 1 \in 0 .. n /\ (i + 1) - 1 = i
    OBVIOUS
  <2>2. PICK e \in from[i + 1] : Takes(pattern, path, stops, i + 1, cut[i], e)
    BY <1>4, <1>8
  <2>3. S \subseteq 0 .. Len(path) /\ S # {}
    BY <1>5, <2>1, <2>2
  <2>4. Max(S) \in S /\ \A y \in S : y <= Max(S)
    <3> HIDE DEF S
    <3> QED BY <2>3, GreatestIs
  <2>5. cut[i + 1] = Max(S) BY <1>7, <2>1
  <2> QED BY <2>1, <2>4, <2>5
<1> DEFINE T == {i \in Nat : i <= n => cut[i] \in from[i]}
<1>9. 0 \in T BY <1>2, <1>6
<1>10. ASSUME NEW i \in Nat, i \in T PROVE i + 1 \in T
  <2> SUFFICES ASSUME i + 1 <= n PROVE cut[i + 1] \in from[i + 1]
    OBVIOUS
  <2>1. i \in 0 .. n - 1 /\ cut[i] \in from[i] BY <1>10
  <2> QED BY <1>8, <2>1
<1> HIDE DEF T
<1>11. Nat \subseteq T BY <1>9, <1>10, Induction
<1>12. ASSUME NEW i \in 0 .. n PROVE cut[i] \in from[i]
  BY <1>11 DEF T
<1>13. ASSUME NEW i \in 1 .. n PROVE Best(i)
  <2>1. i - 1 \in 0 .. n - 1 /\ i - 1 \in 0 .. n /\ (i - 1) + 1 = i
    OBVIOUS
  <2>2. cut[i - 1] \in from[i - 1] BY <1>12, <2>1
  <2> HIDE DEF Best
  <2> QED BY <1>8, <2>1, <2>2
<1>14. \A i \in 0 .. n : cut[i] \in 0 .. Len(path)
  BY <1>5, <1>12
<1>15. \A i \in 1 .. n : Takes(pattern, path, stops, i, cut[i - 1], cut[i])
  BY <1>13
<1>16. n > 0 => \A e \in 0 .. Len(path) : Takes(pattern, path, stops, n, cut[n - 1], e) => e <= cut[n]
  <2> SUFFICES ASSUME n > 0 PROVE \A e \in 0 .. Len(path) :
                                    Takes(pattern, path, stops, n, cut[n - 1], e) => e <= cut[n]
    OBVIOUS
  <2>1. Best(n) BY <1>13
  <2> QED BY <1>3, <2>1
<1> QED BY <1>6, <1>14, <1>15, <1>16 DEF CutsAlong

LEMMA OneMore ==
  ASSUME NEW E, NEW t \in Seq(E), NEW n \in Nat, n < Len(t)
  PROVE  SubSeq(t, 1, n + 1) = Append(SubSeq(t, 1, n), t[n + 1])
OBVIOUS

LEMMA SubSeqIs ==
  ASSUME NEW E, NEW t \in Seq(E), NEW m \in Nat, NEW n \in Nat, m <= n, n <= Len(t)
  PROVE  /\ SubSeq(t, m + 1, n) \in Seq(E)
         /\ Len(SubSeq(t, m + 1, n)) = n - m
         /\ \A i \in 1 .. n - m : SubSeq(t, m + 1, n)[i] = t[m + i]
OBVIOUS

LEMMA SomeMore ==
  ASSUME NEW E, NEW t \in Seq(E), NEW m \in Nat, NEW n \in Nat, m <= n, n <= Len(t)
  PROVE  SubSeq(t, 1, n) = SubSeq(t, 1, m) \o SubSeq(t, m + 1, n)
<1> DEFINE all == SubSeq(t, 1, n)
           p == SubSeq(t, 1, m)
           q == SubSeq(t, m + 1, n)
<1>1. all \in Seq(E) /\ Len(all) = n /\ \A i \in 1 .. n : all[i] = t[i]
  <2>1. 0 \in Nat /\ 0 <= n /\ 0 + 1 = 1 /\ n - 0 = n /\ \A i \in 1 .. n : 0 + i = i
    OBVIOUS
  <2>2. /\ SubSeq(t, 0 + 1, n) \in Seq(E)
        /\ Len(SubSeq(t, 0 + 1, n)) = n - 0
        /\ \A i \in 1 .. n - 0 : SubSeq(t, 0 + 1, n)[i] = t[0 + i]
    BY <2>1, SubSeqIs
  <2> QED BY <2>1, <2>2
<1>2. p \in Seq(E) /\ Len(p) = m /\ \A i \in 1 .. m : p[i] = t[i]
  <2>1. 0 \in Nat /\ 0 <= m /\ m <= Len(t) /\ 0 + 1 = 1 /\ m - 0 = m /\ \A i \in 1 .. m : 0 + i = i
    OBVIOUS
  <2>2. /\ SubSeq(t, 0 + 1, m) \in Seq(E)
        /\ Len(SubSeq(t, 0 + 1, m)) = m - 0
        /\ \A i \in 1 .. m - 0 : SubSeq(t, 0 + 1, m)[i] = t[0 + i]
    BY <2>1, SubSeqIs
  <2> QED BY <2>1, <2>2
<1>3. q \in Seq(E) /\ Len(q) = n - m /\ \A i \in 1 .. n - m : q[i] = t[m + i]
  BY SubSeqIs
<1> HIDE DEF all, p, q
<1>4. p \o q \in Seq(E) /\ Joins(p \o q, p, q)
  BY <1>2, <1>3, ConcatIs
<1>5. Len(p \o q) = n BY <1>2, <1>3, <1>4 DEF Joins
<1>6. ASSUME NEW i \in 1 .. n PROVE all[i] = (p \o q)[i]
  <2>1. CASE i <= m
    <3>1. i \in 1 .. m BY <2>1
    <3> QED BY <1>1, <1>2, <1>4, <3>1 DEF Joins
  <2>2. CASE i > m
    <3> DEFINE j == i - m
    <3>1. j \in 1 .. n - m /\ m + j = i BY <2>2
    <3> HIDE DEF j
    <3>2. (p \o q)[i] = q[j]
      BY <1>2, <1>3, <1>4, <3>1 DEF Joins
    <3> QED BY <1>1, <1>3, <3>1, <3>2
  <2>3. i <= m \/ i > m OBVIOUS
  <2> QED BY <2>1, <2>2, <2>3
<1>7. Agree(all, p \o q, Len(all)) BY <1>1, <1>6 DEF Agree
<1> QED
  <2>1. all = p \o q BY <1>1, <1>4, <1>5, <1>7, SameSequence
  <2> QED BY <2>1 DEF all, p, q

LEMMA GrownLength ==
  ASSUME NEW E, NEW parts \in Seq(E), parts # <<>>, NEW c, NEW at
  PROVE  Len(Grown(parts, c, at)) = IF c = at THEN Len(parts) + 1 ELSE Len(parts)
BY DEF Grown

\* As much of a path as the first elements of a pattern stand for has as many names.
LEMMA CutsKeepTheCount ==
  ASSUME NEW pattern \in Seq(STRING), NEW path \in Seq(STRING), NEW cut,
         CutsAlong(cut, pattern, path, RouterStops)
  PROVE  \A i \in 0 .. Len(pattern) :
           Len(Split(SubSeq(path, 1, cut[i]), "/")) = Len(Split(SubSeq(pattern, 1, i), "/"))
<1> DEFINE n == Len(pattern)
           Between(text) == Split(text, "/")
           T == {i \in Nat : i <= n => Len(Between(SubSeq(path, 1, cut[i]))) = Len(Between(SubSeq(pattern, 1, i)))}
<1>1. 0 \in T
  <2>1. SubSeq(path, 1, 0) = SubSeq(pattern, 1, 0) OBVIOUS
  <2>2. cut[0] = 0 BY DEF CutsAlong
  <2> QED BY <2>1, <2>2
<1>2. ASSUME NEW i \in Nat, i \in T PROVE i + 1 \in T
  <2> SUFFICES ASSUME i + 1 <= n
               PROVE  Len(Between(SubSeq(path, 1, cut[i + 1]))) = Len(Between(SubSeq(pattern, 1, i + 1)))
    OBVIOUS
  <2> DEFINE c == pattern[i + 1]
             p == SubSeq(pattern, 1, i)
             s == cut[i]
             e == cut[i + 1]
             t == SubSeq(path, 1, s)
  <2>1. i \in 0 .. n /\ i + 1 \in 0 .. n /\ i + 1 \in 1 .. n /\ (i + 1) - 1 = i /\ i < n /\ Len(path) \in Nat
    OBVIOUS
  <2>2. s \in 0 .. Len(path) /\ e \in 0 .. Len(path)
    BY <2>1 DEF CutsAlong
  <2>3. Takes(pattern, path, RouterStops, i + 1, s, e)
    BY <2>1 DEF CutsAlong
  <2>4. Len(Between(t)) = Len(Between(p)) BY <1>2, <2>1
  <2>5. c \in STRING /\ p \in Seq(STRING) /\ SubSeq(pattern, 1, i + 1) = Append(p, c)
    BY <2>1, OneMore
  <2>6. t \in Seq(STRING) BY <2>2
  <2> HIDE DEF c, p, s, e, t
  <2>7. Len(Between(Append(p, c))) = IF c = "/" THEN Len(Between(p)) + 1 ELSE Len(Between(p))
    <3>1. Between(Append(p, c)) = Grown(Between(p), c, "/")
      BY <2>5, SplitAppend
    <3>2. Between(p) \in Seq(Seq(STRING \ {"/"})) /\ Between(p) # <<>>
      BY <2>5, SplitType
    <3> QED BY <3>1, <3>2, GrownLength
  <2>8. CASE c \in Parameters
    <3>1. c # "/" /\ s < e /\ \A k \in s + 1 .. e : path[k] # "/"
      BY <2>3, <2>8 DEF Takes, Parameters, RouterStops, c
    <3> DEFINE u == SubSeq(path, s + 1, e)
    <3>2. s \in Nat /\ e \in Nat /\ s <= e /\ e <= Len(path)
      BY <2>2, <3>1
    <3>3. /\ u \in Seq(STRING) /\ Len(u) = e - s
          /\ \A k \in 1 .. e - s : u[k] = path[s + k]
      BY <3>2, SubSeqIs
    <3>4. SubSeq(path, 1, e) = t \o u
      BY <3>2, SomeMore DEF t
    <3> HIDE DEF u
    <3>5. u \in Seq(STRING \ {"/"})
      <4>1. ASSUME NEW k \in 1 .. Len(u) PROVE u[k] \in STRING \ {"/"}
        <5>1. s + k \in s + 1 .. e /\ k \in 1 .. e - s
          BY <3>2, <3>3
        <5> QED BY <3>1, <3>3, <5>1
      <4> DEFINE D == STRING \ {"/"}
      <4>2. u = [k \in 1 .. Len(u) |-> u[k]] /\ Len(u) \in Nat
        BY <3>3
      <4>3. \A k \in 1 .. Len(u) : u[k] \in D BY <4>1
      <4> HIDE DEF D
      <4>4. u \in Seq(D) BY <4>2, <4>3
      <4> QED BY <4>4 DEF D
    <3>6. Between(t \o u) = LastAs(Between(t), Between(t)[Len(Between(t))] \o u)
      BY <2>6, <3>5, SplitAlongPart
    <3>7. Len(Between(t \o u)) = Len(Between(t))
      <4> DEFINE E == Seq(STRING \ {"/"})
                 parts == Between(t)
      <4>1. parts \in Seq(E) /\ parts # <<>>
        BY <2>6, SplitType
      <4> HIDE DEF parts
      <4>2. Len(LastAs(parts, parts[Len(parts)] \o u)) = Len(parts)
        <5> HIDE DEF E
        <5> QED BY <4>1 DEF LastAs
      <4> QED BY <3>6, <4>2 DEF parts
    <3> QED BY <2>4, <2>5, <2>7, <3>1, <3>4, <3>7 DEF e
  <2>9. CASE c \notin Parameters
    <3>1. e = s + 1 /\ path[e] = c
      BY <2>3, <2>9 DEF Takes, c
    <3>2. SubSeq(path, 1, s + 1) = Append(t, path[s + 1])
      BY <2>2, <3>1, OneMore DEF t
    <3>3. SubSeq(path, 1, e) = Append(t, c) BY <3>1, <3>2
    <3>4. Len(Between(Append(t, c))) = IF c = "/" THEN Len(Between(t)) + 1 ELSE Len(Between(t))
      <4>1. Between(Append(t, c)) = Grown(Between(t), c, "/")
        BY <2>6, SplitAppend
      <4>2. Between(t) \in Seq(Seq(STRING \ {"/"})) /\ Between(t) # <<>>
        BY <2>6, SplitType
      <4> QED BY <4>1, <4>2, GrownLength
    <3> QED BY <2>4, <2>5, <2>7, <3>3, <3>4 DEF e
  <2> QED BY <2>8, <2>9
<1> HIDE DEF T
<1>3. Nat \subseteq T BY <1>1, <1>2, Induction
<1> QED BY <1>3 DEF T

LEMMA SlashOff ==
  ASSUME NEW text \in Seq(STRING), EndsInSlash(text)
  PROVE  \E t \in Seq(STRING) : text = Append(t, "/") /\ "/" \in STRING
<1> DEFINE n == Len(text)
           t == SubSeq(text, 1, n - 1)
<1>1. n \in Nat /\ n # 0 /\ text[n] = "/" /\ text[n] \in STRING
  BY DEF EndsInSlash
<1>2. t \in Seq(STRING) /\ text = Append(t, text[n]) BY <1>1
<1> HIDE DEF t
<1> QED BY <1>1, <1>2

LEMMA BehindIs ==
  ASSUME NEW E, NEW p \in Seq(E), NEW q \in Seq(E)
  PROVE  SubSeq(p \o q, Len(p) + 1, Len(p \o q)) = q
<1> DEFINE all == p \o q
           rest == SubSeq(all, Len(p) + 1, Len(all))
<1>1. all \in Seq(E) /\ Joins(all, p, q) BY ConcatIs
<1> HIDE DEF all
<1>2. Len(p) \in Nat /\ Len(all) \in Nat /\ Len(q) \in Nat /\ Len(p) <= Len(all) /\ Len(all) - Len(p) = Len(q)
  BY <1>1 DEF Joins
<1>3. rest \in Seq(E) /\ Len(rest) = Len(q) /\ \A i \in 1 .. Len(q) : rest[i] = all[Len(p) + i]
  <2>1. /\ SubSeq(all, Len(p) + 1, Len(all)) \in Seq(E)
        /\ Len(SubSeq(all, Len(p) + 1, Len(all))) = Len(all) - Len(p)
        /\ \A i \in 1 .. Len(all) - Len(p) : SubSeq(all, Len(p) + 1, Len(all))[i] = all[Len(p) + i]
    BY <1>1, <1>2, SubSeqIs
  <2> QED BY <1>2, <2>1
<1>4. Agree(rest, q, Len(rest))
  BY <1>1, <1>3 DEF Agree, Joins
<1> HIDE DEF rest
<1>5. rest = q BY <1>3, <1>4, SameSequence
<1> QED BY <1>5 DEF rest, all

LEMMA AllOfIt ==
  ASSUME NEW E, NEW t \in Seq(E)
  PROVE  SubSeq(t, 1, Len(t)) = t
OBVIOUS

\* A slash that a text begins with makes no difference to its names.
LEMMA RestHasTheNames ==
  ASSUME NEW path \in Seq(STRING), NEW m \in 0 .. Len(path)
  PROVE  NonEmpty(Split(Rest(path, m), "/")) = NonEmpty(Split(RestAsItIs(path, m), "/"))
<1> DEFINE u == SubSeq(path, m + 1, Len(path))
           v == SubSeq(path, m + 2, Len(path))
<1>1. CASE ~(m < Len(path) /\ path[m + 1] = "/")
  BY <1>1 DEF Rest, RestAsItIs
<1>2. CASE m < Len(path) /\ path[m + 1] = "/"
  <2>1. Rest(path, m) = v /\ RestAsItIs(path, m) = u
    BY <1>2 DEF Rest, RestAsItIs
  <2>2. m \in Nat /\ m + 1 \in Nat /\ Len(path) \in Nat /\ m <= Len(path) /\ m + 1 <= Len(path)
        /\ (m + 1) + 1 = m + 2
    BY <1>2
  <2>3. /\ v \in Seq(STRING) /\ Len(v) = Len(path) - (m + 1)
        /\ \A i \in 1 .. Len(path) - (m + 1) : v[i] = path[(m + 1) + i]
    <3>1. /\ SubSeq(path, (m + 1) + 1, Len(path)) \in Seq(STRING)
          /\ Len(SubSeq(path, (m + 1) + 1, Len(path))) = Len(path) - (m + 1)
          /\ \A i \in 1 .. Len(path) - (m + 1) :
               SubSeq(path, (m + 1) + 1, Len(path))[i] = path[(m + 1) + i]
      BY <2>2, SubSeqIs
    <3> QED BY <2>2, <3>1
  <2>4. /\ u \in Seq(STRING) /\ Len(u) = Len(path) - m
        /\ \A i \in 1 .. Len(path) - m : u[i] = path[m + i]
    BY <2>2, SubSeqIs
  <2>5. path[m + 1] \in STRING BY <2>2
  <2> HIDE DEF u, v
  <2> DEFINE slash == Append(<<>>, "/")
  <2>6. slash \in Seq(STRING) /\ Len(slash) = 1 /\ slash[1] = "/" /\ <<>> \in Seq(STRING) /\ "/" \in STRING
    <3>1. "/" \in STRING BY <1>2, <2>5
    <3>2. <<>> \in Seq(STRING) /\ Len(<<>>) = 0 OBVIOUS
    <3>3. Len(slash) = Len(<<>>) + 1 /\ slash[Len(<<>>) + 1] = "/"
      BY <3>2, AppendIs
    <3>4. slash \in Seq(STRING) BY <3>1, <3>2
    <3> QED BY <3>1, <3>2, <3>3, <3>4
  <2> HIDE DEF slash
  <2>7. u = slash \o v
    <3>1. slash \o v \in Seq(STRING) /\ Joins(slash \o v, slash, v)
      BY <2>3, <2>6, ConcatIs
    <3>2. Len(slash \o v) = Len(u)
      BY <2>2, <2>3, <2>4, <2>6, <3>1 DEF Joins
    <3>3. ASSUME NEW i \in 1 .. Len(u) PROVE u[i] = (slash \o v)[i]
      <4>1. CASE i = 1
        <5>1. 1 \in 1 .. Len(slash) BY <2>6
        <5>2. (slash \o v)[i] = slash[i]
          BY <3>1, <4>1, <5>1 DEF Joins
        <5>3. u[i] = path[m + 1] BY <2>4, <4>1
        <5> QED BY <1>2, <2>6, <4>1, <5>2, <5>3
      <4>2. CASE i # 1
        <5> DEFINE j == i - 1
        <5>1. j \in 1 .. Len(v) /\ j \in 1 .. Len(path) - (m + 1) /\ Len(slash) + j = i /\ (m + 1) + j = m + i
          BY <2>2, <2>3, <2>4, <2>6, <4>2
        <5> HIDE DEF j
        <5>2. (slash \o v)[i] = v[j] BY <3>1, <5>1 DEF Joins
        <5>3. u[i] = path[m + i] BY <2>4
        <5> QED BY <2>3, <5>1, <5>2, <5>3
      <4> QED BY <4>1, <4>2
    <3>4. Agree(u, slash \o v, Len(u)) BY <3>3 DEF Agree
    <3> QED BY <2>4, <3>1, <3>2, <3>4, SameSequence
  <2>8. Split(u, "/") = Split(<<>>, "/") \o Split(v, "/")
    BY <2>3, <2>6, <2>7, SplitAtSeparator DEF slash
  <2>9. Split(<<>>, "/") = << <<>> >> BY SplitNothing
  <2>10. Split(v, "/") \in Seq(Seq(STRING \ {"/"}))
    BY <2>3, SplitType
  <2>11. NonEmpty(<< <<>> >> \o Split(v, "/")) = NonEmpty(Split(v, "/"))
    <3> DEFINE E == Seq(STRING \ {"/"})
    <3>1. <<>> \in E OBVIOUS
    <3>2. Split(v, "/") \in Seq(E) BY <2>10
    <3> HIDE DEF E
    <3> QED BY <3>1, <3>2, NonEmptyBehindEmpty
  <2> QED BY <2>1, <2>8, <2>9, <2>11
<1> QED BY <1>1, <1>2

\* As much of a path as a pattern stands for, ending where a name does.
TakesNames(pattern, path, m) ==
  /\ Len(Segments(SubSeq(path, 1, m))) = Len(Segments(pattern))
  /\ EndsInSlash(pattern) => EndsInSlash(SubSeq(path, 1, m))
  /\ ~EndsInSlash(pattern) => m = Len(path) \/ path[m + 1] = "/"

LEMMA NamesBehind ==
  ASSUME NEW pattern \in Seq(STRING), NEW path \in Seq(STRING), NEW m \in 0 .. Len(path),
         TakesNames(pattern, path, m)
  PROVE  NamesAfter(pattern, path) =
           IF EndsInSlash(pattern) THEN Segments(RestAsItIs(path, m))
           ELSE IF m = Len(path) THEN <<>> ELSE Segments(Rest(path, m))
<1> DEFINE taken == SubSeq(path, 1, m)
           E == Seq(STRING \ {"/"})
<1>1. m \in Nat /\ Len(path) \in Nat /\ m <= Len(path) /\ taken \in Seq(STRING)
  OBVIOUS
<1>2. Len(Segments(taken)) = Len(Segments(pattern))
  BY DEF TakesNames
<1>3. \A t \in Seq(STRING) : Segments(t) \in Seq(E) /\ Segments(t) # <<>>
  BY SplitType DEF Segments
<1>4. CASE EndsInSlash(pattern)
  <2> DEFINE u == SubSeq(path, m + 1, Len(path))
  <2>1. u \in Seq(STRING) /\ path = taken \o u
    <3>1. SubSeq(path, m + 1, Len(path)) \in Seq(STRING)
      BY <1>1
    <3>2. SubSeq(path, 1, Len(path)) = taken \o u
      <4>1. Len(path) <= Len(path) BY <1>1
      <4> QED BY <1>1, <4>1, SomeMore
    <3> QED BY <3>1, <3>2, AllOfIt
  <2>2. EndsInSlash(taken) BY <1>4 DEF TakesNames
  <2> HIDE DEF taken, u
  <2>3. PICK t \in Seq(STRING) : taken = Append(t, "/") /\ "/" \in STRING
    BY <1>1, <2>2, SlashOff
  <2>4. Segments(path) = Segments(t) \o Segments(u)
    BY <2>1, <2>3, SplitAtSeparator DEF Segments
  <2>5. Segments(taken) = Append(Segments(t), <<>>)
    BY <2>3, SplitAppend DEF Segments, Grown
  <2>6. Width(pattern) = Len(Segments(t))
    <3>1. Len(Append(Segments(t), <<>>)) = Len(Segments(t)) + 1 /\ Len(Segments(t)) \in Nat
      BY <1>3
    <3> QED BY <1>2, <1>4, <2>5, <3>1 DEF Width
  <2>7. NamesAfter(pattern, path) = Segments(u)
    <3> DEFINE p == Segments(t)
               q == Segments(u)
    <3>1. p \in Seq(E) /\ q \in Seq(E) BY <1>3, <2>1
    <3> HIDE DEF p, q, E
    <3>2. SubSeq(p \o q, Len(p) + 1, Len(p \o q)) = q
      BY <3>1, BehindIs
    <3> QED BY <2>4, <2>6, <3>2 DEF NamesAfter, p, q
  <2> QED BY <1>4, <2>7 DEF RestAsItIs, u
<1>5. CASE ~EndsInSlash(pattern) /\ m = Len(path)
  <2>1. taken = path BY <1>5, AllOfIt
  <2>2. Width(pattern) = Len(Segments(path)) /\ Len(Segments(path)) \in Nat
    <3>1. Len(Segments(path)) \in Nat BY <1>3
    <3>2. Len(Segments(pattern)) = Len(Segments(path))
      BY <1>2, <2>1
    <3> HIDE DEF taken
    <3> QED BY <1>5, <3>1, <3>2 DEF Width
  <2>3. NamesAfter(pattern, path) = <<>>
    <3> DEFINE all == Segments(path)
    <3>1. all \in Seq(E) BY <1>3
    <3> HIDE DEF all, E
    <3>2. SubSeq(all, Len(all) + 1, Len(all)) = <<>> BY <3>1
    <3> QED BY <2>2, <3>2 DEF NamesAfter, all
  <2> QED BY <1>5, <2>3
<1>6. CASE ~EndsInSlash(pattern) /\ m # Len(path)
  <2> DEFINE v == SubSeq(path, m + 2, Len(path))
             more == SubSeq(path, 1, m + 1)
  <2>1. m < Len(path) /\ m + 1 \in Nat /\ m + 1 <= Len(path) /\ (m + 1) + 1 = m + 2 /\ path[m + 1] = "/"
        /\ path[m + 1] \in STRING
    BY <1>1, <1>6 DEF TakesNames
  <2>2. more = Append(taken, path[m + 1])
    BY <1>1, <2>1, OneMore
  <2>3. v \in Seq(STRING) /\ path = more \o v
    <3>1. SubSeq(path, (m + 1) + 1, Len(path)) \in Seq(STRING)
      BY <1>1, <2>1, SubSeqIs
    <3>2. SubSeq(path, 1, Len(path)) = more \o SubSeq(path, (m + 1) + 1, Len(path))
      <4>1. Len(path) <= Len(path) BY <1>1
      <4> QED BY <1>1, <2>1, <4>1, SomeMore
    <3> QED BY <2>1, <3>1, <3>2, AllOfIt
  <2> HIDE DEF v, more, taken
  <2>4. Segments(path) = Segments(taken) \o Segments(v)
    <3>1. path = Append(taken, "/") \o v /\ "/" \in STRING
      BY <2>1, <2>2, <2>3
    <3> QED BY <1>1, <2>3, <3>1, SplitAtSeparator DEF Segments
  <2>5. Width(pattern) = Len(Segments(taken))
    <3>1. Len(Segments(taken)) \in Nat BY <1>1, <1>3
    <3> QED BY <1>2, <1>6, <3>1 DEF Width
  <2>6. NamesAfter(pattern, path) = Segments(v)
    <3> DEFINE p == Segments(taken)
               q == Segments(v)
    <3>1. p \in Seq(E) /\ q \in Seq(E) BY <1>1, <1>3, <2>3
    <3> HIDE DEF p, q, E
    <3>2. SubSeq(p \o q, Len(p) + 1, Len(p \o q)) = q
      BY <3>1, BehindIs
    <3> QED BY <2>4, <2>5, <3>2 DEF NamesAfter, p, q
  <2>7. Rest(path, m) = v BY <2>1 DEF Rest, v
  <2> QED BY <1>6, <2>6, <2>7
<1> QED BY <1>4, <1>5, <1>6

LEMMA PrefixIs ==
  ASSUME NEW E, NEW s \in Seq(E), NEW t \in Seq(E), IsPrefix(s, t)
  PROVE  Len(s) \in 0 .. Len(t) /\ SubSeq(t, 1, Len(s)) = s
BY DEF IsPrefix

\* A pattern that does not end in a letter takes whole names.
LEMMA CutTakesNames ==
  ASSUME NEW pattern \in Seq(STRING), NEW path \in Seq(STRING), NEW cut,
         CutsAlong(cut, pattern, path, RouterStops), ~OpenEnded(pattern)
  PROVE  cut[Len(pattern)] \in 0 .. Len(path) /\ TakesNames(pattern, path, cut[Len(pattern)])
<1> DEFINE n == Len(pattern)
           m == cut[n]
<1>0. n \in Nat /\ Len(path) \in Nat OBVIOUS
<1>1. CutsAlong(cut, pattern, path, RouterStops) OBVIOUS
<1>2. m \in 0 .. Len(path) BY <1>0, <1>1 DEF CutsAlong
<1>3. n > 0 /\ n \in 1 .. n /\ n - 1 \in 0 .. n /\ (pattern[n] \in Parameters \/ pattern[n] = "/")
  BY <1>0 DEF OpenEnded
<1>4. Takes(pattern, path, RouterStops, n, cut[n - 1], m)
  BY <1>1, <1>3 DEF CutsAlong
<1>5. cut[n - 1] \in 0 .. Len(path)
  BY <1>1, <1>3 DEF CutsAlong
<1>6. Len(Segments(SubSeq(path, 1, m))) = Len(Segments(pattern))
  <2>1. Len(Split(SubSeq(path, 1, cut[n]), "/")) = Len(Split(SubSeq(pattern, 1, n), "/"))
    BY <1>0, <1>1, CutsKeepTheCount
  <2> QED BY <1>0, <2>1, AllOfIt DEF Segments
<1>7. CASE pattern[n] = "/"
  <2>1. m = cut[n - 1] + 1 /\ path[m] = "/"
    BY <1>4, <1>7 DEF Takes, Parameters
  <2>2. m \in 1 .. Len(path) BY <1>2, <1>5, <2>1
  <2> HIDE DEF m
  <2>3. EndsInSlash(SubSeq(path, 1, m))
    BY <1>0, <2>1, <2>2 DEF EndsInSlash
  <2>4. EndsInSlash(pattern)
    BY <1>0, <1>3, <1>7 DEF EndsInSlash
  <2>5. TakesNames(pattern, path, m)
    BY <1>6, <2>3, <2>4 DEF TakesNames
  <2> QED BY <1>2, <2>5 DEF m
<1>8. CASE pattern[n] \in Parameters
  <2>1. pattern[n] # "/" BY <1>8 DEF Parameters
  <2>2. ASSUME m # Len(path), path[m + 1] # "/" PROVE FALSE
    <3>1. m + 1 \in 0 .. Len(path) /\ m \in Nat
      BY <1>2, <2>2
    <3>2. cut[n - 1] < m /\ \A k \in cut[n - 1] + 1 .. m : path[k] \notin RouterStops
      BY <1>4, <1>8 DEF Takes
    <3>3. \A k \in cut[n - 1] + 1 .. m + 1 : path[k] \notin RouterStops
      <4>1. \A k \in cut[n - 1] + 1 .. m + 1 : k \in cut[n - 1] + 1 .. m \/ k = m + 1
        BY <1>5, <3>1
      <4> QED BY <2>2, <3>2, <4>1 DEF RouterStops
    <3>4. Takes(pattern, path, RouterStops, n, cut[n - 1], m + 1)
      BY <1>5, <1>8, <3>1, <3>2, <3>3 DEF Takes
    <3>5. m + 1 <= m BY <1>1, <1>3, <3>1, <3>4 DEF CutsAlong
    <3> QED BY <3>1, <3>5
  <2>3. ~EndsInSlash(pattern) BY <2>1 DEF EndsInSlash
  <2>4. TakesNames(pattern, path, m)
    BY <1>6, <2>2, <2>3 DEF TakesNames
  <2> QED BY <1>2, <2>4
<1> QED BY <1>3, <1>7, <1>8

\* Where a location stops that takes a path, and what it leaves.
LEMMA RemainingIs ==
  ASSUME NEW location, NEW path \in Seq(STRING), location.pattern \in Seq(STRING),
         location.mode \in {"Prefix", "PrefixRegex"}, ~StopsWithinNames(location),
         Matches(location, path)
  PROVE  \E m \in 0 .. Len(path) :
           /\ TakesNames(location.pattern, path, m)
           /\ Remaining(location, path) =
                IF location.mode = "Prefix" /\ EndsInSlash(location.pattern)
                THEN RestAsItIs(path, m) ELSE Rest(path, m)
<1> DEFINE pattern == location.pattern
           n == Len(pattern)
<1>0. pattern \in Seq(STRING) /\ n \in Nat /\ Len(path) \in Nat
  OBVIOUS
<1>1. CASE location.mode = "Prefix"
  <2>1. MatchesPrefix(pattern, path) BY <1>1 DEF Matches
  <2>2. n \in 0 .. Len(path) /\ SubSeq(path, 1, n) = pattern
    BY <1>0, <2>1, PrefixIs DEF MatchesPrefix
  <2>3. TakesNames(pattern, path, n)
    BY <2>1, <2>2 DEF TakesNames, MatchesPrefix
  <2>4. Remaining(location, path) =
          IF EndsInSlash(pattern) THEN RestAsItIs(path, n) ELSE Rest(path, n)
    BY <1>1 DEF Remaining, RestAsItIs
  <2> QED BY <1>1, <2>2, <2>3, <2>4
<1>2. CASE location.mode = "PrefixRegex"
  <2> DEFINE cut == CHOOSE c \in Cuts(pattern, path, FALSE, RouterStops) : TRUE
             m == cut[n]
  <2>1. cut \in Cuts(pattern, path, FALSE, RouterStops)
    <3>1. Cuts(pattern, path, FALSE, RouterStops) # {}
      BY <1>2 DEF Matches
    <3> QED BY <3>1
  <2>2. Remaining(location, path) = Rest(path, m)
    BY <1>2 DEF Remaining
  <2> HIDE DEF cut
  <2>3. CutsAlong(cut, pattern, path, RouterStops)
    BY <1>0, <2>1, CutIs
  <2>4. m \in 0 .. Len(path) /\ TakesNames(pattern, path, m)
    <3>1. ~OpenEnded(pattern) BY <1>2 DEF StopsWithinNames
    <3> QED BY <1>0, <2>3, <3>1, CutTakesNames
  <2> QED BY <1>2, <2>2, <2>4
<1> QED BY <1>1, <1>2

\* The names that a location leaves over.
LEMMA NamesLeft ==
  ASSUME NEW location, NEW path \in Seq(STRING), location.pattern \in Seq(STRING),
         location.mode \in Modes, ~StopsWithinNames(location), Matches(location, path)
  PROVE  /\ Remaining(location, path) \in Seq(STRING)
         /\ Names(Remaining(location, path)) =
              IF location.mode \in {"Prefix", "PrefixRegex"}
              THEN NonEmpty(NamesAfter(location.pattern, path)) ELSE <<>>
<1>1. CASE location.mode \in {"Prefix", "PrefixRegex"}
  <2>1. PICK m \in 0 .. Len(path) :
          /\ TakesNames(location.pattern, path, m)
          /\ Remaining(location, path) \in {Rest(path, m), RestAsItIs(path, m)}
    BY <1>1, RemainingIs
  <2>2. NonEmpty(NamesAfter(location.pattern, path)) = NonEmpty(Split(RestAsItIs(path, m), "/"))
    <3>1. CASE EndsInSlash(location.pattern)
      BY <2>1, <3>1, NamesBehind DEF Segments
    <3>2. CASE ~EndsInSlash(location.pattern) /\ m = Len(path)
      <4>1. NamesAfter(location.pattern, path) = <<>>
        BY <2>1, <3>2, NamesBehind
      <4>2. RestAsItIs(path, m) = <<>>
        BY <3>2 DEF RestAsItIs
      <4> QED BY <4>1, <4>2, SplitNothing, NonEmptyNothing
    <3>3. CASE ~EndsInSlash(location.pattern) /\ m # Len(path)
      BY <2>1, <3>3, NamesBehind, RestHasTheNames DEF Segments
    <3> QED BY <3>1, <3>2, <3>3
  <2>3. NonEmpty(Split(Rest(path, m), "/")) = NonEmpty(Split(RestAsItIs(path, m), "/"))
    BY RestHasTheNames
  <2>4. Rest(path, m) \in Seq(STRING) /\ RestAsItIs(path, m) \in Seq(STRING)
    <3>1. SubSeq(path, m + 1, Len(path)) \in Seq(STRING)
      OBVIOUS
    <3>2. SubSeq(path, m + 2, Len(path)) \in Seq(STRING)
      OBVIOUS
    <3> QED BY <3>1, <3>2 DEF Rest, RestAsItIs
  <2> QED BY <1>1, <2>1, <2>2, <2>3, <2>4 DEF Names
<1>2. CASE location.mode \notin {"Prefix", "PrefixRegex"}
  <2>1. Remaining(location, path) = <<>>
    BY <1>2 DEF Remaining
  <2>2. <<>> \in Seq(STRING) OBVIOUS
  <2> QED BY <1>2, <2>1, <2>2, SplitNothing, NonEmptyNothing DEF Names
<1> QED BY <1>1, <1>2

-----------------------------------------------------------------------------
(* From the names to the file.                                              *)

LEMMA SeqWithin ==
  ASSUME NEW S, NEW D, NEW s \in Seq(S), \A i \in 1 .. Len(s) : s[i] \in D
  PROVE  s \in Seq(D)
<1>1. s = [i \in 1 .. Len(s) |-> s[i]] /\ Len(s) \in Nat
  OBVIOUS
<1> QED BY <1>1

\* Names without dots lead where they say.
LEMMA FullPathIs ==
  ASSUME NEW root \in Paths, NEW names \in Paths,
         ToSet(root) \cap {<<".">>, <<"..">>} = {},
         \A i \in DOMAIN names : names[i] # <<".">> /\ names[i] # <<"..">>
  PROVE  Lexical(root \o names) = root \o names /\ root \o names \in Paths
<1> DEFINE E == Seq(STRING)
           D == E \ {<<".">>, <<"..">>}
<1>0. root \in Seq(E) /\ names \in Seq(E) BY DEF Paths
<1>1. \A i \in 1 .. Len(root) : root[i] \in D
  <2>1. ASSUME NEW i \in 1 .. Len(root) PROVE root[i] \in D
    <3>1. root[i] \in E /\ i \in DOMAIN root BY <1>0
    <3>2. root[i] \in ToSet(root) BY <3>1 DEF ToSet
    <3> QED BY <3>1, <3>2
  <2> QED BY <2>1
<1>2. \A i \in 1 .. Len(names) : names[i] \in D
  <2>1. ASSUME NEW i \in 1 .. Len(names) PROVE names[i] \in D
    <3>1. names[i] \in E /\ i \in DOMAIN names BY <1>0
    <3> QED BY <3>1
  <2> QED BY <2>1
<1>3. <<".">> \notin D /\ <<"..">> \notin D OBVIOUS
<1>4. root \o names \in Paths BY <1>0 DEF Paths
<1> HIDE DEF D, E
<1>5. root \in Seq(D) /\ names \in Seq(D)
  BY <1>0, <1>1, <1>2, SeqWithin
<1>6. root \o names \in Seq(D) BY <1>5
<1> QED BY <1>3, <1>4, <1>6, LexicalOfPlain

LEMMA ConcatAbsolute ==
  ASSUME NEW root, Absolute(root), NEW names \in Paths
  PROVE  Absolute(root \o names)
<1> DEFINE E == Seq(STRING)
<1>1. root \in Seq(E) /\ names \in Seq(E) /\ root # <<>> /\ root[1] = Top
  BY DEF Absolute, Paths
<1> HIDE DEF E
<1>2. root \o names \in Seq(E) /\ root \o names # <<>> /\ (root \o names)[1] = root[1]
  BY <1>1
<1> QED BY <1>1, <1>2 DEF Absolute, Paths, E

\* A path leads to one place at most.
LEMMA RealIsOne ==
  ASSUME fs \in Trees, NEW path, Absolute(path)
  PROVE  \A p, q \in Real(path) : p = q
<1>1. Tail(path) \in Paths BY DEF Absolute, Paths
<1>2. Lands(fs, Walked(fs, <<>>, Tail(path)))
  BY <1>1, WalkedLands
<1>3. Real(path) \subseteq Walked(fs, <<>>, Tail(path))
  BY RealOfAbsolute DEF Real
<1> QED BY <1>2, <1>3 DEF Lands

\* The index files that a path has, and those that what it stands for has.
Present(full, index) == {i \in DOMAIN index : Is("file", Append(full, index[i]))}
Indexes(full, index) ==
  {i \in DOMAIN index : \E p \in Real(full) : Is("file", <<Top>> \o p \o <<index[i]>>)}
FirstIndexes(full, index) ==
  UNION {Real(<<Top>> \o p \o <<index[Min(Indexes(full, index))]>>) : p \in Real(full)}

LEMMA IndexIs ==
  ASSUME fs \in Trees, NEW full, Absolute(full), NEW index \in Paths
  PROVE  /\ Present(full, index) = Indexes(full, index)
         /\ Indexes(full, index) # {} =>
              /\ Is("dir", full)
              /\ Min(Indexes(full, index)) \in DOMAIN index
              /\ Real(Append(full, index[Min(Indexes(full, index))])) = FirstIndexes(full, index)
<1> DEFINE present == Present(full, index)
           indexes == Indexes(full, index)
<1> DEFINE Below(p, name) == Real(<<Top>> \o p \o <<name>>)
<1>0. \A i \in DOMAIN index : index[i] \in Seq(STRING)
  BY DEF Paths
<1>1. ASSUME NEW name \in Seq(STRING)
      PROVE  /\ Real(Append(full, name)) = UNION {Below(p, name) : p \in Real(full)}
             /\ \A p \in Real(full) : Below(p, name) # {} => fs[p].kind = "dir"
  BY RealBelow DEF Real
<1>2. \A path : Is("file", path) <=> \E q \in Real(path) : fs[q].kind = "file"
  BY DEF Is
<1>3. ASSUME NEW i \in DOMAIN index
      PROVE  Is("file", Append(full, index[i])) <=>
               \E p \in Real(full) : Is("file", <<Top>> \o p \o <<index[i]>>)
  <2> DEFINE name == index[i]
  <2>1. Real(Append(full, name)) = UNION {Below(p, name) : p \in Real(full)}
    BY <1>0, <1>1
  <2>2. \A p : Is("file", <<Top>> \o p \o <<name>>) <=> \E q \in Below(p, name) : fs[q].kind = "file"
    BY <1>2
  <2>3. Is("file", Append(full, name)) <=> \E q \in Real(Append(full, name)) : fs[q].kind = "file"
    BY <1>2
  <2> HIDE DEF Below, name
  <2>4. (\E q \in Real(Append(full, name)) : fs[q].kind = "file") <=>
          \E p \in Real(full) : \E q \in Below(p, name) : fs[q].kind = "file"
    BY <2>1
  <2>5. Is("file", Append(full, name)) <=>
          \E p \in Real(full) : Is("file", <<Top>> \o p \o <<name>>)
    BY <2>2, <2>3, <2>4
  <2> QED BY <2>5 DEF name
<1>4. present = indexes BY <1>3 DEF Present, Indexes
<1>5. ASSUME indexes # {}
      PROVE  /\ Is("dir", full)
             /\ Min(indexes) \in DOMAIN index
             /\ Real(Append(full, index[Min(indexes)])) = FirstIndexes(full, index)
  <2>1. indexes \subseteq DOMAIN index /\ DOMAIN index \subseteq Nat
    BY DEF Paths, Indexes
  <2>2. \E x \in indexes : \A y \in indexes : x <= y
    BY <1>5, <2>1, LeastNatural
  <2>3. Min(indexes) \in indexes BY <2>2 DEF Min
  <2> DEFINE least == Min(indexes)
  <2> HIDE DEF least
  <2>4. least \in DOMAIN index /\ least \in indexes /\ index[least] \in Seq(STRING)
    BY <1>0, <2>1, <2>3 DEF least
  <2>5. PICK p \in Real(full) : Is("file", <<Top>> \o p \o <<index[least]>>)
    BY <2>4 DEF Indexes
  <2>6. Below(p, index[least]) # {} BY <2>5 DEF Is
  <2>7. fs[p].kind = "dir" BY <1>1, <2>4, <2>6
  <2>8. Is("dir", full) BY <2>7 DEF Is
  <2>9. Real(Append(full, index[least])) =
          UNION {Real(<<Top>> \o q \o <<index[least]>>) : q \in Real(full)}
    BY <1>1, <2>4
  <2> QED BY <2>4, <2>8, <2>9 DEF least, FirstIndexes
<1> QED BY <1>4, <1>5

\* The service looks where the names lead to.
LEMMA UriLeads ==
  ASSUME fs \in Trees, NEW service, service.root \in Paths, service.index \in Paths,
         service.uri \in Seq(STRING), NEW names, names = Names(service.uri),
         ~AwkwardPath(service, names)
  PROVE  /\ Absolute(service.root)
         /\ Absolute(UriToPath(service))
         /\ Real(UriToPath(service)) = Named(service, names)
<1> DEFINE root == service.root
           index == service.index
           full == root \o names
           present == Present(full, index)
           indexes == Indexes(full, index)
<1>1. Absolute(root) /\ ToSet(root) \cap {<<".">>, <<"..">>} = {}
  BY DEF AwkwardPath, Absolute
<1>2. names \in Paths
  <2> DEFINE D == STRING \ {"/"}
             E == Seq(D)
  <2>1. Split(service.uri, "/") \in Seq(E) BY SplitType
  <2>2. E \subseteq Seq(STRING) OBVIOUS
  <2> HIDE DEF E, D
  <2>3. names \in Seq(E) BY <2>1, NonEmptyType DEF Names
  <2>4. \A i \in 1 .. Len(names) : names[i] \in Seq(STRING)
    BY <2>2, <2>3
  <2> DEFINE S == Seq(STRING)
  <2> HIDE DEF S
  <2>5. \A i \in 1 .. Len(names) : names[i] \in S
    BY <2>4 DEF S
  <2>6. names \in Seq(S) BY <2>3, <2>5, SeqWithin
  <2> QED BY <2>6 DEF Paths, S
<1>3. \A i \in DOMAIN names : ToSet(names[i]) \cap {"+", "%2F", "%C3%A9", "."} = {} /\ names[i] # <<"..">>
  BY DEF AwkwardPath
<1>4. \A i \in DOMAIN names : names[i] # <<".">>
  <2> SUFFICES ASSUME NEW i \in DOMAIN names, names[i] = <<".">> PROVE FALSE
    OBVIOUS
  <2>1. 1 \in DOMAIN names[i] /\ names[i][1] = "." OBVIOUS
  <2>2. "." \in ToSet(names[i]) BY <2>1 DEF ToSet
  <2> QED BY <1>3, <2>2
<1>5. Decoded(service.uri) = service.uri
  <2>1. \A i \in DOMAIN names : ToSet(names[i]) \cap Escaped = {}
    BY <1>3 DEF Escaped
  <2> QED BY <2>1, PlainTexts DEF Names
<1>6. Lexical(full) = full
  BY <1>1, <1>2, <1>3, <1>4, FullPathIs
<1>7. Absolute(full) BY <1>1, <1>2, ConcatAbsolute
<1>8. UriToPath(service) = IF Is("dir", full) /\ present # {}
                           THEN Append(full, index[CHOOSE i \in present : \A j \in present : i <= j])
                           ELSE full
  BY <1>5, <1>6 DEF UriToPath, Present
<1>9. Named(service, names) =
        IF indexes = {} THEN Real(full)
        ELSE FirstIndexes(full, index)
  BY DEF Named, Indexes, FirstIndexes
<1>10. index \in Paths OBVIOUS
<1>11. (CHOOSE i \in indexes : \A j \in indexes : i <= j) = Min(indexes)
  BY DEF Min
<1> HIDE DEF full, index
<1>12. /\ present = indexes
       /\ indexes # {} =>
            /\ Is("dir", full)
            /\ Min(indexes) \in DOMAIN index
            /\ Real(Append(full, index[Min(indexes)])) = FirstIndexes(full, index)
  BY <1>7, <1>10, IndexIs
<1> HIDE DEF present, indexes
<1>13. CASE indexes = {}
  BY <1>1, <1>7, <1>8, <1>9, <1>12, <1>13
<1>14. CASE indexes # {}
  <2>1. UriToPath(service) = Append(full, index[Min(indexes)])
    BY <1>8, <1>11, <1>12, <1>14
  <2>2. index[Min(indexes)] \in Seq(STRING)
    BY <1>10, <1>12, <1>14 DEF Paths
  <2>3. Absolute(UriToPath(service))
    BY <1>7, <2>1, <2>2, AbsoluteAppend
  <2>4. Named(service, names) = FirstIndexes(full, index)
    BY <1>9, <1>14
  <2> QED BY <1>1, <1>12, <1>14, <2>1, <2>3, <2>4
<1> QED BY <1>13, <1>14

-----------------------------------------------------------------------------
(* Where a static location leads.                                           *)

\* What the service was asked for leads to the file it has checked.
Led ==
  \E p \in Real(UriToPath(asked)), r \in Real(asked.root) :
    IsPrefix(r, p) /\ fs[p].kind = "file" /\ place = <<Top>> \o p

StaticChosen == chosen # 0 /\ Location.provider = "static"

\* A refusal has its reason, if the files have not changed.
Refused ==
  /\ reply.status = "404" =>
       \/ Real(UriToPath(asked)) = {}
       \/ \E p \in Real(UriToPath(asked)) : fs[p].kind = "other"
  /\ reply.status \in {"403", "listing"} =>
       \E p \in Real(UriToPath(asked)) :
         fs[p].kind = "dir" \/ \E r \in Real(asked.root) : ~IsPrefix(r, p)

Followed ==
  /\ stage = "checking" => place = UriToPath(asked)
  /\ stage \in {"sizing", "reading", "reading range"} => Led
  /\ stage = "replied" => (FileSent => Led) /\ Refused

FollowInv ==
  StaticChosen =>
    /\ stage \in {"resolving", "checking", "sizing", "reading", "reading range", "replied"}
    /\ asked = StaticService(Location, request)
    /\ Matches(Location, request.path)
    /\ changes = {} => Followed

LEMMA InitFollow == ASSUME Init PROVE FollowInv
BY DEF Init, FollowInv, StaticChosen

LEMMA LedIsStable ==
  ASSUME UNCHANGED <<fs, asked, place>>
  PROVE  Led' <=> Led
BY DEF Led, Real, UriToPath, Is

LEMMA UriToPathIsStable ==
  ASSUME UNCHANGED <<fs, asked>>
  PROVE  UriToPath(asked)' = UriToPath(asked) /\ Real(UriToPath(asked))' = Real(UriToPath(asked))
         /\ Real(asked.root)' = Real(asked.root)
BY DEF Real, UriToPath, Is

LEMMA RefusedIsStable ==
  ASSUME UNCHANGED <<fs, asked, reply>>
  PROVE  Refused' <=> Refused
BY DEF Refused, Real, UriToPath, Is

LEMMA ResolvesFollow == ASSUME Resolves, Followed PROVE Followed'
<1>1. UNCHANGED <<fs, asked>> /\ stage' = "checking" /\ place' = UriToPath(asked)
  BY DEF Resolves
<1>2. UriToPath(asked)' = UriToPath(asked)
  BY <1>1, UriToPathIsStable
<1> QED BY <1>1, <1>2 DEF Followed

LEMMA ChecksFollow == ASSUME Checks, Followed PROVE Followed'
<1> DEFINE there == Real(UriToPath(asked))
           roots == Real(asked.root)
<1>1. UNCHANGED <<fs, asked>> /\ stage = "checking" /\ place = UriToPath(asked)
  BY DEF Checks, Followed
<1>2. there' = there /\ roots' = roots
  BY <1>1, UriToPathIsStable
<1>3. Led' <=> \E p \in there, r \in roots : IsPrefix(r, p) /\ fs[p].kind = "file" /\ place' = <<Top>> \o p
  BY <1>1, <1>2 DEF Led
<1>4. Refused' <=>
        /\ reply'.status = "404" => there = {} \/ \E p \in there : fs[p].kind = "other"
        /\ reply'.status \in {"403", "listing"} =>
             \E p \in there : fs[p].kind = "dir" \/ \E r \in roots : ~IsPrefix(r, p)
  BY <1>1, <1>2 DEF Refused
<1>5. \/ stage' = "replied" /\ reply' = Says("error")
      \/ stage' = "replied" /\ reply' = Says("404") /\ there = {}
      \/ \E r \in roots, p \in there :
           /\ place' = <<Top>> \o p
           /\ \/ ~IsPrefix(r, p) /\ stage' = "replied" /\ reply' = Says("403")
              \/ /\ IsPrefix(r, p)
                 /\ \/ fs[p].kind = "file" /\ stage' = "sizing"
                    \/ /\ fs[p].kind = "dir" /\ stage' = "replied"
                       /\ reply' \in {Says("listing"), Says("403")}
                    \/ fs[p].kind = "other" /\ stage' = "replied" /\ reply' = Says("404")
  BY <1>1 DEF Checks, Replies
<1> HIDE DEF there, roots
<1>6. CASE stage' = "replied" /\ reply' = Says("error")
  <2>1. reply'.status = "error" BY <1>6, SaysStatus
  <2> QED BY <1>4, <1>6, <2>1 DEF Followed, FileSent
<1>7. CASE stage' = "replied" /\ reply' = Says("404") /\ there = {}
  <2>1. reply'.status = "404" BY <1>7, SaysStatus
  <2> QED BY <1>4, <1>7, <2>1 DEF Followed, FileSent
<1>8. ASSUME NEW r \in roots, NEW p \in there, ~IsPrefix(r, p), stage' = "replied", reply' = Says("403")
      PROVE  Followed'
  <2>1. reply'.status = "403" BY <1>8, SaysStatus
  <2> QED BY <1>4, <1>8, <2>1 DEF Followed, FileSent
<1>9. ASSUME NEW r \in roots, NEW p \in there, place' = <<Top>> \o p, IsPrefix(r, p),
             fs[p].kind = "file", stage' = "sizing"
      PROVE  Followed'
  BY <1>3, <1>9 DEF Followed
<1>10. ASSUME NEW p \in there, fs[p].kind = "dir", stage' = "replied",
              reply' \in {Says("listing"), Says("403")}
       PROVE  Followed'
  <2>1. reply'.status \in {"listing", "403"}
    BY <1>10, SaysStatus
  <2> QED BY <1>4, <1>10, <2>1 DEF Followed, FileSent
<1>11. ASSUME NEW p \in there, fs[p].kind = "other", stage' = "replied", reply' = Says("404")
       PROVE  Followed'
  <2>1. reply'.status = "404" BY <1>11, SaysStatus
  <2> QED BY <1>4, <1>11, <2>1 DEF Followed, FileSent
<1> QED BY <1>5, <1>6, <1>7, <1>8, <1>9, <1>10, <1>11

LEMMA ReadsFollow == ASSUME Sizes \/ Reads \/ ReadsRange, Followed PROVE Followed'
<1>1. UNCHANGED <<fs, asked, place>> /\ stage \in {"sizing", "reading", "reading range"}
  BY DEF Sizes, Reads, ReadsRange
<1>2. Led' BY <1>1, LedIsStable DEF Followed
<1>3. \/ stage' \in {"reading", "reading range"}
      \/ stage' = "replied" /\ reply'.status \notin {"403", "404", "listing"}
  <2>1. CASE Sizes BY <2>1, SaysStatus DEF Sizes, Replies
  <2>2. CASE Reads
    BY <2>2, SaysStatus DEF Reads, Replies, Says, NoReply
  <2>3. CASE ReadsRange
    <3>1. stage' = "replied" BY <2>3 DEF ReadsRange, Replies
    <3>2. ASSUME NEW l, NEW f, NEW t, NEW b,
                 reply' = [status |-> "206", length |-> l, from |-> f, to |-> t, bytes |-> b]
          PROVE  reply'.status = "206"
      BY <3>2
    <3>3. CASE reply' = Says("error")
      BY <3>1, <3>3, SaysStatus
    <3>4. CASE reply' # Says("error")
      <4>1. \E l, f, t, b :
              reply' = [status |-> "206", length |-> l, from |-> f, to |-> t, bytes |-> b]
        BY <2>3, <3>4, Zenon DEF ReadsRange, Replies
      <4> QED BY <3>1, <3>2, <4>1
    <3> QED BY <3>3, <3>4
  <2> QED BY <2>1, <2>2, <2>3
<1>4. reply'.status \notin {"403", "404", "listing"} => Refused'
  BY DEF Refused
<1> QED BY <1>2, <1>3, <1>4 DEF Followed

LEMMA StaticFollow ==
  ASSUME FollowInv, StaticSteps, UNCHANGED <<engine, request, chosen>>
  PROVE  FollowInv'
<1>1. StaticChosen' <=> StaticChosen
  BY DEF StaticChosen, Location
<1>2. UNCHANGED asked /\ StaticService(Location, request)' = StaticService(Location, request)
      /\ (Matches(Location, request.path)' <=> Matches(Location, request.path))
  BY DEF StaticSteps, Resolves, Checks, Sizes, Reads, ReadsRange, Rearranges, Location
<1>3. stage' \in {"resolving", "checking", "sizing", "reading", "reading range", "replied"}
  BY DEF StaticSteps, Resolves, Checks, Sizes, Reads, ReadsRange, Rearranges, Replies
<1>4. CASE Rearranges
  <2>1. changes' # {} BY <1>4 DEF Rearranges
  <2> QED BY <1>1, <1>2, <1>3, <2>1 DEF FollowInv
<1>5. CASE ~Rearranges
  <2>1. UNCHANGED changes
    BY <1>5 DEF StaticSteps, Resolves, Checks, Sizes, Reads, ReadsRange
  <2>2. Followed => Followed'
    BY <1>5, ResolvesFollow, ChecksFollow, ReadsFollow DEF StaticSteps
  <2> QED BY <1>1, <1>2, <1>3, <2>1, <2>2 DEF FollowInv
<1> QED BY <1>4, <1>5

LEMMA RoutesFollow == ASSUME Given, FollowInv, Routes PROVE FollowInv'
<1>1. UNCHANGED <<engine, request>> /\ chosen' = Chosen(engine, request)
  BY DEF Routes
<1>3. ASSUME StaticChosen'
      PROVE  /\ stage' = "resolving"
             /\ asked' = StaticService(Location', request)
             /\ Matches(Location', request.path)
  <2>1. chosen' # 0 /\ Location'.provider = "static"
    BY <1>3 DEF StaticChosen
  <2>2. stage' = "resolving" /\ asked' = StaticService(Location', request)
    BY <2>1 DEF Routes, Asks
  <2>3. Matches(engine.locations[chosen'], request.path)
    BY <1>1, <2>1, ChosenIsALocation
  <2> QED BY <1>1, <2>2, <2>3 DEF Location
<1>4. ASSUME StaticChosen' PROVE Followed'
  BY <1>3, <1>4 DEF Followed
<1>5. ASSUME StaticChosen'
      PROVE  asked' = StaticService(Location, request)' /\ Matches(Location, request.path)'
  BY <1>1, <1>3, <1>5
<1> QED BY <1>3, <1>4, <1>5 DEF FollowInv

LEMMA NextFollow == ASSUME Given, FollowInv, [Next]_vars PROVE FollowInv'
<1>1. CASE UNCHANGED vars
  <2>1. UNCHANGED <<fs, changes, stage, asked, place, reply, engine, request, chosen>>
    BY <1>1 DEF vars, staticVars
  <2>2. (Led' <=> Led) /\ (Refused' <=> Refused) /\ UriToPath(asked)' = UriToPath(asked)
    BY <2>1, LedIsStable, RefusedIsStable, UriToPathIsStable
  <2>3. Followed' <=> Followed
    BY <2>1, <2>2 DEF Followed, FileSent
  <2> QED BY <2>1, <2>3 DEF FollowInv, StaticChosen, Location
<1>2. CASE Serves BY <1>2, StaticFollow DEF Serves
<1>3. ASSUME ~Routes, ~Serves, Next
      PROVE  UNCHANGED <<engine, request, chosen, changes>> /\ stage \in {"idle", "sleeping", "rewriting"}
  BY <1>3 DEF Next, Mocks, Rewrites, RewriteFails, TransformsHeaders, MapsPath, AnswersMock, AppliesRule,
              Calls
<1>4. CASE ~Routes /\ ~Serves /\ Next
  <2>1. ~StaticChosen BY <1>3, <1>4 DEF FollowInv
  <2>2. ~StaticChosen'
    BY <1>3, <1>4, <2>1 DEF StaticChosen, Location
  <2> QED BY <1>3, <1>4, <2>2 DEF FollowInv
<1> QED BY <1>1, <1>2, <1>4, RoutesFollow

LEMMA TextsOfCharacters == Seq(Characters) \subseteq Seq(STRING)
BY DEF Characters

LEMMA LocationIsTyped ==
  ASSUME Given, chosen # 0
  PROVE  /\ request.path \in Seq(STRING)
         /\ Location.mode \in Modes
         /\ Location.pattern \in Seq(STRING)
         /\ Location.root \in Paths
         /\ Location.index \in Paths
<1>1. PICK c \in Cases : engine = c.engine /\ request = c.request
  BY DEF Given
<1>2. chosen \in DOMAIN c.engine.locations BY <1>1 DEF Given
<1>3. request.path \in Seq(STRING)
  BY <1>1, LocationsAssumption, TextsOfCharacters
<1> QED BY <1>1, <1>2, <1>3, LocationsAssumption DEF Location, Paths

LEMMA FollowedPath ==
  ASSUME fs \in Trees, Given, FollowInv, InsideInv
  PROVE  PathIsFollowed
<1> DEFINE names == NonEmpty(NamesAfter(Location.pattern, request.path))
           asks == IF Location.mode \in {"Prefix", "PrefixRegex"} THEN names ELSE <<>>
           wanted == Named(asked, asks)
           inside == {p \in wanted : \E r \in Real(asked.root) : IsPrefix(r, p)}
<1> SUFFICES ASSUME StaticReply, changes = {}, ~AwkwardPath(asked, names), ~StopsWithinNames(Location)
             PROVE  /\ FileSent => \E p \in inside : fs[p].kind = "file" /\ place = <<Top>> \o p
                    /\ reply.status = "404" => \A p \in inside : fs[p].kind = "other"
                    /\ reply.status \in {"403", "listing"} =>
                         wanted # inside \/ \E p \in inside : fs[p].kind = "dir"
  BY DEF PathIsFollowed
<1>1. /\ request.path \in Seq(STRING) /\ Location.mode \in Modes
      /\ Location.pattern \in Seq(STRING) /\ Location.root \in Paths /\ Location.index \in Paths
  BY LocationIsTyped DEF StaticReply
<1>2. /\ asked = StaticService(Location, request) /\ Matches(Location, request.path)
      /\ stage = "replied" /\ Followed
  BY DEF FollowInv, StaticReply, StaticChosen
<1>3. /\ asked.root \in Paths /\ asked.index \in Paths
      /\ asked.uri = Remaining(Location, request.path)
  BY <1>1, <1>2 DEF StaticService
<1>4. asked.uri \in Seq(STRING) /\ asks = Names(asked.uri)
  BY <1>1, <1>2, <1>3, NamesLeft
<1>5. ~AwkwardPath(asked, asks)
  <2>1. DOMAIN <<>> = {} OBVIOUS
  <2>2. ~AwkwardPath(asked, <<>>)
    <3> HIDE DEF names
    <3> QED BY <2>1 DEF AwkwardPath
  <2> HIDE DEF names
  <2> QED BY <2>2
<1> HIDE DEF names, asks
<1>6. Absolute(asked.root) /\ Absolute(UriToPath(asked)) /\ Real(UriToPath(asked)) = wanted
  BY <1>3, <1>4, <1>5, UriLeads
<1>7. (\A p, q \in wanted : p = q) /\ \A r, s \in Real(asked.root) : r = s
  BY <1>6, RealIsOne
<1>8. FileSent => Led BY <1>2 DEF Followed
<1>9. Refused BY <1>2 DEF Followed
<1> HIDE DEF wanted
<1>10. FileSent => \E p \in inside : fs[p].kind = "file" /\ place = <<Top>> \o p
  BY <1>6, <1>8 DEF Led
<1>11. reply.status = "404" => \A p \in inside : fs[p].kind = "other"
  BY <1>6, <1>7, <1>9 DEF Refused
<1>12. reply.status \in {"403", "listing"} => wanted # inside \/ \E p \in inside : fs[p].kind = "dir"
  <2> SUFFICES ASSUME reply.status \in {"403", "listing"}, wanted = inside
               PROVE  \E p \in inside : fs[p].kind = "dir"
    OBVIOUS
  <2>1. PICK p \in wanted : fs[p].kind = "dir" \/ \E r \in Real(asked.root) : ~IsPrefix(r, p)
    BY <1>6, <1>9 DEF Refused
  <2>2. \E r \in Real(asked.root) : IsPrefix(r, p) BY <2>1
  <2> QED BY <1>7, <2>1, <2>2
<1> QED BY <1>10, <1>11, <1>12

\* The names behind a static location lead from its root to the file that is sent,
\* and to the refusal they deserve (match_route, uri_to_path, the checks of
\* handle_request), if no file changes on the way, the location does not stop within
\* names and the path is not awkward.
THEOREM StaticFilesFollowTheUri == Spec => []StaticFollowsTheUri
<1> DEFINE All == ServingInv /\ Given /\ InsideInv /\ FollowInv
<1>1. Init => All
  BY InitServing, InitGiven, InitInside, InitFollow
<1>2. All /\ [Next]_vars => All'
  BY NextServing, NextGiven, NextInside, NextFollow
<1>3. All => StaticFollowsTheUri
  <2> SUFFICES ASSUME All PROVE StaticFollowsTheUri
    OBVIOUS
  <2>1. fs \in Trees BY DEF ServingInv, Served
  <2>2. FilesStayInside
    BY DEF InsideInv, FilesStayInside, StaticReply, Checked, UnchangedSince
  <2> QED BY <2>1, <2>2, FollowedPath DEF StaticFollowsTheUri
<1> HIDE DEF All
<1> QED BY <1>1, <1>2, <1>3, PTL DEF Spec

-----------------------------------------------------------------------------
(* Two walks through a JSON value.                                          *)

\* What is found behind some steps, from what was found before them.
Gone(from, steps) ==
  LET At[n \in 0 .. Len(steps)] == IF n = 0 THEN from ELSE Onward(At[n - 1], steps[n], Looks)
  IN At[Len(steps)]

\* The steps of a way, one by one.
GoneBy(f, s, from, n) ==
  f = [k \in 0 .. n |-> IF k = 0 THEN from ELSE Onward(f[k - 1], s[k], Looks)]

LEMMA GoneByExists ==
  ASSUME NEW from, NEW s
  PROVE  \A n \in Nat : \E f : GoneBy(f, s, from, n)
<1> DEFINE S == {n \in Nat : \E f : GoneBy(f, s, from, n)}
<1>1. 0 \in S
  <2> DEFINE f == [k \in 0 .. 0 |-> from]
  <2>1. GoneBy(f, s, from, 0) BY DEF GoneBy
  <2> QED BY <2>1
<1>2. ASSUME NEW n \in Nat, n \in S PROVE n + 1 \in S
  <2>1. PICK f : GoneBy(f, s, from, n) BY <1>2
  <2> DEFINE next == Onward(f[n], s[n + 1], Looks)
             g == [k \in 0 .. n + 1 |-> IF k = n + 1 THEN next ELSE f[k]]
  <2> HIDE DEF next
  <2>2. ASSUME NEW k \in 0 .. n + 1
        PROVE  g[k] = IF k = 0 THEN from ELSE Onward(g[k - 1], s[k], Looks)
    <3>1. CASE k = n + 1
      <4>1. g[k] = next /\ g[k - 1] = f[n] /\ k # 0 BY <3>1
      <4> HIDE DEF g
      <4> QED BY <3>1, <4>1 DEF next
    <3>2. CASE k # n + 1
      <4>1. k \in 0 .. n /\ g[k] = f[k] /\ (k # 0 => g[k - 1] = f[k - 1])
        BY <3>2
      <4> HIDE DEF g
      <4>2. f[k] = IF k = 0 THEN from ELSE Onward(f[k - 1], s[k], Looks)
        BY <2>1, <4>1 DEF GoneBy
      <4> QED BY <4>1, <4>2
    <3> QED BY <3>1, <3>2
  <2>3. GoneBy(g, s, from, n + 1) BY <2>2 DEF GoneBy
  <2> HIDE DEF g
  <2> QED BY <2>3
<1> HIDE DEF S
<1>3. Nat \subseteq S BY <1>1, <1>2, Induction
<1> QED BY <1>3 DEF S

LEMMA GoneByAgree ==
  ASSUME NEW from, NEW s, NEW t, NEW n \in Nat, NEW m \in Nat, n <= m, Agree(s, t, n),
         NEW f, GoneBy(f, s, from, n), NEW g, GoneBy(g, t, from, m)
  PROVE  f[n] = g[n]
<1> DEFINE S == {k \in Nat : k <= n => f[k] = g[k]}
<1>1. 0 \in S BY DEF GoneBy
<1>2. ASSUME NEW k \in Nat, k \in S PROVE k + 1 \in S
  <2> SUFFICES ASSUME k + 1 <= n PROVE f[k + 1] = g[k + 1]
    OBVIOUS
  <2>1. k + 1 \in 0 .. n /\ k + 1 \in 0 .. m /\ k + 1 # 0 /\ (k + 1) - 1 = k /\ k + 1 \in 1 .. n
    OBVIOUS
  <2>2. f[k] = g[k] /\ s[k + 1] = t[k + 1]
    BY <1>2, <2>1 DEF Agree
  <2>3. f[k + 1] = Onward(f[k], s[k + 1], Looks)
    BY <2>1 DEF GoneBy
  <2>4. g[k + 1] = Onward(g[k], t[k + 1], Looks)
    BY <2>1 DEF GoneBy
  <2> QED BY <2>2, <2>3, <2>4
<1> HIDE DEF S
<1>3. Nat \subseteq S BY <1>1, <1>2, Induction
<1> QED BY <1>3 DEF S

LEMMA GoneIs ==
  ASSUME NEW from, NEW s, Len(s) \in Nat
  PROVE  \E f : GoneBy(f, s, from, Len(s)) /\ Gone(from, s) = f[Len(s)]
<1> DEFINE f == CHOOSE g : GoneBy(g, s, from, Len(s))
<1>1. GoneBy(f, s, from, Len(s)) BY GoneByExists
<1>2. Gone(from, s) = f[Len(s)] BY DEF Gone, GoneBy
<1> QED BY <1>1, <1>2

LEMMA GoneOfNone ==
  ASSUME NEW from, NEW s, s = <<>>
  PROVE  Gone(from, s) = from
<1>1. Len(s) = 0 /\ Len(s) \in Nat OBVIOUS
<1>2. PICK f : GoneBy(f, s, from, Len(s)) /\ Gone(from, s) = f[Len(s)]
  BY <1>1, GoneIs
<1> QED BY <1>1, <1>2 DEF GoneBy

LEMMA GoneOfMore ==
  ASSUME NEW from, NEW s, NEW t, NEW n \in Nat, Len(s) = n, Len(t) = n + 1, Agree(s, t, n)
  PROVE  Gone(from, t) = Onward(Gone(from, s), t[n + 1], Looks)
<1>1. PICK f : GoneBy(f, s, from, Len(s)) /\ Gone(from, s) = f[Len(s)]
  BY GoneIs
<1>2. PICK g : GoneBy(g, t, from, Len(t)) /\ Gone(from, t) = g[Len(t)]
  BY GoneIs
<1>3. f[n] = g[n]
  <2>1. GoneBy(f, s, from, n) /\ GoneBy(g, t, from, n + 1) /\ n + 1 \in Nat /\ n <= n + 1
    BY <1>1, <1>2
  <2> QED BY <2>1, GoneByAgree
<1>4. n + 1 \in 0 .. n + 1 /\ n + 1 # 0 /\ (n + 1) - 1 = n
  OBVIOUS
<1>5. g[n + 1] = Onward(g[n], t[n + 1], Looks)
  BY <1>2, <1>4 DEF GoneBy
<1> QED BY <1>1, <1>2, <1>3, <1>5

\* walk_json goes part by part.
WalkedToBy(f, s, v, n) ==
  f = [k \in 0 .. n |-> IF k = 0 THEN {v} ELSE AtPart(f[k - 1], s[k])]

LEMMA WalkedToByExists ==
  ASSUME NEW v, NEW s
  PROVE  \A n \in Nat : \E f : WalkedToBy(f, s, v, n)
<1> DEFINE S == {n \in Nat : \E f : WalkedToBy(f, s, v, n)}
<1>1. 0 \in S
  <2> DEFINE f == [k \in 0 .. 0 |-> {v}]
  <2>1. WalkedToBy(f, s, v, 0) BY DEF WalkedToBy
  <2> QED BY <2>1
<1>2. ASSUME NEW n \in Nat, n \in S PROVE n + 1 \in S
  <2>1. PICK f : WalkedToBy(f, s, v, n) BY <1>2
  <2> DEFINE next == AtPart(f[n], s[n + 1])
             g == [k \in 0 .. n + 1 |-> IF k = n + 1 THEN next ELSE f[k]]
  <2> HIDE DEF next
  <2>2. ASSUME NEW k \in 0 .. n + 1
        PROVE  g[k] = IF k = 0 THEN {v} ELSE AtPart(g[k - 1], s[k])
    <3>1. CASE k = n + 1
      <4>1. g[k] = next /\ g[k - 1] = f[n] /\ k # 0 BY <3>1
      <4> HIDE DEF g
      <4> QED BY <3>1, <4>1 DEF next
    <3>2. CASE k # n + 1
      <4>1. k \in 0 .. n /\ g[k] = f[k] /\ (k # 0 => g[k - 1] = f[k - 1])
        BY <3>2
      <4> HIDE DEF g
      <4>2. f[k] = IF k = 0 THEN {v} ELSE AtPart(f[k - 1], s[k])
        BY <2>1, <4>1 DEF WalkedToBy
      <4> QED BY <4>1, <4>2
    <3> QED BY <3>1, <3>2
  <2>3. WalkedToBy(g, s, v, n + 1) BY <2>2 DEF WalkedToBy
  <2> HIDE DEF g
  <2> QED BY <2>3
<1> HIDE DEF S
<1>3. Nat \subseteq S BY <1>1, <1>2, Induction
<1> QED BY <1>3 DEF S

LEMMA WalkedToByAgree ==
  ASSUME NEW v, NEW s, NEW t, NEW n \in Nat, NEW m \in Nat, n <= m, Agree(s, t, n),
         NEW f, WalkedToBy(f, s, v, n), NEW g, WalkedToBy(g, t, v, m)
  PROVE  f[n] = g[n]
<1> DEFINE S == {k \in Nat : k <= n => f[k] = g[k]}
<1>1. 0 \in S BY DEF WalkedToBy
<1>2. ASSUME NEW k \in Nat, k \in S PROVE k + 1 \in S
  <2> SUFFICES ASSUME k + 1 <= n PROVE f[k + 1] = g[k + 1]
    OBVIOUS
  <2>1. k + 1 \in 0 .. n /\ k + 1 \in 0 .. m /\ k + 1 # 0 /\ (k + 1) - 1 = k /\ k + 1 \in 1 .. n
    OBVIOUS
  <2>2. f[k] = g[k] /\ s[k + 1] = t[k + 1]
    BY <1>2, <2>1 DEF Agree
  <2>3. f[k + 1] = AtPart(f[k], s[k + 1])
    BY <2>1 DEF WalkedToBy
  <2>4. g[k + 1] = AtPart(g[k], t[k + 1])
    BY <2>1 DEF WalkedToBy
  <2> QED BY <2>2, <2>3, <2>4
<1> HIDE DEF S
<1>3. Nat \subseteq S BY <1>1, <1>2, Induction
<1> QED BY <1>3 DEF S

LEMMA WalkedToIs ==
  ASSUME NEW v, NEW s, Len(s) \in Nat
  PROVE  \E f : WalkedToBy(f, s, v, Len(s)) /\ WalkedTo(v, s) = f[Len(s)]
<1> DEFINE f == CHOOSE g : WalkedToBy(g, s, v, Len(s))
<1>1. WalkedToBy(f, s, v, Len(s)) BY WalkedToByExists
<1>2. WalkedTo(v, s) = f[Len(s)] BY DEF WalkedTo, WalkedToBy
<1> QED BY <1>1, <1>2

LEMMA WalkedToOfNone ==
  ASSUME NEW v, NEW s, s = <<>>
  PROVE  WalkedTo(v, s) = {v}
<1>1. Len(s) = 0 /\ Len(s) \in Nat OBVIOUS
<1>2. PICK f : WalkedToBy(f, s, v, Len(s)) /\ WalkedTo(v, s) = f[Len(s)]
  BY <1>1, WalkedToIs
<1> QED BY <1>1, <1>2 DEF WalkedToBy

LEMMA WalkedToOfMore ==
  ASSUME NEW v, NEW s, NEW t, NEW n \in Nat, Len(s) = n, Len(t) = n + 1, Agree(s, t, n)
  PROVE  WalkedTo(v, t) = AtPart(WalkedTo(v, s), t[n + 1])
<1>1. PICK f : WalkedToBy(f, s, v, Len(s)) /\ WalkedTo(v, s) = f[Len(s)]
  BY WalkedToIs
<1>2. PICK g : WalkedToBy(g, t, v, Len(t)) /\ WalkedTo(v, t) = g[Len(t)]
  BY WalkedToIs
<1>3. f[n] = g[n]
  <2>1. WalkedToBy(f, s, v, n) /\ WalkedToBy(g, t, v, n + 1) /\ n + 1 \in Nat /\ n <= n + 1
    BY <1>1, <1>2
  <2> QED BY <2>1, WalkedToByAgree
<1>4. n + 1 \in 0 .. n + 1 /\ n + 1 # 0 /\ (n + 1) - 1 = n
  OBVIOUS
<1>5. g[n + 1] = AtPart(g[n], t[n + 1])
  BY <1>2, <1>4 DEF WalkedToBy
<1> QED BY <1>1, <1>2, <1>3, <1>5

\* It is what the way of the model leads to.
LEMMA GetIsGone ==
  ASSUME NEW v, NEW path \in Seq(PathParts)
  PROVE  GetByPath(v, path) = Gone({v}, PathSteps(path))
<1> DEFINE steps == PathSteps(path)
           n == Len(steps)
           way == Way(v, steps, Looks)
           g == [k \in 0 .. n |-> way[k + 1]]
<1>1. n \in Nat
  <2>1. steps \in Seq(Steps) BY PathStepsAre
  <2> QED BY <2>1
<1>2. GetByPath(v, path) = way[n + 1]
  BY DEF GetByPath, AtEnd, Looks
<1> HIDE DEF steps
<1>3. Walks(way, {v}, steps, Looks, 1, n + 1) BY <1>1, WayIs
<1> HIDE DEF way
<1>4. ASSUME NEW k \in 0 .. n
      PROVE  g[k] = IF k = 0 THEN {v} ELSE Onward(g[k - 1], steps[k], Looks)
  <2>1. k + 1 \in 1 .. n + 1 /\ g[k] = way[k + 1] /\ (k + 1) - 1 = k /\ (k = 0 <=> k + 1 = 1)
    BY <1>1
  <2>2. way[k + 1] = IF k + 1 = 1 THEN {v} ELSE Onward(way[(k + 1) - 1], steps[(k + 1) - 1], Looks)
    BY <1>3, <2>1 DEF Walks
  <2>3. k # 0 => g[k - 1] = way[k] BY <1>1
  <2> HIDE DEF g, n
  <2> QED BY <2>1, <2>2, <2>3
<1>5. GoneBy(g, steps, {v}, n) BY <1>4 DEF GoneBy
<1>6. g[n] = way[n + 1] BY <1>1
<1> HIDE DEF g
<1>7. PICK f : GoneBy(f, steps, {v}, n) /\ Gone({v}, steps) = f[n]
  BY <1>1, GoneIs
<1>8. Agree(steps, steps, n) /\ n <= n BY <1>1 DEF Agree
<1>9. f[n] = g[n]
  <2> HIDE DEF n
  <2> QED BY <1>1, <1>5, <1>7, <1>8, GoneByAgree
<1> QED BY <1>2, <1>6, <1>7, <1>9 DEF steps

LEMMA GoneNothing == \A from : Gone(from, <<>>) = from
BY GoneOfNone

LEMMA GoneAppend ==
  ASSUME NEW C, NEW p \in Seq(C), NEW c \in C, NEW from
  PROVE  Gone(from, Append(p, c)) = Onward(Gone(from, p), c, Looks)
<1> DEFINE s == Append(p, c)
<1>1. Len(s) = Len(p) + 1 /\ Len(p) \in Nat /\ s[Len(p) + 1] = c /\ \A i \in 1 .. Len(p) : p[i] = s[i]
  OBVIOUS
<1> HIDE DEF s
<1>2. Agree(p, s, Len(p)) BY <1>1 DEF Agree
<1>3. Gone(from, s) = Onward(Gone(from, p), s[Len(p) + 1], Looks)
  BY <1>1, <1>2, GoneOfMore
<1> QED BY <1>1, <1>3 DEF s

LEMMA WalkedToNothing == \A v : WalkedTo(v, <<>>) = {v}
BY WalkedToOfNone

LEMMA WalkedToAppend ==
  ASSUME NEW C, NEW p \in Seq(C), NEW c \in C, NEW v
  PROVE  WalkedTo(v, Append(p, c)) = AtPart(WalkedTo(v, p), c)
<1> DEFINE s == Append(p, c)
<1>1. Len(s) = Len(p) + 1 /\ Len(p) \in Nat /\ s[Len(p) + 1] = c /\ \A i \in 1 .. Len(p) : p[i] = s[i]
  OBVIOUS
<1> HIDE DEF s
<1>2. Agree(p, s, Len(p)) BY <1>1 DEF Agree
<1>3. WalkedTo(v, s) = AtPart(WalkedTo(v, p), s[Len(p) + 1])
  BY <1>1, <1>2, WalkedToOfMore
<1> QED BY <1>1, <1>3 DEF s

\* The steps of a part that both walks read the same way.
PlainParts ==
  {p \in PathParts : /\ Len(p.indexes) <= 1
                     /\ \A i \in DOMAIN p.indexes : p.indexes[i] # Unclosed
                     /\ p.field # "" \/ p.indexes # <<>>}
FieldStep(part) ==
  [into |-> "field", key |-> part.field,
   missing |-> IF part.indexes = <<>> THEN Object(<<>>) ELSE Array(<<>>)]
ElementStep(i) == [into |-> "element", key |-> i, missing |-> Null]

LEMMA FlattenOne ==
  ASSUME NEW S, NEW t \in Seq(S)
  PROVE  FlattenSeq(<<t>>) = t
<1>1. << >> \in Seq(Seq(S)) /\ <<t>> \in Seq(Seq(S)) /\ Len(<<t>>) = Len(<< >>) + 1
      /\ <<t>>[Len(<<t>>)] = t
  OBVIOUS
<1>2. Agree(<< >>, <<t>>, Len(<< >>)) BY DEF Agree
<1>3. FlattenSeq(<<t>>) = FlattenSeq(<< >>) \o <<t>>[Len(<<t>>)]
  BY <1>1, <1>2, FlattenLast
<1>4. FlattenSeq(<< >>) = << >> BY DEF FlattenSeq
<1>5. << >> \o t = t OBVIOUS
<1> QED BY <1>1, <1>3, <1>4, <1>5

LEMMA OnlyIndex ==
  ASSUME NEW s \in Seq(Int), Len(s) <= 1, s # <<>>
  PROVE  Len(s) = 1 /\ DOMAIN s = {1} /\ s[1] \in Int
<1>1. Len(s) \in Nat /\ DOMAIN s = 1 .. Len(s) OBVIOUS
<1>2. Len(s) # 0 BY <1>1
<1>3. Len(s) = 1 BY <1>1, <1>2
<1>4. 1 .. 1 = {1} /\ s[1] \in Int BY <1>1, <1>3
<1> QED BY <1>1, <1>3, <1>4

LEMMA OneAndOne ==
  ASSUME NEW a, NEW b
  PROVE  <<a>> \o <<b>> = <<a, b>>
<1> DEFINE C == {a, b}
<1>1. <<a>> \in Seq(C) /\ <<>> \in Seq(C) /\ b \in C
      /\ <<b>> = Append(<<>>, b) /\ <<a, b>> = Append(<<a>>, b)
  OBVIOUS
<1> HIDE DEF C
<1>2. AppendsBehind(<<a>>, <<>>, b) BY <1>1, AppendBehind
<1>3. <<a>> \o <<>> = <<a>> BY <1>1
<1> QED BY <1>1, <1>2, <1>3 DEF AppendsBehind

LEMMA ElementsOfOne ==
  ASSUME NEW part \in PlainParts, part.indexes # <<>>
  PROVE  IntoElements(part) = <<ElementStep(part.indexes[1])>>
<1> DEFINE into(k) == IF part.indexes[k] = Unclosed THEN <<>> ELSE <<ElementStep(part.indexes[k])>>
           step == ElementStep(part.indexes[1])
<1>1. part.indexes \in Seq(Int) /\ Len(part.indexes) = 1 /\ DOMAIN part.indexes = {1}
  <2>1. part.indexes \in Seq(Int) /\ Len(part.indexes) <= 1
    BY DEF PlainParts, PathParts
  <2> QED BY <2>1, OnlyIndex
<1>2. IntoElements(part) = FlattenSeq([k \in DOMAIN part.indexes |-> into(k)])
  BY DEF IntoElements, ElementStep
<1>3. into(1) = <<step>> BY <1>1 DEF PlainParts
<1> HIDE DEF into, step
<1>4. [k \in DOMAIN part.indexes |-> into(k)] = << <<step>> >>
  BY <1>1, <1>3
<1>5. <<step>> \in Seq({step}) OBVIOUS
<1> QED BY <1>2, <1>4, <1>5, FlattenOne DEF step

LEMMA OnwardField ==
  ASSUME NEW part, NEW found
  PROVE  Onward(found, FieldStep(part), Looks) =
           {w.fields[part.field] : w \in {u \in found : HasField(u, part.field)}}
BY DEF Onward, FieldStep, Leads, Into, Looks

LEMMA OnwardElement ==
  ASSUME NEW i \in Int, NEW found, i # Unclosed
  PROVE  Onward(found, ElementStep(i), Looks) = AtIndex(found, i)
BY DEF Onward, ElementStep, Leads, Into, AtIndex

LEMMA GoneTwo ==
  ASSUME NEW from, NEW s, NEW t
  PROVE  /\ Gone(from, <<s>>) = Onward(from, s, Looks)
         /\ Gone(from, <<s, t>>) = Onward(Onward(from, s, Looks), t, Looks)
<1> DEFINE C == {s, t}
<1>1. <<>> \in Seq(C) /\ <<s>> \in Seq(C) /\ s \in C /\ t \in C
      /\ <<s>> = Append(<<>>, s) /\ <<s, t>> = Append(<<s>>, t)
  OBVIOUS
<1> HIDE DEF C
<1>2. Gone(from, Append(<<>>, s)) = Onward(Gone(from, <<>>), s, Looks)
  BY <1>1, GoneAppend
<1>3. Gone(from, Append(<<s>>, t)) = Onward(Gone(from, <<s>>), t, Looks)
  BY <1>1, GoneAppend
<1> QED BY <1>1, <1>2, <1>3, GoneNothing

LEMMA PartIsGone ==
  ASSUME NEW part \in PlainParts, NEW found
  PROVE  Gone(found, PartSteps(part)) = AtPart(found, part)
<1> DEFINE i == part.indexes[1]
<1>0. part \in PathParts /\ part.indexes \in Seq(Int) /\ Len(part.indexes) <= 1
  BY DEF PlainParts, PathParts
<1>1. CASE part.indexes = <<>>
  <2>1. part.field # "" BY <1>1 DEF PlainParts
  <2>2. IntoField(part) = <<FieldStep(part)>> /\ IntoElements(part) = <<>>
    BY <1>0, <1>1, <2>1, IntoElementsType DEF IntoField, FieldStep
  <2>3. PartSteps(part) = <<FieldStep(part)>>
    <3>1. <<FieldStep(part)>> \o <<>> = <<FieldStep(part)>>
      OBVIOUS
    <3> QED BY <2>2, <3>1 DEF PartSteps
  <2>4. Gone(found, <<FieldStep(part)>>) = Onward(found, FieldStep(part), Looks)
    BY GoneTwo
  <2>5. AtPart(found, part) = {w.fields[part.field] : w \in {u \in found : HasField(u, part.field)}}
    BY <1>1, <2>1 DEF AtPart
  <2>6. Onward(found, FieldStep(part), Looks) =
          {w.fields[part.field] : w \in {u \in found : HasField(u, part.field)}}
    BY OnwardField
  <2> QED BY <2>3, <2>4, <2>5, <2>6
<1>2. CASE part.indexes # <<>>
  <2>1. i \in Int /\ i # Unclosed
    <3>1. 1 \in DOMAIN part.indexes /\ i \in Int
      BY <1>0, <1>2, OnlyIndex
    <3>2. \A k \in DOMAIN part.indexes : part.indexes[k] # Unclosed
      BY DEF PlainParts
    <3> QED BY <3>1, <3>2
  <2>2. IntoElements(part) = <<ElementStep(i)>>
    BY <1>2, ElementsOfOne
  <2> HIDE DEF i
  <2>3. CASE part.field = ""
    <3>1. PartSteps(part) = <<ElementStep(i)>>
      <4>1. <<>> \o <<ElementStep(i)>> = <<ElementStep(i)>>
        OBVIOUS
      <4>2. IntoField(part) = <<>>
        BY <1>2, <2>3 DEF IntoField
      <4> QED BY <2>2, <4>1, <4>2 DEF PartSteps
    <3>2. AtPart(found, part) = AtIndex(found, i)
      BY <1>2, <2>1, <2>3 DEF AtPart, i
    <3>3. Gone(found, <<ElementStep(i)>>) = Onward(found, ElementStep(i), Looks)
      BY GoneTwo
    <3>4. Onward(found, ElementStep(i), Looks) = AtIndex(found, i)
      BY <2>1, OnwardElement
    <3> QED BY <3>1, <3>2, <3>3, <3>4
  <2>4. CASE part.field # ""
    <3>1. PartSteps(part) = <<FieldStep(part), ElementStep(i)>>
      <4>1. <<FieldStep(part)>> \o <<ElementStep(i)>> = <<FieldStep(part), ElementStep(i)>>
        BY OneAndOne
      <4>2. IntoField(part) = <<FieldStep(part)>>
        BY <2>4 DEF IntoField, FieldStep
      <4> QED BY <2>2, <4>1, <4>2 DEF PartSteps
    <3> DEFINE inField == Onward(found, FieldStep(part), Looks)
    <3>2. AtPart(found, part) = AtIndex(inField, i)
      BY <1>2, <2>1, <2>4, OnwardField DEF AtPart, i
    <3>3. Gone(found, PartSteps(part)) = Onward(inField, ElementStep(i), Looks)
      BY <3>1, GoneTwo
    <3> HIDE DEF inField
    <3> QED BY <2>1, <3>2, <3>3, OnwardElement
  <2> QED BY <2>3, <2>4
<1> QED BY <1>1, <1>2

GoesOn(from, p, q) == Gone(from, p \o q) = Gone(Gone(from, p), q)
LEMMA GoneAlong ==
  ASSUME NEW C, NEW from, NEW p \in Seq(C)
  PROVE  \A q \in Seq(C) : GoesOn(from, p, q)
<1> DEFINE T == {q \in Seq(C) : GoesOn(from, p, q)}
<1>1. <<>> \in T
  <2>1. <<>> \in Seq(C) /\ p \o <<>> = p OBVIOUS
  <2> QED BY <2>1, GoneNothing DEF GoesOn
<1>2. ASSUME NEW q \in Seq(C), NEW c \in C, q \in T PROVE Append(q, c) \in T
  <2>1. Append(q, c) \in Seq(C) /\ p \o q \in Seq(C) OBVIOUS
  <2>2. AppendsBehind(p, q, c) BY AppendBehind
  <2>3. Gone(from, Append(p \o q, c)) = Onward(Gone(from, p \o q), c, Looks)
    BY <2>1, GoneAppend
  <2>4. Gone(Gone(from, p), Append(q, c)) = Onward(Gone(Gone(from, p), q), c, Looks)
    BY GoneAppend
  <2>5. GoesOn(from, p, q) BY <1>2
  <2> QED BY <2>1, <2>2, <2>3, <2>4, <2>5 DEF GoesOn, AppendsBehind
<1> HIDE DEF T
<1>3. Seq(C) \subseteq T BY <1>1, <1>2, TextInduction
<1> QED BY <1>3 DEF T

\* get_value_by_path and walk_json lead to the same values.
LEMMA BothWalksLead ==
  ASSUME NEW v
  PROVE  \A path \in Seq(PlainParts) : GetByPath(v, path) = WalkedTo(v, path)
<1> DEFINE C == PlainParts
           T == {path \in Seq(C) : Gone({v}, PathSteps(path)) = WalkedTo(v, path)}
<1>0. C \subseteq PathParts BY DEF PlainParts
<1>00. \A path \in Seq(C) : path \in Seq(PathParts) BY <1>0
<1>1. <<>> \in T
  <2>1. PathSteps(<<>>) = <<>> BY DEF PathSteps, FlattenSeq
  <2>2. <<>> \in Seq(C) OBVIOUS
  <2> HIDE DEF C
  <2> QED BY <2>1, <2>2, GoneNothing, WalkedToNothing
<1>2. ASSUME NEW path \in Seq(C), NEW c \in C, path \in T PROVE Append(path, c) \in T
  <2> DEFINE more == Append(path, c)
  <2>1. more \in Seq(C) /\ more # <<>> /\ Front(more) = path /\ Last(more) = c
    BY DEF Front, Last
  <2> HIDE DEF more
  <2>2. more \in Seq(PathParts) /\ path \in Seq(PathParts) /\ c \in PathParts
    BY <1>0, <1>00, <2>1
  <2>3. PathSteps(more) = PathSteps(path) \o PartSteps(c)
    BY <2>1, <2>2, PathStepsLast
  <2>4. PathSteps(path) \in Seq(Steps) /\ PartSteps(c) \in Seq(Steps)
    <3>1. IntoField(c) \in Seq(Steps) /\ IntoElements(c) \in Seq(Steps)
      BY <2>2, IntoFieldType, IntoElementsType
    <3>2. PartSteps(c) \in Seq(Steps)
      BY <3>1, ConcatIs DEF PartSteps
    <3> QED BY <2>2, <3>2, PathStepsAre
  <2>5. GoesOn({v}, PathSteps(path), PartSteps(c))
    BY <2>4, GoneAlong
  <2>6. Gone({v}, PathSteps(path)) = WalkedTo(v, path)
    BY <1>2
  <2>7. Gone(WalkedTo(v, path), PartSteps(c)) = AtPart(WalkedTo(v, path), c)
    BY PartIsGone
  <2>8. WalkedTo(v, more) = AtPart(WalkedTo(v, path), c)
    BY WalkedToAppend DEF more
  <2> QED BY <2>1, <2>3, <2>5, <2>6, <2>7, <2>8 DEF GoesOn, more
<1> HIDE DEF T
<1>3. Seq(C) \subseteq T BY <1>1, <1>2, TextInduction
<1>4. ASSUME NEW path \in Seq(C) PROVE GetByPath(v, path) = WalkedTo(v, path)
  <2>1. GetByPath(v, path) = Gone({v}, PathSteps(path))
    BY <1>00, GetIsGone
  <2> QED BY <1>3, <2>1 DEF T
<1> QED BY <1>4

-----------------------------------------------------------------------------
(* Two readers of a query.                                                  *)

\* The characters of a query, without the escapes that its readers could read
\* differently, and what they stand for.
Unambiguous == {c \in STRING : c \in Escapes => ~ReadDifferently(c)}
Meanings == STRING \cup {" "}
Shown(c) == Read(c, AsUtf8)

LEMMA ShownIs ==
  ASSUME NEW c \in Unambiguous
  PROVE  /\ Shown(c) \in Meanings
         /\ Shown(c) = "&" <=> c = "&"
         /\ c = "=" => Shown(c) = "="
         /\ c \notin {"+"} \cup Escapes => Shown(c) = c
<1>1. CASE c \in Escapes
  <2>1. Shown(c) = AsUtf8[c] /\ AsUtf8[c] \in STRING /\ c \notin {"+", "&", "="}
    BY <1>1, EscapesAssumption DEF Shown, Read, Escapes
  <2>2. AsUtf8[c] # "&"
    BY <1>1 DEF Unambiguous, ReadDifferently
  <2> QED BY <1>1, <2>1, <2>2 DEF Meanings
<1>2. CASE c \notin Escapes
  <2>1. Shown(c) = IF c = "+" THEN " " ELSE c
    BY <1>2 DEF Shown, Read, Escapes
  <2> QED BY <1>2, <2>1 DEF Meanings, Unambiguous
<1> QED BY <1>1, <1>2

LEMMA DecodedIs ==
  ASSUME NEW t \in Seq(Unambiguous)
  PROVE  /\ DecodedValue(t) \in Seq(Meanings)
         /\ Len(DecodedValue(t)) = Len(t)
         /\ \A i \in 1 .. Len(t) : DecodedValue(t)[i] = Shown(t[i])
<1>1. DOMAIN t = 1 .. Len(t) /\ Len(t) \in Nat /\ \A i \in 1 .. Len(t) : t[i] \in Unambiguous
  OBVIOUS
<1>2. \A i \in 1 .. Len(t) : Shown(t[i]) \in Meanings
  BY <1>1, ShownIs
<1>3. DecodedValue(t) = [i \in 1 .. Len(t) |-> Shown(t[i])]
  BY <1>1 DEF DecodedValue, Shown
<1> QED BY <1>1, <1>2, <1>3

LEMMA DecodedAppend ==
  ASSUME NEW t \in Seq(Unambiguous), NEW c \in Unambiguous
  PROVE  DecodedValue(Append(t, c)) = Append(DecodedValue(t), Shown(c))
<1> DEFINE more == Append(t, c)
           p == DecodedValue(more)
           q == Append(DecodedValue(t), Shown(c))
<1>1. more \in Seq(Unambiguous) /\ Len(more) = Len(t) + 1 /\ Len(t) \in Nat /\ more[Len(t) + 1] = c
      /\ \A i \in 1 .. Len(t) : more[i] = t[i]
  OBVIOUS
<1> HIDE DEF more
<1>2. /\ p \in Seq(Meanings) /\ Len(p) = Len(t) + 1
      /\ \A i \in 1 .. Len(t) + 1 : p[i] = Shown(more[i])
  BY <1>1, DecodedIs
<1>3. DecodedValue(t) \in Seq(Meanings) /\ Len(DecodedValue(t)) = Len(t) /\ Shown(c) \in Meanings
      /\ \A i \in 1 .. Len(t) : DecodedValue(t)[i] = Shown(t[i])
  BY DecodedIs, ShownIs
<1>4. q \in Seq(Meanings) /\ Len(q) = Len(t) + 1 /\ q[Len(t) + 1] = Shown(c)
      /\ \A i \in 1 .. Len(t) : q[i] = DecodedValue(t)[i]
  BY <1>3
<1> HIDE DEF p, q
<1>5. \A i \in 1 .. Len(t) + 1 : i \in 1 .. Len(t) \/ i = Len(t) + 1
  BY <1>1
<1>6. Agree(p, q, Len(p))
  BY <1>1, <1>2, <1>3, <1>4, <1>5 DEF Agree
<1>7. p = q BY <1>2, <1>4, <1>6, SameSequence
<1> QED BY <1>7 DEF p, q, more

Each(parts) == [i \in DOMAIN parts |-> DecodedValue(parts[i])]

LEMMA EachIs ==
  ASSUME NEW parts \in Seq(Seq(Unambiguous))
  PROVE  /\ Each(parts) \in Seq(Seq(Meanings))
         /\ Len(Each(parts)) = Len(parts)
         /\ DOMAIN Each(parts) = DOMAIN parts
         /\ \A i \in 1 .. Len(parts) : Each(parts)[i] = DecodedValue(parts[i])
<1>1. /\ DOMAIN parts = 1 .. Len(parts) /\ Len(parts) \in Nat
      /\ \A i \in 1 .. Len(parts) : parts[i] \in Seq(Unambiguous)
  OBVIOUS
<1>2. \A i \in 1 .. Len(parts) : DecodedValue(parts[i]) \in Seq(Meanings)
  BY <1>1, DecodedIs
<1>3. Each(parts) = [i \in 1 .. Len(parts) |-> DecodedValue(parts[i])]
  BY <1>1 DEF Each
<1> DEFINE D(i) == DecodedValue(parts[i])
<1> HIDE DEF D
<1>4. Each(parts) = [i \in 1 .. Len(parts) |-> D(i)] /\ \A i \in 1 .. Len(parts) : D(i) \in Seq(Meanings)
  BY <1>2, <1>3 DEF D
<1> QED BY <1>1, <1>4 DEF D

LEMMA EachAppend ==
  ASSUME NEW parts \in Seq(Seq(Unambiguous)), NEW t \in Seq(Unambiguous)
  PROVE  Each(Append(parts, t)) = Append(Each(parts), DecodedValue(t))
<1> DEFINE E == Seq(Unambiguous)
           more == Append(parts, t)
           p == Each(more)
           q == Append(Each(parts), DecodedValue(t))
<1>1. more \in Seq(E) /\ Len(more) = Len(parts) + 1 /\ Len(parts) \in Nat /\ more[Len(parts) + 1] = t
      /\ \A i \in 1 .. Len(parts) : more[i] = parts[i]
  <2>1. parts \in Seq(E) /\ t \in E OBVIOUS
  <2> HIDE DEF E
  <2> QED BY <2>1
<1> HIDE DEF more
<1> DEFINE M == Seq(Meanings)
<1>2. p \in Seq(M) /\ Len(p) = Len(parts) + 1
      /\ \A i \in 1 .. Len(parts) + 1 : p[i] = DecodedValue(more[i])
  BY <1>1, EachIs
<1>3. Each(parts) \in Seq(M) /\ Len(Each(parts)) = Len(parts) /\ DecodedValue(t) \in M
      /\ \A i \in 1 .. Len(parts) : Each(parts)[i] = DecodedValue(parts[i])
  BY EachIs, DecodedIs
<1> HIDE DEF M
<1>4. q \in Seq(M) /\ Len(q) = Len(parts) + 1 /\ q[Len(parts) + 1] = DecodedValue(t)
      /\ \A i \in 1 .. Len(parts) : q[i] = Each(parts)[i]
  BY <1>3
<1> HIDE DEF p, q
<1>5. \A i \in 1 .. Len(parts) + 1 : i \in 1 .. Len(parts) \/ i = Len(parts) + 1
  BY <1>1
<1>6. Agree(p, q, Len(p))
  BY <1>1, <1>2, <1>3, <1>4, <1>5 DEF Agree
<1>7. p = q BY <1>2, <1>4, <1>6, SameSequence
<1> QED BY <1>7 DEF p, q, more

LEMMA EachLastAs ==
  ASSUME NEW parts \in Seq(Seq(Unambiguous)), parts # <<>>, NEW t \in Seq(Unambiguous)
  PROVE  Each(LastAs(parts, t)) = LastAs(Each(parts), DecodedValue(t))
<1> DEFINE E == Seq(Unambiguous)
           M == Seq(Meanings)
           more == LastAs(parts, t)
           p == Each(more)
           q == LastAs(Each(parts), DecodedValue(t))
<1>0. parts \in Seq(E) /\ t \in E /\ Len(parts) \in Nat /\ Len(parts) # 0
  OBVIOUS
<1>1. more \in Seq(E) /\ EndsWith(more, parts, t)
  <2> HIDE DEF E
  <2> QED BY <1>0, LastAsIs
<1> HIDE DEF more
<1>2. p \in Seq(M) /\ Len(p) = Len(parts) /\ \A i \in 1 .. Len(parts) : p[i] = DecodedValue(more[i])
  BY <1>1, EachIs DEF EndsWith
<1>3. Each(parts) \in Seq(M) /\ Len(Each(parts)) = Len(parts) /\ DecodedValue(t) \in M
      /\ \A i \in 1 .. Len(parts) : Each(parts)[i] = DecodedValue(parts[i])
  BY EachIs, DecodedIs
<1> HIDE DEF M
<1>4. Each(parts) # <<>> BY <1>0, <1>3
<1>5. q \in Seq(M) /\ EndsWith(q, Each(parts), DecodedValue(t))
  BY <1>3, <1>4, LastAsIs
<1> HIDE DEF p, q
<1>6. ASSUME NEW i \in 1 .. Len(parts) PROVE p[i] = q[i]
  <2>1. CASE i = Len(parts)
    BY <1>1, <1>2, <1>3, <1>5, <2>1 DEF EndsWith
  <2>2. CASE i # Len(parts)
    BY <1>1, <1>2, <1>3, <1>5, <2>2 DEF EndsWith
  <2> QED BY <2>1, <2>2
<1>7. Agree(p, q, Len(p)) BY <1>2, <1>6 DEF Agree
<1>8. Len(p) = Len(q) BY <1>2, <1>3, <1>5 DEF EndsWith
<1>9. p = q BY <1>2, <1>5, <1>7, <1>8, SameSequence
<1> QED BY <1>9 DEF p, q, more

LEMMA EachGrown ==
  ASSUME NEW parts \in Seq(Seq(Unambiguous)), parts # <<>>, NEW c \in Unambiguous
  PROVE  Each(Grown(parts, c, "&")) = Grown(Each(parts), Shown(c), "&")
<1> DEFINE E == Seq(Unambiguous)
           last == parts[Len(parts)]
<1>1. Len(parts) \in 1 .. Len(parts) /\ last \in E /\ <<>> \in E
  OBVIOUS
<1>2. Each(parts)[Len(parts)] = DecodedValue(last) /\ Len(Each(parts)) = Len(parts)
  BY <1>1, EachIs
<1>3. CASE c = "&"
  <2>1. Shown(c) = "&" BY <1>3, ShownIs
  <2>2. DecodedValue(<<>>) = <<>> BY DEF DecodedValue
  <2>3. Each(Append(parts, <<>>)) = Append(Each(parts), DecodedValue(<<>>))
    BY <1>1, EachAppend
  <2> QED BY <1>3, <2>1, <2>2, <2>3, GrownIs
<1>4. CASE c # "&"
  <2>1. Shown(c) # "&" BY <1>4, ShownIs
  <2>2. Append(last, c) \in E BY <1>1
  <2>3. DecodedValue(Append(last, c)) = Append(DecodedValue(last), Shown(c))
    BY <1>1, DecodedAppend
  <2> HIDE DEF last
  <2>4. Each(LastAs(parts, Append(last, c))) = LastAs(Each(parts), DecodedValue(Append(last, c)))
    BY <2>2, EachLastAs
  <2>5. Grown(parts, c, "&") = LastAs(parts, Append(last, c))
    BY <1>4, GrownIs DEF last
  <2>6. Grown(Each(parts), Shown(c), "&")
          = LastAs(Each(parts), Append(Each(parts)[Len(Each(parts))], Shown(c)))
    BY <2>1, GrownIs
  <2> QED BY <1>2, <2>3, <2>4, <2>5, <2>6
<1> QED BY <1>3, <1>4

LEMMA PairsAreUnambiguous ==
  ASSUME NEW q \in Seq(Unambiguous)
  PROVE  Split(q, "&") \in Seq(Seq(Unambiguous)) /\ Split(q, "&") # <<>>
<1>1. Split(q, "&") \in Seq(Seq(Unambiguous \ {"&"})) /\ Split(q, "&") # <<>>
  BY SplitType
<1>2. Seq(Unambiguous \ {"&"}) \subseteq Seq(Unambiguous)
  OBVIOUS
<1> DEFINE D == Seq(Unambiguous \ {"&"})
           E == Seq(Unambiguous)
<1>3. Split(q, "&") \in Seq(D) /\ D \subseteq E
  BY <1>1, <1>2
<1> HIDE DEF D, E
<1>4. Split(q, "&") \in Seq(E) BY <1>3
<1> QED BY <1>1, <1>4 DEF E

\* Decoding a query and then splitting it is splitting it and then decoding the pairs.
LEMMA SplitOfDecoded ==
  \A q \in Seq(Unambiguous) : Split(DecodedValue(q), "&") = Each(Split(q, "&"))
<1> DEFINE C == Unambiguous
           T == {q \in Seq(C) : Split(DecodedValue(q), "&") = Each(Split(q, "&"))}
<1>1. <<>> \in T
  <2>1. DecodedValue(<<>>) = <<>> /\ <<>> \in Seq(C)
    BY DEF DecodedValue
  <2>2. Each(<< <<>> >>) = << <<>> >>
    <3>1. Each(<< <<>> >>) = [i \in {1} |-> DecodedValue(<<>>)]
      BY DEF Each
    <3> QED BY <2>1, <3>1
  <2> QED BY <2>1, <2>2, SplitNothing
<1>2. ASSUME NEW q \in Seq(C), NEW c \in C, q \in T PROVE Append(q, c) \in T
  <2>1. Append(q, c) \in Seq(C) OBVIOUS
  <2>2. Split(q, "&") \in Seq(Seq(C)) /\ Split(q, "&") # <<>>
    BY PairsAreUnambiguous
  <2>3. Split(Append(q, c), "&") = Grown(Split(q, "&"), c, "&")
    BY SplitAppend
  <2>4. DecodedValue(q) \in Seq(Meanings) /\ DecodedValue(Append(q, c)) = Append(DecodedValue(q), Shown(c))
    BY DecodedIs, DecodedAppend
  <2>5. Split(Append(DecodedValue(q), Shown(c)), "&") = Grown(Split(DecodedValue(q), "&"), Shown(c), "&")
    BY <2>4, SplitAppend
  <2>6. Split(DecodedValue(q), "&") = Each(Split(q, "&"))
    BY <1>2
  <2>7. Each(Grown(Split(q, "&"), c, "&")) = Grown(Each(Split(q, "&")), Shown(c), "&")
    BY <2>2, EachGrown
  <2> QED BY <2>1, <2>3, <2>4, <2>5, <2>6, <2>7
<1> HIDE DEF T
<1>3. Seq(C) \subseteq T BY <1>1, <1>2, TextInduction
<1> QED BY <1>3 DEF T

LEMMA EqualsIs ==
  ASSUME NEW E, NEW p \in Seq(E), HasEquals(p)
  PROVE  /\ EqualsAt(p) \in 1 .. Len(p)
         /\ Len(p) \in Nat
         /\ DOMAIN p = 1 .. Len(p)
         /\ p[EqualsAt(p)] = "="
         /\ \A i \in 1 .. Len(p) : p[i] = "=" => EqualsAt(p) <= i
<1> DEFINE at == {i \in DOMAIN p : p[i] = "="}
<1>1. DOMAIN p = 1 .. Len(p) /\ Len(p) \in Nat OBVIOUS
<1>2. at # {} /\ at \subseteq Nat /\ at \subseteq 1 .. Len(p)
  BY <1>1 DEF HasEquals, ToSet
<1>3. EqualsAt(p) = Min(at) BY DEF EqualsAt
<1>4. \A i \in 1 .. Len(p) : i \in at <=> p[i] = "=" BY <1>1
<1> HIDE DEF at
<1>5. \E x \in at : \A y \in at : x <= y
  BY <1>2, LeastNatural
<1>6. Min(at) \in at /\ \A y \in at : Min(at) <= y
  BY <1>5 DEF Min
<1> QED BY <1>1, <1>2, <1>3, <1>4, <1>6

\* A pair with "=" is read the same way before and after it is decoded, if its key is
\* written plainly.
LEMMA PairDecoded ==
  ASSUME NEW p \in Seq(Unambiguous), HasEquals(p), ToSet(KeyOf(p)) \cap ({"+"} \cup Escapes) = {}
  PROVE  /\ KeyOf(DecodedValue(p)) = KeyOf(p)
         /\ ValueOf(DecodedValue(p)) = DecodedValue(ValueOf(p))
<1> DEFINE d == DecodedValue(p)
           n == Len(p)
           e == EqualsAt(p)
<1>1. d \in Seq(Meanings) /\ Len(d) = n /\ \A i \in 1 .. n : d[i] = Shown(p[i])
  BY DecodedIs
<1>2. e \in 1 .. n /\ n \in Nat /\ DOMAIN p = 1 .. n /\ p[e] = "=" /\ \A i \in 1 .. n : p[i] = "=" => e <= i
  BY EqualsIs
<1>3. \A i \in 1 .. n : p[i] \in Unambiguous OBVIOUS
<1>4. DOMAIN d = 1 .. n BY <1>1
<1>5. KeyOf(p) = SubSeq(p, 0 + 1, e - 1) /\ ValueOf(p) = SubSeq(p, e + 1, n)
  <2>1. KeyOf(p) = SubSeq(p, 1, e - 1) /\ ValueOf(p) = SubSeq(p, e + 1, n)
    BY Zenon DEF KeyOf, ValueOf
  <2>2. 0 + 1 = 1 OBVIOUS
  <2> QED BY <2>1, <2>2, Zenon
<1> HIDE DEF d, n, e
<1>6. ASSUME NEW i \in 1 .. n, i < e PROVE p[i] # "=" /\ d[i] = p[i]
  <2> DEFINE k == SubSeq(p, 0 + 1, e - 1)
  <2>1. 0 \in Nat /\ e - 1 \in Nat /\ 0 <= e - 1 /\ e - 1 <= Len(p) /\ (e - 1) - 0 = e - 1
        /\ i \in 1 .. e - 1 /\ 0 + i = i
    BY <1>2, <1>6 DEF n
  <2>2. k \in Seq(Unambiguous) /\ Len(k) = (e - 1) - 0 /\ \A m \in 1 .. (e - 1) - 0 : k[m] = p[0 + m]
    BY <2>1, SubSeqIs
  <2>3. KeyOf(p) = k BY <1>5
  <2> HIDE DEF k
  <2>4. k[i] = p[i] /\ i \in DOMAIN k BY <2>1, <2>2
  <2>5. p[i] \notin {"+"} \cup Escapes
    BY <2>3, <2>4 DEF ToSet
  <2>6. d[i] = p[i] BY <1>1, <1>3, <2>5, ShownIs
  <2>7. p[i] # "=" BY <1>2, <1>6
  <2> QED BY <2>6, <2>7
<1>7. EqualsAt(d) = e /\ HasEquals(d)
  <2>1. e \in DOMAIN d /\ d[e] = "="
    BY <1>1, <1>2, <1>3, <1>4, ShownIs
  <2>2. HasEquals(d) BY <2>1 DEF HasEquals, ToSet
  <2>3. EqualsAt(d) \in 1 .. n /\ d[EqualsAt(d)] = "=" /\ EqualsAt(d) <= e
    BY <1>1, <1>2, <2>1, <2>2, EqualsIs
  <2>4. ~(EqualsAt(d) < e) BY <1>6, <2>3
  <2> QED BY <1>2, <2>2, <2>3, <2>4
<1>8. KeyOf(d) = KeyOf(p)
  <2> DEFINE k == SubSeq(p, 0 + 1, e - 1)
             l == SubSeq(d, 0 + 1, e - 1)
  <2>1. 0 + 1 = 1 /\ 0 \in Nat /\ e - 1 \in Nat /\ 0 <= e - 1 /\ e - 1 <= Len(p) /\ e - 1 <= Len(d)
        /\ (e - 1) - 0 = e - 1
    BY <1>1, <1>2 DEF n
  <2>2. KeyOf(p) = k /\ KeyOf(d) = l
    BY <1>5, <1>7, <2>1 DEF KeyOf
  <2>3. k \in Seq(Unambiguous) /\ Len(k) = (e - 1) - 0 /\ \A i \in 1 .. (e - 1) - 0 : k[i] = p[0 + i]
    BY <2>1, SubSeqIs
  <2>4. l \in Seq(Meanings) /\ Len(l) = (e - 1) - 0 /\ \A i \in 1 .. (e - 1) - 0 : l[i] = d[0 + i]
    BY <1>1, <2>1, SubSeqIs
  <2> HIDE DEF k, l
  <2>5. ASSUME NEW i \in 1 .. e - 1 PROVE k[i] = l[i] /\ k[i] \in Meanings
    <3>1. i \in 1 .. n /\ 0 + i = i /\ i < e BY <1>2
    <3>2. k[i] = p[i] /\ l[i] = d[i]
      BY <2>1, <2>3, <2>4, <3>1
    <3>3. d[i] = p[i] /\ d[i] \in Meanings
      BY <1>1, <1>6, <3>1
    <3> QED BY <3>2, <3>3
  <2>6. k \in Seq(Meanings) BY <2>1, <2>3, <2>5, SeqWithin
  <2>7. Agree(k, l, Len(k)) BY <2>1, <2>3, <2>5 DEF Agree
  <2>8. Len(k) = Len(l) BY <2>3, <2>4
  <2>9. k = l BY <2>4, <2>6, <2>7, <2>8, SameSequence
  <2> QED BY <2>2, <2>9
<1>9. ValueOf(d) = DecodedValue(ValueOf(p))
  <2> DEFINE k == SubSeq(p, e + 1, n)
             l == SubSeq(d, e + 1, n)
             m == DecodedValue(k)
  <2>1. e \in Nat /\ n \in Nat /\ e <= n /\ n <= Len(p) /\ n <= Len(d) /\ n - e \in Nat
    BY <1>1, <1>2 DEF n
  <2>2. ValueOf(p) = k /\ ValueOf(d) = l
    BY <1>1, <1>5, <1>7 DEF ValueOf
  <2>3. k \in Seq(Unambiguous) /\ Len(k) = n - e /\ \A i \in 1 .. n - e : k[i] = p[e + i]
    BY <2>1, SubSeqIs
  <2>4. l \in Seq(Meanings) /\ Len(l) = n - e /\ \A i \in 1 .. n - e : l[i] = d[e + i]
    BY <1>1, <2>1, SubSeqIs
  <2> HIDE DEF k, l
  <2>5. m \in Seq(Meanings) /\ Len(m) = n - e /\ \A i \in 1 .. n - e : m[i] = Shown(k[i])
    BY <2>3, DecodedIs
  <2> HIDE DEF m
  <2>6. ASSUME NEW i \in 1 .. n - e PROVE m[i] = l[i]
    <3>1. e + i \in 1 .. n BY <2>1
    <3> QED BY <1>1, <2>3, <2>4, <2>5, <3>1
  <2>7. Agree(m, l, Len(m)) /\ Len(m) = Len(l)
    BY <2>4, <2>5, <2>6 DEF Agree
  <2>8. m = l BY <2>4, <2>5, <2>7, SameSequence
  <2> QED BY <2>2, <2>8 DEF m
<1> QED BY <1>8, <1>9 DEF d

LEMMA PlainQuery ==
  ASSUME NEW q \in Seq(STRING), \A c \in ToSet(q) : c \in Escapes => ~ReadDifferently(c)
  PROVE  q \in Seq(Unambiguous)
<1>1. ASSUME NEW i \in 1 .. Len(q) PROVE q[i] \in Unambiguous
  <2>1. q[i] \in ToSet(q) /\ q[i] \in STRING BY DEF ToSet
  <2> QED BY <2>1 DEF Unambiguous
<1> QED BY <1>1, SeqWithin

\* A query that is not awkward has one value of a key at most, and both readers find it.
LEMMA BothReadersFind ==
  ASSUME NEW query, query # <<>>, query[1] \in Seq(STRING), ~AwkwardQuery(query), NEW key
  PROVE  /\ ConditionValue(query, key) = TemplateValue(query, key)
         /\ \A u, w \in TemplateValue(query, key) : u = w
<1> DEFINE q == query[1]
           pairs == Split(q, "&")
           n == Len(pairs)
           having == {i \in DOMAIN pairs : KeyOf(pairs[i]) = key}
           value(i) == DecodedValue(ValueOf(pairs[i]))
<1>1. /\ \A c \in ToSet(q) : c \in Escapes => ~ReadDifferently(c)
      /\ \A i \in DOMAIN pairs :
           HasEquals(pairs[i]) /\ ToSet(KeyOf(pairs[i])) \cap ({"+"} \cup Escapes) = {}
      /\ \A i, j \in DOMAIN pairs : i # j => KeyOf(pairs[i]) # KeyOf(pairs[j])
  BY DEF AwkwardQuery
<1>2. q \in Seq(Unambiguous) BY <1>1, PlainQuery
<1>3. /\ DOMAIN pairs = 1 .. n /\ n \in Nat
      /\ pairs \in Seq(Seq(Unambiguous))
      /\ \A i \in 1 .. n : pairs[i] \in Seq(Unambiguous)
  <2>1. pairs \in Seq(Seq(Unambiguous))
    BY <1>2, PairsAreUnambiguous
  <2> HIDE DEF pairs
  <2> QED BY <2>1
<1>4. DecodedWhole(q) = DecodedValue(q)
  <2>1. \A c \in ToSet(q) : c \in Escapes => c \in DOMAIN AsChars /\ AsChars[c] = AsUtf8[c]
    BY <1>1 DEF ReadDifferently
  <2> HIDE DEF q
  <2>2. ToSet(q) \cap (Escapes \ DOMAIN AsChars) = {}
    BY <2>1
  <2>3. ASSUME NEW i \in DOMAIN q PROVE Read(q[i], AsChars) = Read(q[i], AsUtf8)
    <3> DEFINE c == q[i]
    <3>1. c \in ToSet(q) BY DEF ToSet
    <3> HIDE DEF c
    <3>2. Read(c, AsChars) = Read(c, AsUtf8)
      BY <2>1, <3>1, EscapesAssumption DEF Read, Escapes
    <3> QED BY <3>2 DEF c
  <2>4. DecodedWhole(q) = [i \in DOMAIN q |-> Read(q[i], AsChars)]
    BY <2>2 DEF DecodedWhole
  <2> QED BY <2>3, <2>4 DEF DecodedValue
<1>5. Split(DecodedWhole(q), "&") = Each(pairs)
  BY <1>2, <1>4, SplitOfDecoded
<1> HIDE DEF q, pairs
<1>6. /\ DOMAIN Each(pairs) = 1 .. n
      /\ \A i \in 1 .. n : Each(pairs)[i] = DecodedValue(pairs[i])
  BY <1>3, EachIs
<1> HIDE DEF n
<1>7. ASSUME NEW i \in 1 .. n
      PROVE  KeyOf(Each(pairs)[i]) = KeyOf(pairs[i]) /\ ValueOf(Each(pairs)[i]) = value(i)
  BY <1>1, <1>3, <1>6, PairDecoded
<1>8. {i \in DOMAIN Each(pairs) : KeyOf(Each(pairs)[i]) = key} = having
  BY <1>3, <1>6, <1>7
<1>9. \A i, j \in having : i = j BY <1>1
<1>10. having \subseteq 1 .. n /\ \A i, k \in having : i <= k /\ k <= i
  BY <1>3, <1>9
<1>11. ConditionValue(query, key) = {value(i) : i \in having}
  <2> DEFINE all == Each(pairs)
  <2>1. ConditionValue(query, key)
          = {ValueOf(all[i]) : i \in {j \in having : \A k \in having : k <= j}}
    BY <1>5, <1>8 DEF ConditionValue, q
  <2>2. {j \in having : \A k \in having : k <= j} = having
    BY <1>10
  <2>3. \A i \in having : ValueOf(all[i]) = value(i)
    BY <1>7, <1>10
  <2> HIDE DEF having, all, value
  <2> QED BY <2>1, <2>2, <2>3
<1>12. TemplateValue(query, key) = {value(i) : i \in having}
  <2>1. TemplateValue(query, key)
          = {value(i) : i \in {j \in having : /\ \A k \in 1 .. j : HasEquals(pairs[k])
                                              /\ \A k \in having : j <= k}}
    BY DEF TemplateValue, pairs, q
  <2>2. \A j \in having : \A k \in 1 .. j : HasEquals(pairs[k])
    <3>1. \A j \in having : \A k \in 1 .. j : k \in 1 .. n
      BY <1>3, <1>10
    <3> QED BY <1>1, <1>3, <3>1
  <2> HIDE DEF having, value
  <2>3. {j \in having : (\A k \in 1 .. j : HasEquals(pairs[k])) /\ (\A k \in having : j <= k)} = having
    BY <1>10, <2>2
  <2> QED BY <2>1, <2>3
<1> HIDE DEF having, value
<1> QED BY <1>9, <1>11, <1>12

-----------------------------------------------------------------------------
(* What a mock shows.                                                       *)

\* A template that is one placeholder shows what the placeholder is resolved to.
LEMMA OnePieceShows ==
  ASSUME NEW piece, piece.of # "text", NEW query, NEW body, NEW S, NEW t \in Seq(S),
         Resolved(piece, query, body) = {t}
  PROVE  Rendered(<<piece>>, query, body) = t
<1> DEFINE Show(p) ==
             IF p.of = "text" \/ Resolved(p, query, body) = {} THEN <<p.raw>>
             ELSE CHOOSE u \in Resolved(p, query, body) : TRUE
<1>1. Rendered(<<piece>>, query, body) = FlattenSeq([i \in DOMAIN <<piece>> |-> Show(<<piece>>[i])])
  BY DEF Rendered
<1>2. Show(piece) = t OBVIOUS
<1> HIDE DEF Show
<1>3. [i \in DOMAIN <<piece>> |-> Show(<<piece>>[i])] = <<t>>
  BY <1>2
<1> QED BY <1>1, <1>3, FlattenOne

LEMMA ValueType ==
  ASSUME NEW query, query # <<>>, query[1] \in Seq(STRING), ~AwkwardQuery(query), NEW key,
         NEW t \in TemplateValue(query, key)
  PROVE  t \in Seq(Meanings)
<1> DEFINE q == query[1]
           pairs == Split(q, "&")
<1>1. q \in Seq(Unambiguous) /\ \A i \in DOMAIN pairs : HasEquals(pairs[i])
  <2>1. /\ \A c \in ToSet(q) : c \in Escapes => ~ReadDifferently(c)
        /\ \A i \in DOMAIN pairs : HasEquals(pairs[i])
    BY DEF AwkwardQuery
  <2> QED BY <2>1, PlainQuery
<1>2. PICK i \in DOMAIN pairs : t = DecodedValue(ValueOf(pairs[i]))
  BY DEF TemplateValue
<1>3. pairs[i] \in Seq(Unambiguous) /\ HasEquals(pairs[i])
  <2>1. pairs \in Seq(Seq(Unambiguous))
    BY <1>1, PairsAreUnambiguous
  <2>2. HasEquals(pairs[i]) BY <1>1
  <2> HIDE DEF pairs
  <2>3. pairs[i] \in Seq(Unambiguous) BY <2>1
  <2> QED BY <2>2, <2>3
<1> DEFINE p == pairs[i]
<1> HIDE DEF pairs
<1>4. EqualsAt(p) \in 1 .. Len(p) /\ Len(p) \in Nat
  BY <1>3, EqualsIs
<1>5. ValueOf(p) \in Seq(Unambiguous)
  <2>1. EqualsAt(p) \in Nat /\ EqualsAt(p) <= Len(p) /\ Len(p) <= Len(p)
    BY <1>4
  <2>2. SubSeq(p, EqualsAt(p) + 1, Len(p)) \in Seq(Unambiguous)
    BY <1>3, <1>4, <2>1, SubSeqIs
  <2> QED BY <1>3, <2>2 DEF ValueOf
<1> QED BY <1>2, <1>5, DecodedIs

\* A placeholder of a query parameter shows the value its condition accepted.
LEMMA QueriesShow ==
  ASSUME NEW c, c.type = "query", ~c.any, NEW query, NEW path, NEW headers, NEW body,
         query = <<>> \/ query[1] \in Seq(STRING), ~AwkwardQuery(query),
         Holds(c, path, query, headers, body),
         NEW piece, piece.of = "query", piece.key = c.key
  PROVE  Rendered(<<piece>>, query, body) \in c.accepts
<1> DEFINE found == TemplateValue(query, c.key)
<1>1. query # <<>> /\ query[1] \in Seq(STRING)
  BY DEF AwkwardQuery
<1>2. WantedIn(ConditionValue(query, c.key), c) BY DEF Holds
<1>3. ConditionValue(query, c.key) = found /\ \A u, w \in found : u = w
  BY <1>1, BothReadersFind
<1>4. Resolved(piece, query, body) = found BY DEF Resolved
<1> HIDE DEF found
<1>5. PICK t \in found : t \in c.accepts
  BY <1>2, <1>3 DEF WantedIn
<1>6. found = {t} BY <1>3, <1>5
<1>7. t \in Seq(Meanings) BY <1>1, <1>5, ValueType DEF found
<1>8. piece.of # "text" OBVIOUS
<1> QED BY <1>4, <1>5, <1>6, <1>7, <1>8, OnePieceShows

\* A path that is not awkward has only plain parts.
LEMMA KeysArePlain ==
  ASSUME NEW key \in Seq(PathParts), ~AwkwardKey(key)
  PROVE  key \in Seq(PlainParts)
<1>1. ASSUME NEW i \in 1 .. Len(key) PROVE key[i] \in PlainParts
  <2> DEFINE p == key[i]
  <2>1. p \in PathParts /\ i \in DOMAIN key OBVIOUS
  <2>2. /\ ~(Len(p.indexes) > 1)
        /\ ToSet(p.indexes) \cap {Unclosed} = {}
        /\ ~(p.field = "" /\ p.indexes = <<>>)
    BY <2>1 DEF AwkwardKey
  <2> HIDE DEF p
  <2>3. p.indexes \in Seq(Int) /\ Len(p.indexes) \in Nat
    BY <2>1 DEF PathParts
  <2>4. \A j \in DOMAIN p.indexes : p.indexes[j] # Unclosed
    BY <2>2 DEF ToSet
  <2>5. Len(p.indexes) <= 1
    <3> DEFINE n == Len(p.indexes)
    <3>1. n \in Nat /\ ~(n > 1) BY <2>2, <2>3
    <3> HIDE DEF n
    <3>2. n <= 1 BY <3>1
    <3> QED BY <3>2 DEF n
  <2> QED BY <2>1, <2>2, <2>4, <2>5 DEF PlainParts, p
<1> QED BY <1>1, SeqWithin

\* A placeholder of a JSON path shows the value its condition accepted.
LEMMA BodiesShow ==
  ASSUME NEW c, c.type = "body", ~c.any, NEW query, NEW path, NEW headers, NEW v \in JsonValues,
         c.key \in Seq(PathParts), ~AwkwardKey(c.key), \A w \in c.accepts : w.type = "text",
         Holds(c, path, query, headers, <<v>>),
         NEW piece, piece.of = "body", piece.key = c.key
  PROVE  Rendered(<<piece>>, query, <<v>>) \in {<<w.text>> : w \in c.accepts}
<1> DEFINE found == GetByPath(v, c.key)
           Inline(w) == IF w.type = "null" THEN "null" ELSE w.text
<1>1. WantedIn(found, c) BY DEF Holds
<1>2. PathSteps(c.key) \in Seq(Steps) BY PathStepsAre
<1>3. found = {} \/ \E w : found = {w}
  <2>1. AreSteps(PathSteps(c.key)) BY <1>2, StepsAreSteps
  <2> DEFINE end == AtEnd(Way(v, PathSteps(c.key), Looks), PathSteps(c.key))
  <2>2. end = {} \/ \E w : end = {w} /\ IsValue(w)
    BY <2>1, ValuesAreClosed, EndIsOne
  <2>3. found = end BY DEF GetByPath, Looks
  <2> HIDE DEF end, found
  <2> QED BY <2>2, <2>3
<1>4. found = WalkedTo(v, c.key)
  BY KeysArePlain, BothWalksLead
<1> HIDE DEF found
<1>5. PICK w \in found : w \in c.accepts
  BY <1>1 DEF WantedIn
<1>6. found = {w} /\ w.type = "text" BY <1>3, <1>5
<1>7. WalkJson(v, c.key) = {w.text}
  <2>1. WalkJson(v, c.key) = {Inline(u) : u \in {x \in found : x.type \in {"text", "null"}}}
    BY <1>4 DEF WalkJson
  <2>2. {x \in found : x.type \in {"text", "null"}} = {w}
    BY <1>6
  <2>3. Inline(w) = w.text BY <1>6
  <2> HIDE DEF Inline
  <2> QED BY <2>1, <2>2, <2>3
<1>8. Resolved(piece, query, <<v>>) = {<<w.text>>}
  <2>1. <<v>> # <<>> /\ <<v>>[1] = v OBVIOUS
  <2>2. Resolved(piece, query, <<v>>) = {<<t>> : t \in WalkJson(v, c.key)}
    BY <2>1 DEF Resolved
  <2> QED BY <1>7, <2>2
<1> DEFINE t == <<w.text>>
           body == <<v>>
<1>9. t \in Seq({w.text}) /\ piece.of # "text" /\ Resolved(piece, query, body) = {t}
  BY <1>8
<1> HIDE DEF t, body
<1>10. Rendered(<<piece>>, query, body) = t
  BY <1>9, OnePieceShows
<1> QED BY <1>5, <1>10 DEF t, body

\* A mock that is about to answer is one whose conditions hold.
Sleeping ==
  stage = "sleeping" =>
    /\ chosen # 0
    /\ AllHold(Location.conditions, request.path, request.query, request.headers, <<>>)

LEMMA InitSleeping == ASSUME Init PROVE Sleeping
BY DEF Init, Sleeping

LEMMA NextSleeping == ASSUME Given, Sleeping, [Next]_vars PROVE Sleeping'
<1>1. CASE UNCHANGED vars
  BY <1>1 DEF vars, staticVars, Sleeping, Location
<1>2. CASE Routes
  <2> SUFFICES ASSUME stage' = "sleeping"
               PROVE  /\ chosen' # 0
                      /\ AllHold(engine.locations[chosen'].conditions, request.path, request.query,
                                 request.headers, <<>>)
    BY <1>2 DEF Routes, Sleeping, Location
  <2>1. chosen' = Chosen(engine, request) /\ engine' = engine
    BY <1>2 DEF Routes
  <2>2. chosen' # 0 /\ Location'.provider = "mock"
    BY <1>2 DEF Routes, Asks
  <2>3. engine.locations[chosen'].provider = "mock"
    BY <2>1, <2>2 DEF Location
  <2> QED BY <2>1, <2>2, <2>3, ChosenIsALocation
<1>3. CASE Serves
  <2>1. stage' # "sleeping"
    BY <1>3 DEF Serves, StaticSteps, Resolves, Checks, Sizes, Reads, ReadsRange, Rearranges, Replies
  <2> QED BY <2>1 DEF Sleeping
<1>4. CASE Mocks \/ Rewrites \/ RewriteFails
  <2>1. stage' # "sleeping"
    BY <1>4 DEF Mocks, Rewrites, RewriteFails, Replies
  <2> QED BY <2>1 DEF Sleeping
<1>5. ASSUME \/ \E actions \in Transforms : TransformsHeaders(actions)
             \/ \E mapping \in Mappings : MapsPath(mapping)
             \/ \E service \in Services : AnswersMock(service)
             \/ \E rule \in Rules : AppliesRule(rule)
      PROVE  Sleeping'
  <2>1. stage' # "sleeping"
    BY <1>5 DEF TransformsHeaders, MapsPath, AnswersMock, AppliesRule, Calls
  <2> QED BY <2>1 DEF Sleeping
<1> QED BY <1>1, <1>2, <1>3, <1>4, <1>5 DEF Next

\* What a condition and a template with its key have in common.
Pair(c, template, query) ==
  /\ ~c.any /\ c.type \in {"query", "body"}
  /\ template = <<template[1]>>
  /\ template[1].of = c.type
  /\ template[1].key = c.key
  /\ c.type = "query" => ~AwkwardQuery(query)
  /\ c.type = "body" => ~AwkwardKey(c.key) /\ \A w \in c.accepts : w.type = "text"

LEMMA ShowsIs ==
  ASSUME NEW conditions, NEW template, NEW query, NEW bytes,
         \A c \in conditions : Pair(c, template, query) =>
           bytes \in (IF c.type = "query" THEN c.accepts ELSE {<<w.text>> : w \in c.accepts})
  PROVE  ShowsWhatWasAskedFor(conditions, template, query, bytes)
<1> SUFFICES ASSUME NEW c \in conditions, ~c.any, c.type \in {"query", "body"},
                    NEW i \in DOMAIN template, template = <<template[i]>>,
                    template[i].of = c.type, template[i].key = c.key,
                    c.type = "query" => ~AwkwardQuery(query),
                    c.type = "body" => ~AwkwardKey(c.key) /\ \A w \in c.accepts : w.type = "text"
             PROVE  bytes \in (IF c.type = "query" THEN c.accepts ELSE {<<w.text>> : w \in c.accepts})
  BY DEF ShowsWhatWasAskedFor
<1>1. DOMAIN <<template[i]>> = {1} OBVIOUS
<1>2. i = 1 BY <1>1
<1> QED BY <1>2 DEF Pair

LEMMA QueryIsAText == ASSUME Given PROVE request.query = <<>> \/ request.query[1] \in Seq(STRING)
BY ConditionsAssumption DEF Given

LEMMA MocksShow ==
  ASSUME Given, Sleeping, Mocks, reply'.status = "mock", Location.response.type = "template"
  PROVE  ShowsWhatWasAskedFor(Location.conditions, Location.response.template, request.query, reply'.bytes)
<1> DEFINE template == Location.response.template
<1>1. reply'.bytes = Rendered(template, request.query, <<>>)
  <2>1. Location.response.proper
    <3>1. ASSUME ~Location.response.proper PROVE FALSE
      <4>1. reply' = Says("error")
        BY <3>1 DEF Mocks, Replies
      <4> QED BY <4>1, SaysStatus
    <3> QED BY <3>1
  <2>2. reply' = [Says("mock") EXCEPT !.bytes = EngineMockBody(Location.response, request.query),
                                      !.length = Len(EngineMockBody(Location.response, request.query))]
    BY <2>1 DEF Mocks, Replies
  <2>3. reply'.bytes = EngineMockBody(Location.response, request.query)
    BY <2>2 DEF Says, NoReply
  <2> QED BY <2>3 DEF EngineMockBody
<1>2. \A c \in Location.conditions : Holds(c, request.path, request.query, request.headers, <<>>)
  BY DEF Mocks, Sleeping, AllHold
<1>3. ASSUME NEW c \in Location.conditions, Pair(c, template, request.query)
      PROVE  reply'.bytes \in (IF c.type = "query" THEN c.accepts ELSE {<<w.text>> : w \in c.accepts})
  <2>1. Holds(c, request.path, request.query, request.headers, <<>>)
    BY <1>2
  <2>2. c.type # "body" BY <2>1 DEF Holds
  <2>3. c.type = "query" /\ ~c.any /\ ~AwkwardQuery(request.query)
        /\ template = <<template[1]>> /\ template[1].of = "query" /\ template[1].key = c.key
    BY <1>3, <2>2 DEF Pair
  <2> DEFINE piece == template[1]
  <2>4. Rendered(<<piece>>, request.query, <<>>) \in c.accepts
    <3>1. piece.of = "query" /\ piece.key = c.key BY <2>3
    <3> HIDE DEF piece
    <3> QED BY <2>1, <2>3, <3>1, QueryIsAText, QueriesShow
  <2> HIDE DEF template
  <2> QED BY <1>1, <2>3, <2>4
<1> QED BY <1>3, ShowsIs

LEMMA RulesShow ==
  ASSUME Given, NEW rule \in Rules, AppliesRule(rule)
  PROVE  ShowsWhatWasAskedFor(rule.conditions, rule.template, request.query, reply'.bytes)
<1> DEFINE v == request.body.value
           template == rule.template
<1>1. reply'.bytes = Rendered(template, request.query, <<v>>)
  BY DEF AppliesRule, Says, NoReply
<1>2. /\ \A c \in rule.conditions : Holds(c, request.path, request.query, request.headers, <<v>>)
      /\ request.body.type = "json"
  BY DEF AppliesRule, AllHold
<1>3. v \in JsonValues BY <1>2, JsonAssumption DEF Given
<1> HIDE DEF v
<1>4. ASSUME NEW c \in rule.conditions, Pair(c, template, request.query)
      PROVE  reply'.bytes \in (IF c.type = "query" THEN c.accepts ELSE {<<w.text>> : w \in c.accepts})
  <2>1. Holds(c, request.path, request.query, request.headers, <<v>>)
    BY <1>2
  <2> DEFINE piece == template[1]
  <2>2. template = <<piece>> /\ piece.of = c.type /\ piece.key = c.key /\ ~c.any /\ c.type \in {"query", "body"}
    BY <1>4 DEF Pair
  <2> HIDE DEF piece
  <2>3. CASE c.type = "query"
    <3>1. ~AwkwardQuery(request.query)
      BY <1>4, <2>3 DEF Pair
    <3>2. Rendered(<<piece>>, request.query, <<v>>) \in c.accepts
      BY <2>1, <2>2, <2>3, <3>1, QueryIsAText, QueriesShow
    <3> QED BY <1>1, <2>2, <2>3, <3>2
  <2>4. CASE c.type = "body"
    <3>1. ~AwkwardKey(c.key) /\ \A w \in c.accepts : w.type = "text"
      BY <1>4, <2>4 DEF Pair
    <3>2. c.key \in Seq(PathParts)
      BY <2>4, ConditionsAssumption
    <3>3. Rendered(<<piece>>, request.query, <<v>>) \in {<<w.text>> : w \in c.accepts}
      BY <1>3, <2>1, <2>2, <2>4, <3>1, <3>2, BodiesShow
    <3> QED BY <1>1, <2>2, <2>4, <3>3
  <2> QED BY <2>2, <2>3, <2>4
<1> QED BY <1>4, ShowsIs

\* A template's placeholder shows the value that the condition on the same query
\* parameter or JSON path accepted (matches_query and query_param, get_value_by_path and
\* walk_json), unless the query or the path is awkward.
THEOREM TemplatesShowWhatConditionsAccept == Spec => MocksShowWhatTheyAskedFor
<1>1. ASSUME Given, Sleeping, [Next]_vars
      PROVE  [/\ Mocks /\ reply'.status = "mock" /\ Location.response.type = "template" =>
                   ShowsWhatWasAskedFor(Location.conditions, Location.response.template,
                                        request.query, reply'.bytes)
              /\ \A rule \in Rules : AppliesRule(rule) =>
                   ShowsWhatWasAskedFor(rule.conditions, rule.template, request.query, reply'.bytes)]_vars
  BY <1>1, MocksShow, RulesShow
<1> QED BY <1>1, InitGiven, NextGiven, InitSleeping, NextSleeping, PTL DEF Spec, MocksShowWhatTheyAskedFor

-----------------------------------------------------------------------------
(* A path by its names.                                                     *)

\* Induction over texts from their end on.
LEMMA FrontInduction ==
  ASSUME NEW C, NEW T, <<>> \in T, \A t \in Seq(C) : \A c \in C : t \in T => <<c>> \o t \in T
  PROVE  Seq(C) \subseteq T
<1> DEFINE S == {n \in Nat : \A t \in Seq(C) : Len(t) = n => t \in T}
<1>1. 0 \in S OBVIOUS
<1>2. ASSUME NEW n \in Nat, n \in S PROVE n + 1 \in S
  <2> SUFFICES ASSUME NEW t \in Seq(C), Len(t) = n + 1 PROVE t \in T
    OBVIOUS
  <2> DEFINE s == Tail(t)
  <2>1. s \in Seq(C) /\ Len(s) = n /\ t[1] \in C /\ t = <<t[1]>> \o s
    OBVIOUS
  <2>2. s \in T BY <1>2, <2>1
  <2> HIDE DEF s
  <2> QED BY <2>1, <2>2
<1> HIDE DEF S
<1>3. Nat \subseteq S BY <1>1, <1>2, Induction
<1> QED BY <1>3 DEF S

\* A text is one part, or a part, a separator and a text.
PartedAt(u, C, at) ==
  \/ u \in Seq(C \ {at})
  \/ at \in C /\ \E a \in Seq(C \ {at}) : \E v \in Seq(C) : u = Append(a, at) \o v

LEMMA TextIsParted ==
  ASSUME NEW C, NEW at
  PROVE  \A u \in Seq(C) : PartedAt(u, C, at)
<1> DEFINE D == C \ {at}
           T == {u \in Seq(C) : PartedAt(u, C, at)}
<1>1. <<>> \in T
  <2>1. <<>> \in Seq(C) /\ <<>> \in Seq(D) OBVIOUS
  <2> QED BY <2>1 DEF PartedAt
<1>2. ASSUME NEW u \in Seq(C), NEW c \in C, u \in T PROVE Append(u, c) \in T
  <2>1. Append(u, c) \in Seq(C) OBVIOUS
  <2>2. CASE u \in Seq(D)
    <3>1. CASE c = at
      <4>1. Append(u, c) = Append(u, at) \o <<>> /\ <<>> \in Seq(C)
        BY <3>1
      <4> QED BY <2>1, <2>2, <3>1, <4>1 DEF PartedAt
    <3>2. CASE c # at
      <4>1. Append(u, c) \in Seq(D) BY <2>2, <3>2
      <4> QED BY <2>1, <4>1 DEF PartedAt
    <3> QED BY <3>1, <3>2
  <2>3. CASE at \in C /\ \E a \in Seq(D) : \E v \in Seq(C) : u = Append(a, at) \o v
    <3>1. PICK a \in Seq(D), v \in Seq(C) : u = Append(a, at) \o v
      BY <2>3
    <3>2. Append(v, c) \in Seq(C) /\ Append(a, at) \in Seq(C)
      BY <2>3
    <3>3. AppendsBehind(Append(a, at), v, c)
      BY <3>2, AppendBehind
    <3>4. Append(u, c) = Append(a, at) \o Append(v, c)
      BY <3>1, <3>3 DEF AppendsBehind
    <3> QED BY <2>1, <2>3, <3>2, <3>4 DEF PartedAt
  <2> QED BY <1>2, <2>2, <2>3 DEF PartedAt
<1> HIDE DEF T
<1>3. Seq(C) \subseteq T BY <1>1, <1>2, TextInduction
<1> QED BY <1>3 DEF T

Line == Seq(STRING)
Name == Seq(STRING \ {"/"})
WithMore(name, more) == Append(name, "/") \o more

LEMMA NamesAreLines == Name \subseteq Line
BY DEF Name, Line

LEMMA FirstOfMore ==
  ASSUME NEW E, NEW a \in E, NEW q \in Seq(E)
  PROVE  /\ <<a>> \o q \in Seq(E)
         /\ Len(<<a>> \o q) = Len(q) + 1
         /\ (<<a>> \o q)[1] = a
         /\ \A i \in 1 .. Len(q) : (<<a>> \o q)[i + 1] = q[i]
OBVIOUS

LEMMA SegmentsType ==
  ASSUME NEW u \in Line
  PROVE  Segments(u) \in Seq(Name) /\ Segments(u) # <<>> /\ Len(Segments(u)) \in Nat
         /\ Len(Segments(u)) >= 1
<1>1. Segments(u) \in Seq(Seq(STRING \ {"/"})) /\ Segments(u) # <<>>
  BY SplitType DEF Segments, Line
<1> DEFINE parts == Segments(u)
<1>2. parts \in Seq(Name) /\ parts # <<>> BY <1>1 DEF Name
<1> HIDE DEF parts
<1>3. Len(parts) \in Nat /\ Len(parts) >= 1 BY <1>2
<1> QED BY <1>2, <1>3 DEF parts

LEMMA OneName ==
  ASSUME NEW a \in Name
  PROVE  Segments(a) = <<a>>
<1> DEFINE none == << <<>> >>
           empty == <<>>
<1>1. Split(empty, "/") = none BY SplitNothing
<1>2. empty \in Seq(STRING) /\ empty \o a = a /\ a \in Seq(STRING \ {"/"})
  BY DEF Name
<1>3. Len(none) = 1 /\ none[1] = empty OBVIOUS
<1>4. LastAs(none, a) = <<a>> BY DEF LastAs
<1> HIDE DEF none, empty
<1>5. \A u \in Seq(STRING \ {"/"}) :
        Split(empty \o u, "/") = LastAs(Split(empty, "/"), Split(empty, "/")[Len(Split(empty, "/"))] \o u)
  BY <1>2, SplitAlongPart
<1>6. Split(empty \o a, "/") = LastAs(Split(empty, "/"), Split(empty, "/")[Len(Split(empty, "/"))] \o a)
  BY <1>2, <1>5
<1> QED BY <1>1, <1>2, <1>3, <1>4, <1>6 DEF Segments

LEMMA SegmentsOfMore ==
  ASSUME "/" \in STRING, NEW a \in Name, NEW q \in Line
  PROVE  WithMore(a, q) \in Line /\ Segments(WithMore(a, q)) = <<a>> \o Segments(q)
<1>1. a \in Seq(STRING) /\ q \in Seq(STRING)
  BY DEF Name, Line
<1>2. Split(Append(a, "/") \o q, "/") = Split(a, "/") \o Split(q, "/")
  BY <1>1, SplitAtSeparator
<1>3. Append(a, "/") \o q \in Seq(STRING) BY <1>1
<1> QED BY <1>2, <1>3, OneName DEF WithMore, Line, Segments

LEMMA NoSlashAtTheEnd ==
  ASSUME NEW a \in Name
  PROVE  ~EndsInSlash(a)
BY DEF Name, EndsInSlash

LEMMA SlashAtTheEnd ==
  ASSUME "/" \in STRING, NEW a \in Line, NEW q \in Line
  PROVE  /\ WithMore(a, q) # <<>>
         /\ EndsInSlash(WithMore(a, q)) <=> q = <<>> \/ EndsInSlash(q)
<1> DEFINE p == Append(a, "/")
           all == p \o q
<1>1. p \in Seq(STRING) /\ Len(p) = Len(a) + 1 /\ Len(a) \in Nat /\ p[Len(p)] = "/" /\ q \in Seq(STRING)
  BY DEF Line
<1> HIDE DEF p
<1>2. all \in Seq(STRING) /\ Joins(all, p, q)
  BY <1>1, ConcatIs
<1> HIDE DEF all
<1>3. Len(q) \in Nat /\ Len(all) = Len(p) + Len(q) /\ all # <<>>
  BY <1>1, <1>2 DEF Joins
<1>4. CASE q = <<>>
  <2>1. Len(q) = 0 /\ Len(p) \in 1 .. Len(p) BY <1>1, <1>4
  <2>2. all[Len(all)] = "/"
    BY <1>1, <1>2, <1>3, <2>1 DEF Joins
  <2> QED BY <1>3, <1>4, <2>2 DEF EndsInSlash, WithMore, all, p
<1>5. CASE q # <<>>
  <2>1. Len(q) \in 1 .. Len(q) BY <1>1, <1>5
  <2>2. all[Len(all)] = q[Len(q)]
    BY <1>2, <1>3, <2>1 DEF Joins
  <2> QED BY <1>3, <1>5, <2>2 DEF EndsInSlash, WithMore, all, p
<1> QED BY <1>4, <1>5

\* A text is a name, or a name and more.
LEMMA LineIsNamed ==
  ASSUME NEW u \in Line
  PROVE  u \in Name \/ ("/" \in STRING /\ \E a \in Name : \E v \in Line : u = WithMore(a, v))
<1>1. PartedAt(u, STRING, "/") BY TextIsParted DEF Line
<1> QED BY <1>1 DEF PartedAt, Name, Line, WithMore

\* What is left of a path from some place on fits what is left of a pattern: nothing
\* does if the pattern is to take it all, and anything if it is not.
StillFits(p, u, wholly) ==
  IF p = <<>> THEN wholly => u = <<>>
  ELSE /\ FitsNames(p, u)
       /\ wholly => /\ Len(Segments(u)) = Len(Segments(p))
                    /\ EndsInSlash(p) => EndsInSlash(u)

LEMMA OnePartIsAName ==
  ASSUME NEW u \in Line, Len(Segments(u)) = 1
  PROVE  u \in Name
<1> SUFFICES ASSUME u \notin Name PROVE FALSE
  OBVIOUS
<1>1. PICK a \in Name, v \in Line : "/" \in STRING /\ u = WithMore(a, v)
  BY LineIsNamed
<1>2. Segments(u) = <<a>> \o Segments(v)
  BY <1>1, SegmentsOfMore
<1>3. Segments(v) \in Seq(Name) /\ Len(Segments(v)) \in Nat /\ Len(Segments(v)) >= 1
  BY SegmentsType
<1>4. Len(<<a>> \o Segments(v)) = Len(Segments(v)) + 1
  BY <1>3, FirstOfMore
<1> QED BY <1>2, <1>3, <1>4

\* A name of a pattern and more of it fit a name of a path and more of that.
LEMMA FitsByNames ==
  ASSUME "/" \in STRING, NEW a \in Name, NEW q \in Line, NEW b \in Name, NEW v \in Line,
         NEW wholly \in BOOLEAN
  PROVE  StillFits(WithMore(a, q), WithMore(b, v), wholly) <=> Fits(a, b) /\ StillFits(q, v, wholly)
<1> DEFINE p == WithMore(a, q)
           u == WithMore(b, v)
           P == Segments(p)
           U == Segments(u)
           Q == Segments(q)
           V == Segments(v)
<1>1. /\ p \in Line /\ p # <<>> /\ (EndsInSlash(p) <=> q = <<>> \/ EndsInSlash(q))
      /\ u \in Line /\ u # <<>> /\ (EndsInSlash(u) <=> v = <<>> \/ EndsInSlash(v))
  BY SegmentsOfMore, SlashAtTheEnd, NamesAreLines
<1>2. P = <<a>> \o Q /\ U = <<b>> \o V BY SegmentsOfMore
<1>3. /\ Q \in Seq(Name) /\ Len(Q) \in Nat /\ Len(Q) >= 1
      /\ V \in Seq(Name) /\ Len(V) \in Nat /\ Len(V) >= 1
  BY SegmentsType
<1>4. Len(P) = Len(Q) + 1 /\ P[1] = a /\ \A i \in 1 .. Len(Q) : P[i + 1] = Q[i]
  BY <1>2, <1>3, FirstOfMore
<1>5. Len(U) = Len(V) + 1 /\ U[1] = b /\ \A i \in 1 .. Len(V) : U[i + 1] = V[i]
  BY <1>2, <1>3, FirstOfMore
<1>6. StillFits(p, u, wholly) <=>
        /\ FitsNames(p, u)
        /\ wholly => Len(U) = Len(P) /\ (EndsInSlash(p) => EndsInSlash(u))
  BY <1>1 DEF StillFits
<1>7. FitsNames(p, u) <=> Len(U) >= Len(P) /\ \A i \in 1 .. Width(p) : Fits(P[i], U[i])
  BY DEF FitsNames
<1>8. Width(p) = Len(P) - (IF EndsInSlash(p) THEN 1 ELSE 0)
  BY DEF Width
<1>9. CASE q = <<>>
  <2>1. Len(Q) = 1
    <3>1. Split(<<>>, "/") = << <<>> >> BY SplitNothing
    <3> QED BY <1>9, <3>1 DEF Segments
  <2>2. Width(p) = 1 BY <1>1, <1>3, <1>4, <1>8, <1>9, <2>1
  <2>3. FitsNames(p, u) <=> Fits(a, b)
    <3>1. \A i \in 1 .. 1 : i = 1 OBVIOUS
    <3>2. Len(U) >= Len(P) /\ 1 \in 1 .. 1
      BY <1>3, <1>4, <1>5, <2>1
    <3> HIDE DEF p, u, P, U, Q, V
    <3> QED BY <1>4, <1>5, <1>7, <2>2, <3>1, <3>2
  <2>4. Len(U) = Len(P) /\ EndsInSlash(u) <=> v = <<>>
    <3>1. ASSUME Len(U) = Len(P), EndsInSlash(u) PROVE v = <<>>
      <4>1. Len(V) = 1
        <5>1. Len(P) = 2 BY <1>4, <2>1
        <5>2. Len(U) = 2 BY <3>1, <5>1
        <5>3. Len(V) + 1 = 2 /\ Len(V) \in Nat
          BY <1>3, <1>5, <5>2
        <5> DEFINE n == Len(V)
        <5>4. n + 1 = 2 /\ n \in Nat BY <5>3
        <5> HIDE DEF n
        <5>5. n = 1 BY <5>4
        <5> QED BY <5>5 DEF n
      <4>2. ~EndsInSlash(v)
        BY <4>1, OnePartIsAName, NoSlashAtTheEnd
      <4> QED BY <1>1, <3>1, <4>2
    <3>2. ASSUME v = <<>> PROVE Len(U) = Len(P) /\ EndsInSlash(u)
      BY <1>1, <1>2, <1>9, <3>2
    <3> QED BY <3>1, <3>2
  <2> HIDE DEF p, u, P, U, Q, V
  <2> QED BY <1>1, <1>6, <1>9, <2>3, <2>4 DEF StillFits, p, u
<1>10. CASE q # <<>>
  <2>1. StillFits(q, v, wholly) <=>
          /\ FitsNames(q, v)
          /\ wholly => Len(V) = Len(Q) /\ (EndsInSlash(q) => EndsInSlash(v))
    BY <1>10 DEF StillFits
  <2>2. FitsNames(q, v) <=> Len(V) >= Len(Q) /\ \A i \in 1 .. Width(q) : Fits(Q[i], V[i])
    BY DEF FitsNames
  <2>3. Width(p) = Width(q) + 1 /\ Width(q) \in Nat /\ Width(q) <= Len(Q)
    <3>1. Width(q) = Len(Q) - (IF EndsInSlash(q) THEN 1 ELSE 0)
      BY DEF Width
    <3> HIDE DEF p, u, P, U, Q, V
    <3> QED BY <1>1, <1>3, <1>4, <1>8, <1>10, <3>1
  <2>4. Len(U) >= Len(P) <=> Len(V) >= Len(Q)
    BY <1>3, <1>4, <1>5
  <2>5. Len(U) = Len(P) <=> Len(V) = Len(Q)
    BY <1>3, <1>4, <1>5
  <2>6. ASSUME EndsInSlash(q), Len(V) = Len(Q) PROVE v # <<>>
    <3> SUFFICES ASSUME v = <<>> PROVE FALSE
      OBVIOUS
    <3>1. Len(V) = 1
      <4>1. Split(<<>>, "/") = << <<>> >> BY SplitNothing
      <4>2. V = << <<>> >> BY <4>1 DEF Segments
      <4> QED BY <4>2
    <3>2. Len(Q) = 1 BY <2>6, <3>1
    <3>3. ~EndsInSlash(q)
      BY <3>2, OnePartIsAName, NoSlashAtTheEnd
    <3> QED BY <2>6, <3>3
  <2> HIDE DEF p, u, P, U, Q, V
  <2>7. ASSUME Len(V) >= Len(Q)
        PROVE  (\A i \in 1 .. Width(p) : Fits(P[i], U[i])) <=>
                 Fits(a, b) /\ \A i \in 1 .. Width(q) : Fits(Q[i], V[i])
    <3>1. ASSUME \A i \in 1 .. Width(p) : Fits(P[i], U[i])
          PROVE  Fits(a, b) /\ \A i \in 1 .. Width(q) : Fits(Q[i], V[i])
      <4>1. 1 \in 1 .. Width(p) BY <2>3
      <4>2. Fits(a, b) BY <1>4, <1>5, <3>1, <4>1
      <4>3. ASSUME NEW i \in 1 .. Width(q) PROVE Fits(Q[i], V[i])
        <5>1. i + 1 \in 1 .. Width(p) /\ i \in 1 .. Len(Q) /\ i \in 1 .. Len(V)
          BY <1>3, <2>3, <2>7
        <5>2. Fits(P[i + 1], U[i + 1]) BY <3>1, <5>1
        <5> QED BY <1>4, <1>5, <5>1, <5>2
      <4> QED BY <4>2, <4>3
    <3>2. ASSUME Fits(a, b), \A i \in 1 .. Width(q) : Fits(Q[i], V[i]), NEW i \in 1 .. Width(p)
          PROVE  Fits(P[i], U[i])
      <4>1. CASE i = 1 BY <1>4, <1>5, <3>2, <4>1
      <4>2. CASE i # 1
        <5> DEFINE j == i - 1
        <5>1. j \in 1 .. Width(q) /\ j + 1 = i /\ j \in 1 .. Len(Q) /\ j \in 1 .. Len(V)
          BY <1>3, <2>3, <2>7, <4>2
        <5> HIDE DEF j
        <5>2. Fits(Q[j], V[j]) BY <3>2, <5>1
        <5>3. P[j + 1] = Q[j] /\ U[j + 1] = V[j]
          BY <1>4, <1>5, <5>1
        <5> QED BY <5>1, <5>2, <5>3
      <4> QED BY <4>1, <4>2
    <3> QED BY <3>1, <3>2
  <2>8. FitsNames(p, u) <=> Fits(a, b) /\ FitsNames(q, v)
    BY <1>7, <2>2, <2>4, <2>7
  <2>9. Len(V) = Len(Q) => ((EndsInSlash(p) => EndsInSlash(u)) <=> (EndsInSlash(q) => EndsInSlash(v)))
    BY <1>1, <1>10, <2>6
  <2> QED BY <1>6, <2>1, <2>5, <2>8, <2>9 DEF p, u
<1> QED BY <1>9, <1>10

LEMMA FitsNotByOne ==
  ASSUME "/" \in STRING, NEW a \in Name, NEW q \in Line, NEW b \in Name, NEW wholly \in BOOLEAN
  PROVE  ~StillFits(WithMore(a, q), b, wholly)
<1> DEFINE p == WithMore(a, q)
<1>1. p # <<>> /\ Segments(p) = <<a>> \o Segments(q)
  BY SegmentsOfMore, SlashAtTheEnd, NamesAreLines
<1>2. Segments(q) \in Seq(Name) /\ Len(Segments(q)) \in Nat /\ Len(Segments(q)) >= 1
  BY SegmentsType
<1>3. Len(Segments(p)) = Len(Segments(q)) + 1
  BY <1>1, <1>2, FirstOfMore
<1>4. Len(Segments(b)) = 1 BY OneName
<1> HIDE DEF p
<1>5. ~FitsNames(p, b) BY <1>2, <1>3, <1>4 DEF FitsNames
<1> QED BY <1>1, <1>5 DEF StillFits, p

\* The last name of a pattern fits the last one of a path, or any if it is not to take all.
LEMMA FitsByTheLast ==
  ASSUME NEW a \in Name, a # <<>>, NEW b \in Name, NEW wholly \in BOOLEAN
  PROVE  /\ StillFits(a, b, wholly) <=> Fits(a, b)
         /\ "/" \in STRING => \A v \in Line : StillFits(a, WithMore(b, v), wholly) <=> ~wholly /\ Fits(a, b)
<1>1. ~EndsInSlash(a) /\ Segments(a) = <<a>> /\ Segments(b) = <<b>> /\ Width(a) = 1
  BY NoSlashAtTheEnd, OneName DEF Width
<1>2. FitsNames(a, b) <=> Fits(a, b)
  <2>1. Len(Segments(a)) = 1 /\ Segments(a)[1] = a /\ Len(Segments(b)) = 1 /\ Segments(b)[1] = b
    BY <1>1
  <2>2. \A i \in 1 .. 1 : i = 1 OBVIOUS
  <2> QED BY <1>1, <2>1, <2>2 DEF FitsNames
<1>3. StillFits(a, b, wholly) <=> Fits(a, b)
  BY <1>1, <1>2 DEF StillFits
<1>4. ASSUME "/" \in STRING, NEW v \in Line
      PROVE  StillFits(a, WithMore(b, v), wholly) <=> ~wholly /\ Fits(a, b)
  <2> DEFINE u == WithMore(b, v)
             U == Segments(u)
             V == Segments(v)
  <2>1. U = <<b>> \o V BY <1>4, SegmentsOfMore
  <2>2. V \in Seq(Name) /\ Len(V) \in Nat /\ Len(V) >= 1
    BY SegmentsType
  <2>3. Len(U) = Len(V) + 1 /\ U[1] = b
    BY <2>1, <2>2, FirstOfMore
  <2>4. Len(Segments(a)) = 1 /\ Segments(a)[1] = a BY <1>1
  <2> HIDE DEF u, U, V
  <2>5. FitsNames(a, u) <=> Fits(a, b)
    <3>1. \A i \in 1 .. 1 : i = 1 OBVIOUS
    <3>2. FitsNames(a, u) <=> Len(U) >= 1 /\ \A i \in 1 .. 1 : Fits(Segments(a)[i], U[i])
      BY <1>1, <2>4 DEF FitsNames, U
    <3> QED BY <2>2, <2>3, <2>4, <3>1, <3>2
  <2>6. Len(U) # 1 BY <2>2, <2>3
  <2> QED BY <1>1, <2>4, <2>5, <2>6 DEF StillFits, u, U
<1> QED BY <1>3, <1>4

LEMMA ConcatAssociates ==
  ASSUME NEW E, NEW p \in Seq(E), NEW q \in Seq(E), NEW r \in Seq(E)
  PROVE  (p \o q) \o r = p \o (q \o r)
<1> DEFINE pq == p \o q
           qr == q \o r
           s == pq \o r
           t == p \o qr
<1>1. pq \in Seq(E) /\ Joins(pq, p, q) /\ qr \in Seq(E) /\ Joins(qr, q, r)
  BY ConcatIs
<1> HIDE DEF pq, qr
<1>2. s \in Seq(E) /\ Joins(s, pq, r) /\ t \in Seq(E) /\ Joins(t, p, qr)
  BY <1>1, ConcatIs
<1> HIDE DEF s, t
<1>3. Len(p) \in Nat /\ Len(q) \in Nat /\ Len(r) \in Nat
  OBVIOUS
<1>4. Len(pq) = Len(p) + Len(q) /\ Len(qr) = Len(q) + Len(r) /\ Len(s) = Len(p) + Len(q) + Len(r)
      /\ Len(t) = Len(s)
  BY <1>1, <1>2, <1>3 DEF Joins
<1>5. ASSUME NEW i \in 1 .. Len(s) PROVE s[i] = t[i]
  <2>1. CASE i <= Len(p)
    <3>1. i \in 1 .. Len(p) /\ i \in 1 .. Len(pq)
      BY <1>3, <1>4, <2>1
    <3> QED BY <1>1, <1>2, <3>1 DEF Joins
  <2>2. CASE i > Len(p) /\ i <= Len(pq)
    <3> DEFINE j == i - Len(p)
    <3>1. j \in 1 .. Len(q) /\ j \in 1 .. Len(qr) /\ Len(p) + j = i /\ i \in 1 .. Len(pq)
      BY <1>3, <1>4, <2>2
    <3> HIDE DEF j
    <3>2. s[i] = pq[i] /\ pq[Len(p) + j] = q[j] /\ t[Len(p) + j] = qr[j] /\ qr[j] = q[j]
      BY <1>1, <1>2, <3>1 DEF Joins
    <3> QED BY <3>1, <3>2
  <2>3. CASE i > Len(pq)
    <3> DEFINE j == i - Len(pq)
               k == i - Len(p)
    <3>1. j \in 1 .. Len(r) /\ k \in 1 .. Len(qr) /\ Len(p) + k = i /\ Len(pq) + j = i /\ Len(q) + j = k
      BY <1>3, <1>4, <2>3
    <3> HIDE DEF j, k
    <3>2. s[Len(pq) + j] = r[j] /\ t[Len(p) + k] = qr[k] /\ qr[Len(q) + j] = r[j]
      BY <1>1, <1>2, <3>1 DEF Joins
    <3> QED BY <3>1, <3>2
  <2> QED BY <1>3, <1>4, <2>1, <2>2, <2>3
<1>6. Agree(s, t, Len(s)) BY <1>5 DEF Agree
<1>7. s = t BY <1>2, <1>4, <1>6, SameSequence
<1> QED BY <1>7 DEF s, t, pq, qr

LEMMA BehindAName ==
  ASSUME "/" \in STRING, NEW a \in Line, NEW b \in Line, NEW q \in Line
  PROVE  a \o WithMore(b, q) = WithMore(a \o b, q)
<1>1. a \in Seq(STRING) /\ b \in Seq(STRING) /\ q \in Seq(STRING) /\ Append(b, "/") \in Seq(STRING)
  BY DEF Line
<1>2. (a \o Append(b, "/")) \o q = a \o (Append(b, "/") \o q)
  <2> DEFINE s == Append(b, "/")
  <2>1. s \in Seq(STRING) BY <1>1
  <2> HIDE DEF s
  <2>2. (a \o s) \o q = a \o (s \o q)
    BY <1>1, <2>1, ConcatAssociates
  <2> QED BY <2>2 DEF s
<1>3. AppendsBehind(a, b, "/") BY <1>1, AppendBehind
<1> QED BY <1>2, <1>3 DEF AppendsBehind, WithMore

LEMMA SlashFirst ==
  ASSUME NEW q \in Line
  PROVE  WithMore(<<>>, q) = <<"/">> \o q
<1>1. Append(<<>>, "/") = <<"/">> OBVIOUS
<1> QED BY <1>1 DEF WithMore

LEMMA EmptyIsAName == <<>> \in Name /\ <<>> \in Line
BY DEF Name, Line

LEMMA LongerName ==
  ASSUME NEW a \in Name, NEW b \in Name
  PROVE  a \o b \in Name /\ a \o b \in Line /\ (a # <<>> => a \o b # <<>>)
<1> DEFINE D == STRING \ {"/"}
<1>1. a \in Seq(D) /\ b \in Seq(D) BY DEF Name
<1> HIDE DEF D
<1>2. a \o b \in Seq(D) /\ Joins(a \o b, a, b)
  BY <1>1, ConcatIs
<1>3. a # <<>> => Len(a \o b) # 0 BY <1>1, <1>2 DEF Joins
<1>4. a \o b \in Name BY <1>2 DEF D, Name
<1> QED BY <1>3, <1>4, NamesAreLines

LEMMA OneIs ==
  ASSUME NEW E, NEW a \in E
  PROVE  <<a>> \in Seq(E)
OBVIOUS

LEMMA FirstIs ==
  ASSUME NEW c \in STRING, NEW a \in Line
  PROVE  /\ <<c>> \in Line /\ <<c>> \o a \in Line /\ <<c>> \o a # <<>> /\ (<<c>> \o a)[1] = c
         /\ Len(<<c>> \o a) = Len(a) + 1
         /\ \A d : <<c>> \o a = <<d>> => a = <<>> /\ d = c
         /\ c # "/" => <<c>> \in Name /\ (a \in Name => <<c>> \o a \in Name)
<1>1. a \in Seq(STRING) /\ Len(a) \in Nat /\ <<c>> \in Line
  <2>1. <<c>> \in Seq(STRING) BY OneIs
  <2>2. a \in Seq(STRING) BY DEF Line
  <2>3. Len(a) \in Nat BY <2>2
  <2> QED BY <2>1, <2>2, <2>3 DEF Line
<1> DEFINE s == <<c>> \o a
<1>2. s \in Seq(STRING) /\ Len(s) = Len(a) + 1 /\ s[1] = c
  BY <1>1, FirstOfMore
<1>3. ASSUME c # "/" PROVE <<c>> \in Name /\ (a \in Name => <<c>> \o a \in Name)
  <2>1. <<c>> \in Seq(STRING \ {"/"}) BY <1>3
  <2> QED BY <2>1, LongerName DEF Name
<1> HIDE DEF s
<1>4. s # <<>> BY <1>1, <1>2
<1>5. ASSUME NEW d, s = <<d>> PROVE a = <<>> /\ d = c
  <2>1. Len(s) = 1 /\ s[1] = d BY <1>5
  <2> QED BY <1>1, <1>2, <2>1
<1> QED BY <1>1, <1>2, <1>3, <1>4, <1>5 DEF s, Line

LEMMA FitsIs ==
  ASSUME NEW a, NEW b
  PROVE  /\ Fits(a, a)
         /\ Fits(<<>>, b) => b = <<>>
         /\ Fits(a, b) => a = b \/ (b # <<>> /\ \E c \in Parameters : a = <<c>>)
         /\ \A c \in Parameters : b # <<>> => Fits(<<c>>, b)
BY DEF Fits

\* One more character of the pattern is one more of the path.
LEMMA OneCharacterOn ==
  ASSUME NEW c \in Characters, NEW p \in Line, NEW u \in Line, NEW wholly \in BOOLEAN,
         StillFits(<<c>> \o p, u, wholly)
  PROVE  \E v \in Line : u = <<c>> \o v /\ StillFits(p, v, wholly)
<1>0. c \in STRING /\ c \notin Parameters BY DEF Characters
<1>1. CASE c = "/"
  <2>1. "/" \in STRING /\ <<c>> \o p = WithMore(<<>>, p)
    BY <1>0, <1>1, SlashFirst
  <2>2. u \notin Name BY <2>1, EmptyIsAName, FitsNotByOne
  <2>3. PICK b \in Name, v \in Line : u = WithMore(b, v)
    BY <2>2, LineIsNamed
  <2>4. Fits(<<>>, b) /\ StillFits(p, v, wholly)
    <3>1. StillFits(WithMore(<<>>, p), WithMore(b, v), wholly)
      BY <2>1, <2>3
    <3> QED BY <2>1, <3>1, EmptyIsAName, FitsByNames
  <2>5. b = <<>> BY <2>4, FitsIs
  <2>6. u = <<c>> \o v BY <1>1, <2>3, <2>5, SlashFirst
  <2> QED BY <2>4, <2>6
<1>2. ASSUME NEW a \in Name, c # "/", NEW b \in Name, Fits(<<c>> \o a, b) PROVE b = <<c>> \o a
  <2>1. a \in Line BY NamesAreLines
  <2>2. ASSUME NEW d \in Parameters, <<c>> \o a = <<d>> PROVE FALSE
    <3>1. d = c BY <1>0, <2>1, <2>2, FirstIs
    <3> QED BY <1>0, <2>2, <3>1
  <2> QED BY <1>2, <2>2, FitsIs
<1>3. CASE c # "/" /\ p \in Name
  <2> DEFINE a == <<c>> \o p
  <2>1. a \in Name /\ a # <<>> /\ <<c>> \in Line
    BY <1>0, <1>3, FirstIs
  <2>2. CASE u \in Name
    <3>1. Fits(a, u) BY <2>1, <2>2, FitsByTheLast
    <3>2. u = <<c>> \o p BY <1>2, <1>3, <2>2, <3>1
    <3>3. StillFits(p, p, wholly)
      <4>1. CASE p = <<>> BY <4>1 DEF StillFits
      <4>2. CASE p # <<>>
        BY <1>3, <4>2, FitsIs, FitsByTheLast
      <4> QED BY <4>1, <4>2
    <3> QED BY <3>2, <3>3
  <2>3. CASE u \notin Name
    <3>1. PICK b \in Name, v \in Line : u = WithMore(b, v) /\ "/" \in STRING
      BY <2>3, LineIsNamed
    <3>2. ~wholly /\ Fits(a, b) BY <2>1, <3>1, FitsByTheLast
    <3>3. b = <<c>> \o p BY <1>2, <1>3, <3>2
    <3>4. WithMore(p, v) \in Line /\ <<c>> \o WithMore(p, v) = u
      BY <1>3, <2>1, <3>1, <3>3, BehindAName, SegmentsOfMore
    <3>5. StillFits(p, WithMore(p, v), wholly)
      <4>1. CASE p = <<>> BY <3>2, <4>1 DEF StillFits
      <4>2. CASE p # <<>>
        BY <1>3, <3>1, <3>2, <4>2, FitsIs, FitsByTheLast
      <4> QED BY <4>1, <4>2
    <3> QED BY <3>4, <3>5
  <2> QED BY <2>2, <2>3
<1>4. CASE c # "/" /\ p \notin Name
  <2>1. PICK a \in Name, q \in Line : p = WithMore(a, q) /\ "/" \in STRING
    BY <1>4, LineIsNamed
  <2>2. <<c>> \o a \in Name /\ <<c>> \in Line /\ a \in Line
    BY <1>0, <1>4, FirstIs, NamesAreLines
  <2>3. <<c>> \o p = WithMore(<<c>> \o a, q)
    BY <2>1, <2>2, BehindAName
  <2>4. u \notin Name BY <2>1, <2>2, <2>3, FitsNotByOne
  <2>5. PICK b \in Name, v \in Line : u = WithMore(b, v)
    BY <2>4, LineIsNamed
  <2>6. Fits(<<c>> \o a, b) /\ StillFits(q, v, wholly)
    <3>1. StillFits(WithMore(<<c>> \o a, q), WithMore(b, v), wholly)
      BY <2>3, <2>5
    <3> QED BY <2>1, <2>2, <3>1, FitsByNames
  <2>7. b = <<c>> \o a BY <1>2, <1>4, <2>6
  <2>8. WithMore(a, v) \in Line /\ u = <<c>> \o WithMore(a, v)
    BY <2>1, <2>2, <2>5, <2>7, BehindAName, SegmentsOfMore
  <2>9. StillFits(p, WithMore(a, v), wholly)
    BY <2>1, <2>6, FitsIs, FitsByNames
  <2> QED BY <2>8, <2>9
<1> QED BY <1>1, <1>3, <1>4

\* A path that begins with a name, behind which it fits what is left of a pattern.
BeginsWithAName(p, u, wholly) ==
  \E b \in Name : \E v \in Line : b # <<>> /\ u = b \o v /\ StillFits(p, v, wholly)

\* A parameter is a name of the path.
LEMMA OneParameterOn ==
  ASSUME NEW c \in Parameters \cap STRING, NEW p \in Line, NEW u \in Seq(Characters),
         NEW wholly \in BOOLEAN, StillFits(<<c>> \o p, u, wholly)
  PROVE  BeginsWithAName(p, u, wholly)
<1>0. c # "/" /\ u \in Line /\ c \notin Characters
  BY TextsOfCharacters DEF Parameters, Characters, Line
<1>1. u # <<>> => u[1] # c BY <1>0
<1>2. ASSUME NEW a \in Name, NEW b \in Name, Fits(<<c>> \o a, b), b = <<c>> \o a => u # <<>> /\ u[1] = c
      PROVE  a = <<>> /\ b # <<>>
  <2>1. b # <<c>> \o a BY <1>1, <1>2
  <2>2. PICK d \in Parameters : b # <<>> /\ <<c>> \o a = <<d>>
    BY <1>2, <2>1, FitsIs
  <2>3. a \in Line BY NamesAreLines
  <2> QED BY <2>2, <2>3, FirstIs
<1>3. ASSUME "/" \in STRING, NEW a \in Name, NEW v \in Line, u = WithMore(<<c>> \o a, v)
      PROVE  u # <<>> /\ u[1] = c
  <2>1. a \in Line /\ <<c>> \in Line /\ WithMore(a, v) \in Line
    BY <1>3, NamesAreLines, FirstIs, SegmentsOfMore
  <2>2. u = <<c>> \o WithMore(a, v)
    BY <1>3, <2>1, BehindAName
  <2> QED BY <2>1, <2>2, FirstIs
<1>4. ASSUME "/" \in STRING, NEW b \in Name, NEW v \in Line
      PROVE  WithMore(<<>>, v) \in Line /\ b \o WithMore(<<>>, v) = WithMore(b, v)
  <2>1. b \o <<>> = b /\ b \in Line
    BY NamesAreLines DEF Name
  <2>2. WithMore(<<>>, v) \in Line
    BY <1>4, EmptyIsAName, SegmentsOfMore
  <2>3. b \o WithMore(<<>>, v) = WithMore(b \o <<>>, v)
    BY <1>4, <2>1, EmptyIsAName, BehindAName
  <2> QED BY <2>1, <2>2, <2>3
<1>5. CASE p \in Name
  <2> DEFINE a == <<c>> \o p
  <2>1. a \in Name /\ a # <<>> /\ <<c>> \in Line
    BY <1>0, <1>5, FirstIs
  <2>2. CASE u \in Name
    <3>1. Fits(a, u) BY <2>1, <2>2, FitsByTheLast
    <3>2. u = a => u # <<>> /\ u[1] = c BY FirstIs
    <3>3. p = <<>> /\ u # <<>>
      BY <1>2, <1>5, <2>2, <3>1, <3>2
    <3>4. u = u \o <<>> /\ <<>> \in Line
      BY <1>0, EmptyIsAName DEF Line
    <3>5. StillFits(p, <<>>, wholly) BY <3>3 DEF StillFits
    <3> QED BY <2>2, <3>3, <3>4, <3>5 DEF BeginsWithAName
  <2>3. CASE u \notin Name
    <3>1. PICK b \in Name, v \in Line : u = WithMore(b, v) /\ "/" \in STRING
      BY <1>0, <2>3, LineIsNamed
    <3>2. ~wholly /\ Fits(a, b) BY <2>1, <3>1, FitsByTheLast
    <3>3. p = <<>> /\ b # <<>>
      BY <1>2, <1>3, <1>5, <3>1, <3>2
    <3>4. WithMore(<<>>, v) \in Line /\ u = b \o WithMore(<<>>, v)
      BY <1>4, <3>1
    <3>5. StillFits(p, WithMore(<<>>, v), wholly)
      BY <3>2, <3>3 DEF StillFits
    <3> QED BY <3>3, <3>4, <3>5 DEF BeginsWithAName
  <2> QED BY <2>2, <2>3
<1>6. CASE p \notin Name
  <2>1. PICK a \in Name, q \in Line : p = WithMore(a, q) /\ "/" \in STRING
    BY <1>6, LineIsNamed
  <2>2. <<c>> \o a \in Name /\ <<c>> \in Line /\ a \in Line
    BY <1>0, FirstIs, NamesAreLines
  <2>3. <<c>> \o p = WithMore(<<c>> \o a, q)
    BY <2>1, <2>2, BehindAName
  <2>4. u \notin Name BY <2>1, <2>2, <2>3, FitsNotByOne
  <2>5. PICK b \in Name, v \in Line : u = WithMore(b, v)
    BY <1>0, <2>4, LineIsNamed
  <2>6. Fits(<<c>> \o a, b) /\ StillFits(q, v, wholly)
    <3>1. StillFits(WithMore(<<c>> \o a, q), WithMore(b, v), wholly)
      BY <2>3, <2>5
    <3> QED BY <2>1, <2>2, <3>1, FitsByNames
  <2>7. a = <<>> /\ b # <<>> BY <1>2, <1>3, <2>1, <2>5, <2>6
  <2>8. WithMore(<<>>, v) \in Line /\ u = b \o WithMore(<<>>, v)
    BY <1>4, <2>1, <2>5
  <2>9. StillFits(p, WithMore(<<>>, v), wholly)
    BY <2>1, <2>6, <2>7, EmptyIsAName, FitsIs, FitsByNames
  <2> QED BY <2>7, <2>8, <2>9 DEF BeginsWithAName
<1> QED BY <1>5, <1>6

-----------------------------------------------------------------------------
(* Locations name by name.                                                  *)

\* A last name fits itself, and behind it what is left if it is not to take all.
LEMMA ItselfIsTheLast ==
  ASSUME NEW a \in Name, a # <<>>, NEW wholly \in BOOLEAN
  PROVE  /\ StillFits(a, a, wholly)
         /\ "/" \in STRING /\ ~wholly => \A v \in Line : StillFits(a, WithMore(a, v), wholly)
<1>1. Fits(a, a) BY DEF Fits
<1> QED BY <1>1, FitsByTheLast

\* One more character of both, in front.
LEMMA OneCharacterBack ==
  ASSUME NEW c \in Characters, NEW p \in Line, NEW v \in Line, NEW wholly \in BOOLEAN,
         StillFits(p, v, wholly),
         p = <<>> => wholly \/ c = "/",
         p # <<>> => p[1] \notin Parameters \/ c = "/"
  PROVE  StillFits(<<c>> \o p, <<c>> \o v, wholly)
<1>0. c \in STRING BY DEF Characters
<1>1. CASE c = "/"
  <2>1. "/" \in STRING /\ <<c>> \o p = WithMore(<<>>, p) /\ <<c>> \o v = WithMore(<<>>, v)
    BY <1>0, <1>1, SlashFirst
  <2>2. StillFits(WithMore(<<>>, p), WithMore(<<>>, v), wholly)
    BY <2>1, EmptyIsAName, FitsIs, FitsByNames
  <2> QED BY <2>1, <2>2
<1>2. CASE c # "/" /\ p = <<>>
  <2>1. v = <<>> BY <1>2 DEF StillFits
  <2>2. <<c>> \o <<>> = <<c>> /\ <<c>> \in Name /\ <<c>> # <<>>
    <3>1. <<c>> \in Name
      BY <1>0, <1>2, EmptyIsAName, FirstIs
    <3>2. <<c>> \o <<>> = <<c>> /\ <<c>> # <<>> OBVIOUS
    <3> QED BY <3>1, <3>2
  <2>3. StillFits(<<c>>, <<c>>, wholly)
    BY <2>2, ItselfIsTheLast
  <2> QED BY <1>2, <2>1, <2>2, <2>3
<1>3. ASSUME c # "/", NEW a \in Name, NEW b \in Name, Fits(a, b), a # <<>> => a[1] \notin Parameters
      PROVE  a = b
  <2>1. ASSUME NEW d \in Parameters, a = <<d>> PROVE FALSE
    <3>1. a # <<>> /\ a[1] = d BY <2>1
    <3> QED BY <1>3, <3>1
  <2> QED BY <1>3, <2>1, FitsIs
<1>4. CASE c # "/" /\ p # <<>> /\ p \in Name
  <2>1. <<c>> \o p \in Name /\ <<c>> \o p # <<>> /\ <<c>> \in Line
    BY <1>0, <1>4, FirstIs
  <2>2. CASE v \in Name
    <3>1. Fits(p, v) BY <1>4, <2>2, FitsByTheLast
    <3>2. p = v BY <1>3, <1>4, <2>2, <3>1
    <3>3. StillFits(<<c>> \o p, <<c>> \o p, wholly)
      BY <2>1, ItselfIsTheLast
    <3> QED BY <3>2, <3>3
  <2>3. CASE v \notin Name
    <3>1. PICK b \in Name, w \in Line : v = WithMore(b, w) /\ "/" \in STRING
      BY <2>3, LineIsNamed
    <3>2. ~wholly /\ Fits(p, b) BY <1>4, <3>1, FitsByTheLast
    <3>3. p = b BY <1>3, <1>4, <3>2
    <3>4. <<c>> \o v = WithMore(<<c>> \o p, w)
      BY <2>1, <3>1, <3>3, BehindAName
    <3>5. StillFits(<<c>> \o p, WithMore(<<c>> \o p, w), wholly)
      BY <2>1, <3>1, <3>2, ItselfIsTheLast
    <3> QED BY <3>4, <3>5
  <2> QED BY <2>2, <2>3
<1>5. CASE c # "/" /\ p \notin Name
  <2>1. PICK a \in Name, q \in Line : p = WithMore(a, q) /\ "/" \in STRING
    BY <1>5, LineIsNamed
  <2>2. v \notin Name BY <2>1, FitsNotByOne
  <2>3. PICK b \in Name, w \in Line : v = WithMore(b, w)
    BY <2>2, LineIsNamed
  <2>4. Fits(a, b) /\ StillFits(q, w, wholly)
    <3>1. StillFits(WithMore(a, q), WithMore(b, w), wholly)
      BY <2>1, <2>3
    <3> QED BY <2>1, <3>1, FitsByNames
  <2>5. a # <<>> => a[1] \notin Parameters
    <3> SUFFICES ASSUME a # <<>> PROVE a[1] \notin Parameters
      OBVIOUS
    <3>1. p \in Line /\ p # <<>> /\ p[1] = a[1]
      <4> DEFINE t == Append(a, "/")
      <4>1. t \in Seq(STRING) /\ 1 \in 1 .. Len(t) /\ t[1] = a[1] /\ q \in Seq(STRING)
        BY <2>1 DEF Name, Line
      <4> HIDE DEF t
      <4>2. t \o q \in Seq(STRING) /\ Joins(t \o q, t, q)
        BY <4>1, ConcatIs
      <4>3. (t \o q)[1] = a[1] /\ Len(t \o q) # 0
        BY <4>1, <4>2 DEF Joins
      <4>4. p = t \o q BY <2>1 DEF WithMore, t
      <4> QED BY <4>2, <4>3, <4>4
    <3> QED BY <1>5, <3>1
  <2>6. a = b BY <1>3, <1>5, <2>4, <2>5
  <2>7. <<c>> \o a \in Name /\ <<c>> \in Line /\ a \in Line
    BY <1>0, <1>5, FirstIs, NamesAreLines
  <2>8. <<c>> \o p = WithMore(<<c>> \o a, q) /\ <<c>> \o v = WithMore(<<c>> \o a, w)
    <3>1. <<c>> \o WithMore(a, q) = WithMore(<<c>> \o a, q)
      BY <2>1, <2>7, BehindAName
    <3>2. <<c>> \o WithMore(a, w) = WithMore(<<c>> \o a, w)
      BY <2>1, <2>3, <2>7, BehindAName
    <3> QED BY <2>1, <2>3, <2>6, <3>1, <3>2
  <2>9. StillFits(WithMore(<<c>> \o a, q), WithMore(<<c>> \o a, w), wholly)
    BY <2>1, <2>4, <2>7, FitsIs, FitsByNames
  <2> QED BY <2>8, <2>9
<1> QED BY <1>1, <1>2, <1>4, <1>5

\* A parameter in front of a pattern, and a name in front of a path.
LEMMA OneParameterBack ==
  ASSUME NEW c \in Parameters \cap STRING, NEW p \in Line, NEW v \in Line, NEW b \in Name,
         b # <<>>, NEW wholly \in BOOLEAN, StillFits(p, v, wholly), p # <<>> => p[1] = "/"
  PROVE  StillFits(<<c>> \o p, b \o v, wholly)
<1> DEFINE a == <<c>>
<1>0. c # "/" /\ a \in Name /\ a # <<>> /\ a \in Line /\ b \in Line
  <2>1. c # "/" BY DEF Parameters
  <2>2. <<c>> \in Name /\ <<c>> \in Line
    BY <2>1, EmptyIsAName, FirstIs
  <2>3. <<c>> # <<>> OBVIOUS
  <2> QED BY <2>1, <2>2, <2>3, NamesAreLines
<1>1. CASE p = <<>>
  <2>0. <<c>> \o p = <<c>> BY <1>1
  <2>1. CASE v \in Name
    <3>1. b \o v \in Name /\ b \o v # <<>>
      BY <2>1, LongerName
    <3>2. Fits(a, b \o v) BY <3>1, FitsIs
    <3> HIDE DEF a
    <3>3. StillFits(a, b \o v, wholly)
      BY <1>0, <3>1, <3>2, FitsByTheLast
    <3> QED BY <2>0, <3>3 DEF a
  <2>2. CASE v \notin Name
    <3>1. PICK d \in Name, w \in Line : v = WithMore(d, w) /\ "/" \in STRING
      BY <2>2, LineIsNamed
    <3>2. ~wholly
      <4>1. v # <<>> BY <2>2, EmptyIsAName
      <4> QED BY <1>1, <4>1 DEF StillFits
    <3>3. b \o d \in Name /\ b \o d # <<>> /\ d \in Line
      BY LongerName, NamesAreLines
    <3>4. b \o v = WithMore(b \o d, w)
      BY <1>0, <3>1, <3>3, BehindAName
    <3>5. Fits(a, b \o d) BY <3>3, FitsIs
    <3> DEFINE e == b \o d
    <3> HIDE DEF a, e
    <3>6. StillFits(a, WithMore(e, w), wholly)
      BY <1>0, <3>1, <3>2, <3>3, <3>5, FitsByTheLast DEF e
    <3> QED BY <2>0, <3>4, <3>6 DEF a, e
  <2> QED BY <2>1, <2>2
<1>2. CASE p # <<>>
  <2>1. p[1] = "/" /\ p[1] \in STRING /\ Tail(p) \in Line /\ p = <<p[1]>> \o Tail(p)
    BY <1>2 DEF Line
  <2> DEFINE q == Tail(p)
  <2>2. "/" \in STRING /\ q \in Line /\ p = WithMore(<<>>, q)
    BY <2>1, SlashFirst
  <2> HIDE DEF q
  <2>3. v \notin Name BY <2>2, EmptyIsAName, FitsNotByOne
  <2>4. PICK d \in Name, w \in Line : v = WithMore(d, w)
    BY <2>3, LineIsNamed
  <2>5. Fits(<<>>, d) /\ StillFits(q, w, wholly)
    <3>1. StillFits(WithMore(<<>>, q), WithMore(d, w), wholly)
      BY <2>2, <2>4
    <3> QED BY <2>2, <3>1, EmptyIsAName, FitsByNames
  <2>6. d = <<>> BY <2>5, FitsIs
  <2>7. b \o v = WithMore(b, w) /\ <<c>> \o p = WithMore(<<c>>, q)
    <3>1. b \o WithMore(<<>>, w) = WithMore(b \o <<>>, w)
      BY <1>0, <2>2, EmptyIsAName, BehindAName
    <3>2. <<c>> \o WithMore(<<>>, q) = WithMore(<<c>> \o <<>>, q)
      BY <1>0, <2>2, EmptyIsAName, BehindAName
    <3>3. b \o <<>> = b /\ <<c>> \o <<>> = <<c>>
      BY <1>0 DEF Line
    <3> QED BY <2>2, <2>4, <2>6, <3>1, <3>2, <3>3
  <2>8. StillFits(WithMore(<<c>>, q), WithMore(b, w), wholly)
    BY <1>0, <2>2, <2>5, FitsIs, FitsByNames
  <2> QED BY <2>7, <2>8
<1> QED BY <1>1, <1>2

\* What is left of a text from some place on.
LEMMA RestIs ==
  ASSUME NEW E, NEW t \in Seq(E), NEW i \in 0 .. Len(t)
  PROVE  /\ RestAsItIs(t, i) \in Seq(E)
         /\ Len(RestAsItIs(t, i)) = Len(t) - i
         /\ \A k \in 1 .. Len(t) - i : RestAsItIs(t, i)[k] = t[i + k]
<1>1. i \in Nat /\ Len(t) \in Nat /\ i <= Len(t) OBVIOUS
<1> QED BY <1>1, SubSeqIs DEF RestAsItIs

LEMMA RestAtTheEnds ==
  ASSUME NEW E, NEW t \in Seq(E)
  PROVE  RestAsItIs(t, 0) = t /\ RestAsItIs(t, Len(t)) = <<>>
BY DEF RestAsItIs

LEMMA RestOn ==
  ASSUME NEW E, NEW t \in Seq(E), NEW i \in Nat, NEW e \in Nat, i <= e, e <= Len(t)
  PROVE  /\ RestAsItIs(t, i) = SubSeq(t, i + 1, e) \o RestAsItIs(t, e)
         /\ SubSeq(t, i + 1, e) \in Seq(E) /\ Len(SubSeq(t, i + 1, e)) = e - i
         /\ \A k \in 1 .. e - i : SubSeq(t, i + 1, e)[k] = t[i + k]
<1> DEFINE all == RestAsItIs(t, i)
           p == SubSeq(t, i + 1, e)
           q == RestAsItIs(t, e)
           n == Len(t)
<1>1. n \in Nat /\ i \in 0 .. n /\ e \in 0 .. n /\ i <= n
  OBVIOUS
<1>2. p \in Seq(E) /\ Len(p) = e - i /\ \A k \in 1 .. e - i : p[k] = t[i + k]
  BY SubSeqIs
<1>3. all \in Seq(E) /\ Len(all) = n - i /\ \A k \in 1 .. n - i : all[k] = t[i + k]
  BY <1>1, RestIs
<1>4. q \in Seq(E) /\ Len(q) = n - e /\ \A k \in 1 .. n - e : q[k] = t[e + k]
  BY <1>1, RestIs
<1> HIDE DEF all, p, q, n
<1>5. p \o q \in Seq(E) /\ Joins(p \o q, p, q)
  BY <1>2, <1>4, ConcatIs
<1>6. Len(p \o q) = Len(all)
  BY <1>1, <1>2, <1>3, <1>4, <1>5 DEF Joins
<1>7. ASSUME NEW k \in 1 .. Len(all) PROVE all[k] = (p \o q)[k]
  <2>1. CASE k <= e - i
    <3>1. k \in 1 .. e - i /\ k \in 1 .. Len(p) /\ k \in 1 .. n - i
      BY <1>1, <1>2, <1>3, <2>1
    <3> QED BY <1>2, <1>3, <1>5, <3>1 DEF Joins
  <2>2. CASE k > e - i
    <3> DEFINE j == k - (e - i)
    <3>1. j \in 1 .. n - e /\ j \in 1 .. Len(q) /\ Len(p) + j = k /\ e + j = i + k /\ k \in 1 .. n - i
      BY <1>1, <1>2, <1>3, <1>4, <2>2
    <3> HIDE DEF j
    <3>2. (p \o q)[k] = q[j] BY <1>5, <3>1 DEF Joins
    <3> QED BY <1>3, <1>4, <3>1, <3>2
  <2>3. k <= e - i \/ k > e - i
    <3>1. Len(all) \in Nat /\ k \in Nat BY <1>3
    <3> QED BY <3>1
  <2> QED BY <2>1, <2>2, <2>3
<1>8. Agree(all, p \o q, Len(all)) BY <1>7 DEF Agree
<1>9. all = p \o q BY <1>3, <1>5, <1>6, <1>8, SameSequence
<1> QED BY <1>2, <1>9 DEF all, p, q

LEMMA RestByOne ==
  ASSUME NEW E, NEW t \in Seq(E), NEW i \in Nat, i < Len(t)
  PROVE  RestAsItIs(t, i) = <<t[i + 1]>> \o RestAsItIs(t, i + 1)
<1> DEFINE one == SubSeq(t, i + 1, i + 1)
<1>1. i + 1 \in Nat /\ i <= i + 1 /\ i + 1 <= Len(t) /\ (i + 1) - i = 1
  OBVIOUS
<1>3. one = <<t[i + 1]>>
  <2>1. one \in Seq(E) /\ Len(one) = 1 /\ \A k \in 1 .. 1 : one[k] = t[i + k]
    BY <1>1, SubSeqIs
  <2>2. one[1] = t[i + 1] BY <2>1
  <2> HIDE DEF one
  <2> QED BY <2>1, <2>2
<1>2. RestAsItIs(t, i) = SubSeq(t, i + 1, i + 1) \o RestAsItIs(t, i + 1)
  BY <1>1, RestOn
<1> QED BY <1>2, <1>3

LEMMA RestBack ==
  ASSUME NEW E, NEW t \in Seq(E), NEW s \in 0 .. Len(t), NEW b \in Seq(E), NEW v \in Seq(E),
         RestAsItIs(t, s) = b \o v
  PROVE  /\ s + Len(b) \in 0 .. Len(t)
         /\ v = RestAsItIs(t, s + Len(b))
         /\ \A k \in 1 .. Len(b) : t[s + k] = b[k]
<1> DEFINE all == RestAsItIs(t, s)
           n == Len(t)
           e == s + Len(b)
           q == RestAsItIs(t, e)
<1>1. n \in Nat /\ s \in 0 .. n /\ Len(b) \in Nat /\ Len(v) \in Nat
  OBVIOUS
<1>2. all \in Seq(E) /\ Len(all) = n - s /\ \A k \in 1 .. n - s : all[k] = t[s + k]
  BY RestIs
<1>3. Joins(all, b, v) BY ConcatIs
<1> HIDE DEF n
<1>4. Len(b) + Len(v) = n - s
  <2> HIDE DEF all
  <2> QED BY <1>2, <1>3 DEF Joins
<1>5. e \in 0 .. n /\ n - e = Len(v) /\ e \in Int
  BY <1>1, <1>4
<1>6. q \in Seq(E) /\ Len(q) = n - e /\ \A k \in 1 .. n - e : q[k] = t[e + k]
  <2> HIDE DEF e
  <2> QED BY <1>5, RestIs DEF n
<1>7. ASSUME NEW k \in 1 .. Len(b) PROVE t[s + k] = b[k]
  <2>1. k \in 1 .. n - s BY <1>1, <1>4
  <2> HIDE DEF all
  <2> QED BY <1>2, <1>3, <2>1 DEF Joins
<1>8. ASSUME NEW k \in 1 .. Len(v) PROVE v[k] = q[k]
  <2>1. Len(b) + k \in 1 .. n - s /\ k \in 1 .. n - e /\ s + (Len(b) + k) = e + k
    BY <1>1, <1>4, <1>5
  <2> HIDE DEF all, q, e
  <2>2. all[Len(b) + k] = v[k] BY <1>3 DEF Joins
  <2> QED BY <1>2, <1>6, <2>1, <2>2
<1>9. Agree(v, q, Len(v)) BY <1>8 DEF Agree
<1> HIDE DEF q, e
<1>10. v = q BY <1>5, <1>6, <1>9, SameSequence
<1> QED BY <1>5, <1>7, <1>10 DEF q, e, n

\* What the elements of a pattern do in turn.
FitsAt(from, pattern, path, wholly) ==
  /\ from[Len(pattern)] = IF wholly THEN {Len(path)} ELSE 0 .. Len(path)
  /\ \A i \in 0 .. Len(pattern) - 1 :
       from[i] = {s \in 0 .. Len(path) :
                    \E e \in from[i + 1] : Takes(pattern, path, RouterStops, i + 1, s, e)}

LEMMA FitsInTurn ==
  ASSUME NEW pattern, Len(pattern) \in Nat, NEW path, NEW wholly
  PROVE  FitsAt(Fitting(pattern, path, wholly, RouterStops), pattern, path, wholly)
<1> DEFINE from == Fitting(pattern, path, wholly, RouterStops)
           n == Len(pattern)
<1>1. FitsFrom(from, pattern, path, wholly, RouterStops, 0)
  BY FittingIs
<1> HIDE DEF from
<1>2. from[n] = IF wholly THEN {Len(path)} ELSE 0 .. Len(path)
  <2>1. n \in 0 .. n OBVIOUS
  <2> QED BY <1>1, <2>1 DEF FitsFrom
<1>3. ASSUME NEW i \in 0 .. n - 1
      PROVE  from[i] = {s \in 0 .. Len(path) :
                          \E e \in from[i + 1] : Takes(pattern, path, RouterStops, i + 1, s, e)}
  <2>1. i \in 0 .. n /\ i # n OBVIOUS
  <2> QED BY <1>1, <2>1 DEF FitsFrom
<1> QED BY <1>2, <1>3 DEF FitsAt, from

LEMMA FromWithin ==
  ASSUME NEW from, NEW pattern, Len(pattern) \in Nat, NEW path, Len(path) \in Nat, NEW wholly,
         FitsAt(from, pattern, path, wholly)
  PROVE  \A i \in 0 .. Len(pattern) : from[i] \subseteq 0 .. Len(path)
<1> SUFFICES ASSUME NEW i \in 0 .. Len(pattern) PROVE from[i] \subseteq 0 .. Len(path)
  OBVIOUS
<1>1. CASE i = Len(pattern)
  <2>1. Len(path) \in 0 .. Len(path) OBVIOUS
  <2> QED BY <1>1, <2>1 DEF FitsAt
<1>2. CASE i # Len(pattern)
  <2>1. i \in 0 .. Len(pattern) - 1 BY <1>2
  <2> QED BY <2>1 DEF FitsAt
<1> QED BY <1>1, <1>2

\* A pattern whose names fit a path has its elements fit, from every place on.
LEMMA NamesThenElements ==
  ASSUME NEW pattern \in Line, NEW path \in Seq(Characters), NEW wholly \in BOOLEAN, NEW from,
         FitsAt(from, pattern, path, wholly)
  PROVE  \A s \in 0 .. Len(path) : StillFits(pattern, RestAsItIs(path, s), wholly) => s \in from[0]
<1> DEFINE n == Len(pattern)
           m == Len(path)
           Known(i) == \A s \in 0 .. m :
                         StillFits(RestAsItIs(pattern, i), RestAsItIs(path, s), wholly) => s \in from[i]
           T == {k \in Nat : k <= n => Known(n - k)}
<1>0. pattern \in Seq(STRING) /\ n \in Nat /\ m \in Nat /\ path \in Line
  <2>1. path \in Seq(STRING) BY TextsOfCharacters
  <2> QED BY <2>1 DEF Line
<1>1. 0 \in T
  <2>1. ASSUME NEW s \in 0 .. m, StillFits(<<>>, RestAsItIs(path, s), wholly) PROVE s \in from[n]
    <3>1. wholly => RestAsItIs(path, s) = <<>>
      BY <2>1 DEF StillFits
    <3>2. Len(RestAsItIs(path, s)) = m - s BY RestIs
    <3>3. wholly => m - s = 0 BY <3>1, <3>2
    <3>4. wholly => s = m BY <1>0, <3>3
    <3> QED BY <3>4 DEF FitsAt
  <2>2. RestAsItIs(pattern, n) = <<>> BY <1>0, RestAtTheEnds
  <2>3. n - 0 = n BY <1>0
  <2> HIDE DEF n, m
  <2>4. Known(n) BY <2>1, <2>2
  <2> QED BY <2>3, <2>4
<1>2. ASSUME NEW k \in Nat, k \in T PROVE k + 1 \in T
  <2> SUFFICES ASSUME k + 1 <= n PROVE Known(n - (k + 1))
    OBVIOUS
  <2> DEFINE i == n - (k + 1)
  <2>1. i \in Nat /\ n - k = i + 1 /\ i < n /\ i \in 0 .. n - 1 /\ i + 1 \in 0 .. n
    BY <1>0
  <2>2. Known(i + 1)
    <3>1. Known(n - k) BY <1>2
    <3> QED BY <2>1, <3>1
  <2> SUFFICES ASSUME NEW s \in 0 .. m,
                      StillFits(RestAsItIs(pattern, i), RestAsItIs(path, s), wholly)
               PROVE  s \in from[i]
    OBVIOUS
  <2> HIDE DEF i
  <2> DEFINE c == pattern[i + 1]
             p == RestAsItIs(pattern, i + 1)
             u == RestAsItIs(path, s)
  <2>3. RestAsItIs(pattern, i) = <<c>> \o p /\ c \in STRING
    <3>1. c \in STRING BY <1>0, <2>1
    <3> QED BY <1>0, <2>1, <3>1, RestByOne
  <2>4. p \in Line /\ u \in Seq(Characters) /\ u \in Line
    <3>1. p \in Seq(STRING) BY <1>0, <2>1, RestIs
    <3>2. u \in Seq(Characters) BY RestIs
    <3>3. u \in Seq(STRING) BY <3>2, TextsOfCharacters
    <3> QED BY <3>1, <3>2, <3>3 DEF Line
  <2> HIDE DEF p, c
  <2>5. StillFits(<<c>> \o p, u, wholly) BY <2>3
  <2>6. ASSUME NEW b \in Line, NEW v \in Line, u = b \o v, StillFits(p, v, wholly)
        PROVE  s + Len(b) \in from[i + 1] /\ s + Len(b) \in 0 .. m
               /\ \A j \in 1 .. Len(b) : path[s + j] = b[j]
    <3>1. /\ s + Len(b) \in 0 .. m
          /\ v = RestAsItIs(path, s + Len(b))
          /\ \A j \in 1 .. Len(b) : path[s + j] = b[j]
      BY <1>0, <2>6, RestBack DEF Line
    <3>2. StillFits(p, RestAsItIs(path, s + Len(b)), wholly)
      BY <2>6, <3>1
    <3>3. s + Len(b) \in from[i + 1]
      BY <2>2, <3>1, <3>2 DEF p
    <3> QED BY <3>1, <3>3
  <2> HIDE DEF u
  <2>7. \E e \in from[i + 1] : Takes(pattern, path, RouterStops, i + 1, s, e)
    <3>1. CASE c \in Parameters
      <4>0. BeginsWithAName(p, u, wholly)
        <5>1. c \in STRING /\ p \in Line /\ u \in Seq(Characters) /\ StillFits(<<c>> \o p, u, wholly)
          BY <2>3, <2>4, <2>5
        <5>2. c \in Parameters \cap STRING BY <3>1, <5>1
        <5> QED BY <5>1, <5>2, OneParameterOn
      <4>1. PICK b \in Name, v \in Line : b # <<>> /\ u = b \o v /\ StillFits(p, v, wholly)
        BY <4>0 DEF BeginsWithAName
      <4>2. b \in Line BY NamesAreLines
      <4> DEFINE e == s + Len(b)
      <4>3. e \in from[i + 1] /\ \A j \in 1 .. Len(b) : path[s + j] = b[j]
        BY <2>6, <4>1, <4>2
      <4>4. Len(b) \in Nat /\ Len(b) > 0 /\ \A j \in 1 .. Len(b) : b[j] # "/"
        BY <4>1 DEF Name
      <4>5. s < e BY <4>4
      <4>6. ASSUME NEW l \in s + 1 .. e PROVE path[l] \notin RouterStops
        <5> DEFINE j == l - s
        <5>1. j \in 1 .. Len(b) /\ s + j = l BY <4>4
        <5> HIDE DEF j
        <5> QED BY <4>3, <4>4, <5>1 DEF RouterStops
      <4>7. Takes(pattern, path, RouterStops, i + 1, s, e)
        <5> HIDE DEF e
        <5> QED BY <3>1, <4>5, <4>6 DEF Takes, c
      <4> QED BY <4>3, <4>7
    <3>2. CASE c \notin Parameters
      <4>1. c \in Characters BY <2>3, <3>2 DEF Characters
      <4>2. PICK v \in Line : u = <<c>> \o v /\ StillFits(p, v, wholly)
        BY <2>4, <2>5, <4>1, OneCharacterOn
      <4> DEFINE b == <<c>>
      <4>3. b \in Line /\ Len(b) = 1 /\ b[1] = c /\ 1 \in 1 .. Len(b)
        <5>1. b \in Seq(STRING) BY <2>3, OneIs
        <5> QED BY <5>1 DEF Line
      <4> HIDE DEF b
      <4>4. s + Len(b) \in from[i + 1] /\ \A j \in 1 .. Len(b) : path[s + j] = b[j]
        BY <2>6, <4>2, <4>3 DEF b
      <4>5. s + 1 \in from[i + 1] /\ path[s + 1] = c
        BY <4>3, <4>4
      <4>6. Takes(pattern, path, RouterStops, i + 1, s, s + 1)
        BY <3>2, <4>5 DEF Takes, c
      <4> QED BY <4>5, <4>6
    <3> QED BY <3>1, <3>2
  <2> QED BY <2>1, <2>7 DEF FitsAt
<1> HIDE DEF T
<1>3. Nat \subseteq T BY <1>1, <1>2, Induction
<1>4. Known(0)
  <2>1. n \in Nat /\ n <= n /\ n - n = 0 BY <1>0
  <2>2. Known(n - n) BY <1>3, <2>1 DEF T
  <2> QED BY <2>1, <2>2
<1>5. RestAsItIs(pattern, 0) = pattern
  BY <1>0, RestAtTheEnds
<1> QED BY <1>4, <1>5

\* A pattern that stops where a name does.
StopsAtNames(pattern, wholly) ==
  pattern # <<>> /\ ParametersAreNames(pattern) /\ (wholly \/ ~OpenEnded(pattern))

\* If the elements of one that stops where a name does fit, its names do.
LEMMA ElementsThenNames ==
  ASSUME NEW pattern \in Line, NEW path \in Seq(Characters), NEW wholly \in BOOLEAN, NEW from,
         FitsAt(from, pattern, path, wholly), StopsAtNames(pattern, wholly)
  PROVE  \A s \in from[0] : StillFits(pattern, RestAsItIs(path, s), wholly)
<1> DEFINE n == Len(pattern)
           m == Len(path)
           Known(i) == \A s \in from[i] :
                         StillFits(RestAsItIs(pattern, i), RestAsItIs(path, s), wholly)
           T == {k \in Nat : k <= n => Known(n - k)}
<1>0. pattern \in Seq(STRING) /\ n \in Nat /\ m \in Nat /\ path \in Line
  <2>1. path \in Seq(STRING) BY TextsOfCharacters
  <2> QED BY <2>1 DEF Line
<1>W. \A i \in 0 .. n : from[i] \subseteq 0 .. m
  BY <1>0, FromWithin
<1>1. 0 \in T
  <2>1. ASSUME NEW s \in from[n] PROVE StillFits(<<>>, RestAsItIs(path, s), wholly)
    <3>1. wholly => s = m BY <2>1 DEF FitsAt
    <3>2. RestAsItIs(path, m) = <<>> BY RestAtTheEnds
    <3> QED BY <3>1, <3>2 DEF StillFits
  <2>2. RestAsItIs(pattern, n) = <<>> BY <1>0, RestAtTheEnds
  <2>3. n - 0 = n BY <1>0
  <2> HIDE DEF n, m
  <2>4. Known(n) BY <2>1, <2>2
  <2> QED BY <2>3, <2>4
<1>2. ASSUME NEW k \in Nat, k \in T PROVE k + 1 \in T
  <2> SUFFICES ASSUME k + 1 <= n PROVE Known(n - (k + 1))
    OBVIOUS
  <2> DEFINE i == n - (k + 1)
  <2>1. i \in Nat /\ n - k = i + 1 /\ i < n /\ i \in 0 .. n - 1 /\ i + 1 \in 0 .. n /\ i \in 0 .. n
        /\ i + 1 \in 1 .. n
    BY <1>0
  <2>2. Known(i + 1)
    <3>1. Known(n - k) BY <1>2
    <3> QED BY <2>1, <3>1
  <2> SUFFICES ASSUME NEW s \in from[i]
               PROVE  StillFits(RestAsItIs(pattern, i), RestAsItIs(path, s), wholly)
    OBVIOUS
  <2> HIDE DEF i
  <2> DEFINE c == pattern[i + 1]
             p == RestAsItIs(pattern, i + 1)
  <2>3. RestAsItIs(pattern, i) = <<c>> \o p /\ c \in STRING
    <3>1. c \in STRING BY <1>0, <2>1
    <3> QED BY <1>0, <2>1, <3>1, RestByOne
  <2>4. p \in Line
    <3>1. p \in Seq(STRING) BY <1>0, <2>1, RestIs
    <3> QED BY <3>1 DEF Line
  <2>5. p = <<>> => i + 1 = n
    <3>1. Len(p) = n - (i + 1) BY <1>0, <2>1, RestIs
    <3>2. p = <<>> => Len(p) = 0 OBVIOUS
    <3> HIDE DEF p
    <3> QED BY <1>0, <2>1, <3>1, <3>2
  <2>6. p # <<>> => i + 1 < n /\ p[1] = pattern[(i + 1) + 1] /\ (i + 1) + 1 \in 1 .. n
    <3> SUFFICES ASSUME p # <<>>
                 PROVE  i + 1 < n /\ p[1] = pattern[(i + 1) + 1] /\ (i + 1) + 1 \in 1 .. n
      OBVIOUS
    <3>1. p \in Seq(STRING) /\ Len(p) = n - (i + 1) /\ \A j \in 1 .. n - (i + 1) : p[j] = pattern[(i + 1) + j]
      BY <1>0, <2>1, RestIs
    <3> HIDE DEF p
    <3>2. Len(p) # 0 /\ Len(p) \in Nat BY <3>1
    <3>3. 1 \in 1 .. n - (i + 1) BY <1>0, <2>1, <3>1, <3>2
    <3> QED BY <1>0, <2>1, <3>1, <3>3
  <2>7. PICK e \in from[i + 1] : Takes(pattern, path, RouterStops, i + 1, s, e)
    BY <2>1 DEF FitsAt
  <2>8. s \in 0 .. m /\ e \in 0 .. m BY <1>W, <2>1
  <2> DEFINE v == RestAsItIs(path, e)
  <2>9. StillFits(p, v, wholly) BY <2>2
  <2>10. v \in Line
    <3>1. v \in Seq(STRING) BY <1>0, <2>8, RestIs DEF Line
    <3> QED BY <3>1 DEF Line
  <2> HIDE DEF p, v
  <2>11. CASE c \in Parameters
    <3>1. s < e /\ \A l \in s + 1 .. e : path[l] # "/"
      BY <2>7, <2>11 DEF Takes, RouterStops, c
    <3> DEFINE b == SubSeq(path, s + 1, e)
    <3>2. /\ RestAsItIs(path, s) = b \o RestAsItIs(path, e)
          /\ b \in Seq(STRING) /\ Len(b) = e - s
          /\ \A j \in 1 .. e - s : b[j] = path[s + j]
      <4>1. s \in Nat /\ e \in Nat /\ s <= e /\ e <= Len(path) /\ path \in Seq(STRING)
        BY <1>0, <2>8, <3>1 DEF Line
      <4> QED BY <4>1, RestOn
    <3> HIDE DEF b
    <3>3. b # <<>> BY <2>8, <3>1, <3>2
    <3>4. b \in Name
      <4> DEFINE D == STRING \ {"/"}
      <4>1. ASSUME NEW j \in 1 .. Len(b) PROVE b[j] \in D
        <5>1. s + j \in s + 1 .. e /\ j \in 1 .. e - s
          BY <2>8, <3>1, <3>2
        <5> QED BY <3>1, <3>2, <5>1
      <4>2. b = [j \in 1 .. Len(b) |-> b[j]] /\ Len(b) \in Nat
        BY <3>2
      <4> HIDE DEF D
      <4>3. b \in Seq(D) BY <4>1, <4>2
      <4> QED BY <4>3 DEF D, Name
    <3>5. p # <<>> => p[1] = "/"
      <4> SUFFICES ASSUME p # <<>> PROVE p[1] = "/"
        OBVIOUS
      <4>1. i + 1 \in DOMAIN pattern BY <1>0, <2>1
      <4> QED BY <2>6, <2>11, <4>1 DEF StopsAtNames, ParametersAreNames, c
    <3>6. StillFits(<<c>> \o p, b \o v, wholly)
      <4>1. c \in Parameters \cap STRING BY <2>3, <2>11
      <4> QED BY <2>4, <2>9, <2>10, <3>3, <3>4, <3>5, <4>1, OneParameterBack
    <3> QED BY <2>3, <3>2, <3>6 DEF v
  <2>12. CASE c \notin Parameters
    <3>1. e = s + 1 /\ path[e] = c
      BY <2>7, <2>12 DEF Takes, c
    <3>2. RestAsItIs(path, s) = <<c>> \o v
      <4>1. s \in Nat /\ s < Len(path) BY <2>8, <3>1
      <4>2. RestAsItIs(path, s) = <<path[s + 1]>> \o RestAsItIs(path, s + 1)
        BY <4>1, RestByOne
      <4> QED BY <3>1, <4>2 DEF v
    <3>3. c \in Characters BY <2>3, <2>12 DEF Characters
    <3>4. p = <<>> => wholly \/ c = "/"
      BY <1>0, <2>5, <2>12 DEF StopsAtNames, OpenEnded, c
    <3>5. p # <<>> => p[1] \notin Parameters \/ c = "/"
      <4> SUFFICES ASSUME p # <<>>, p[1] \in Parameters PROVE c = "/"
        OBVIOUS
      <4> DEFINE j == (i + 1) + 1
      <4>1. j \in DOMAIN pattern /\ j > 1 /\ j - 1 = i + 1 /\ pattern[j] \in Parameters
        BY <1>0, <2>1, <2>6
      <4> HIDE DEF j
      <4>2. pattern[j - 1] = "/"
        BY <4>1 DEF StopsAtNames, ParametersAreNames
      <4> QED BY <4>1, <4>2 DEF c
    <3>6. StillFits(<<c>> \o p, <<c>> \o v, wholly)
      BY <2>4, <2>9, <2>10, <3>3, <3>4, <3>5, OneCharacterBack
    <3> QED BY <2>3, <3>2, <3>6
  <2> QED BY <2>11, <2>12
<1> HIDE DEF T
<1>3. Nat \subseteq T BY <1>1, <1>2, Induction
<1>4. Known(0)
  <2>1. n \in Nat /\ n <= n /\ n - n = 0 BY <1>0
  <2>2. Known(n - n) BY <1>3, <2>1 DEF T
  <2> QED BY <2>1, <2>2
<1>5. RestAsItIs(pattern, 0) = pattern
  BY <1>0, RestAtTheEnds
<1> QED BY <1>4, <1>5

\* A pattern that a path must be: every character of it is one of the path.
LEMMA FullByNames ==
  \A p \in Seq(Characters) : \A v \in Line : StillFits(p, v, TRUE) => v = p
<1> DEFINE T == {p \in Line : \A v \in Line : StillFits(p, v, TRUE) => v = p}
<1>1. <<>> \in T BY EmptyIsAName DEF StillFits
<1>2. ASSUME NEW t \in Seq(Characters), NEW c \in Characters, t \in T PROVE <<c>> \o t \in T
  <2>1. c \in STRING /\ t \in Line
    BY TextsOfCharacters DEF Characters, Line
  <2>2. <<c>> \o t \in Line BY <2>1, FirstIs
  <2>3. ASSUME NEW v \in Line, StillFits(<<c>> \o t, v, TRUE) PROVE v = <<c>> \o t
    <3>1. PICK w \in Line : v = <<c>> \o w /\ StillFits(t, w, TRUE)
      BY <2>1, <2>3, OneCharacterOn
    <3>2. w = t BY <1>2, <3>1
    <3> QED BY <3>1, <3>2
  <2> QED BY <2>2, <2>3
<1> HIDE DEF T
<1>3. Seq(Characters) \subseteq T
  BY <1>1, <1>2, FrontInduction
<1> QED BY <1>3 DEF T

\* A path that begins with a pattern, and a name of it ends there.
EndsAName(p, v) == v = <<>> \/ v[1] = "/" \/ EndsInSlash(p)
BeginsWithNames(p, u) == \E v \in Line : u = p \o v /\ EndsAName(p, v)

LEMMA LastOfMore ==
  ASSUME NEW c \in STRING, NEW t \in Line, t # <<>>, EndsInSlash(t)
  PROVE  EndsInSlash(<<c>> \o t)
<1> DEFINE s == <<c>> \o t
<1>1. t \in Seq(STRING) /\ Len(t) \in Nat /\ Len(t) # 0 /\ Len(t) \in 1 .. Len(t) /\ t[Len(t)] = "/"
  BY DEF Line, EndsInSlash
<1>2. s \in Seq(STRING) /\ Len(s) = Len(t) + 1 /\ s[Len(t) + 1] = t[Len(t)]
  BY <1>1, FirstOfMore
<1> HIDE DEF s
<1>3. s # <<>> /\ s[Len(s)] = "/" BY <1>1, <1>2
<1> QED BY <1>3 DEF EndsInSlash, s

LEMMA PrefixByNames ==
  \A p \in Seq(Characters) : p # <<>> =>
    \A u \in Line : StillFits(p, u, FALSE) => BeginsWithNames(p, u)
<1> DEFINE T == {p \in Line : p # <<>> =>
                   \A u \in Line : StillFits(p, u, FALSE) => BeginsWithNames(p, u)}
<1>1. <<>> \in T BY EmptyIsAName
<1>2. ASSUME NEW t \in Seq(Characters), NEW c \in Characters, t \in T PROVE <<c>> \o t \in T
  <2>1. c \in STRING /\ c \notin Parameters /\ t \in Line /\ t \in Seq(STRING)
    BY TextsOfCharacters DEF Characters, Line
  <2>2. <<c>> \o t \in Line /\ <<c>> \in Line
    BY <2>1, FirstIs
  <2>3. ASSUME NEW u \in Line, StillFits(<<c>> \o t, u, FALSE) PROVE BeginsWithNames(<<c>> \o t, u)
    <3>1. PICK v \in Line : u = <<c>> \o v /\ StillFits(t, v, FALSE)
      BY <2>1, <2>3, OneCharacterOn
    <3>2. CASE t # <<>>
      <4>1. PICK w \in Line : v = t \o w /\ EndsAName(t, w)
        BY <1>2, <3>1, <3>2 DEF BeginsWithNames
      <4>2. u = (<<c>> \o t) \o w
        <5>1. <<c>> \in Seq(STRING) /\ w \in Seq(STRING)
          BY <2>2 DEF Line
        <5> DEFINE one == <<c>>
        <5> HIDE DEF one
        <5>2. (one \o t) \o w = one \o (t \o w)
          BY <2>1, <5>1, ConcatAssociates DEF one
        <5> QED BY <3>1, <4>1, <5>2 DEF one
      <4>3. EndsAName(<<c>> \o t, w)
        BY <2>1, <3>2, <4>1, LastOfMore DEF EndsAName
      <4> QED BY <4>2, <4>3 DEF BeginsWithNames
    <3>3. CASE t = <<>> /\ c = "/"
      <4> DEFINE one == <<c>>
      <4>1. <<c>> \o t = one /\ EndsInSlash(one)
        BY <3>3 DEF EndsInSlash
      <4> HIDE DEF one
      <4>2. EndsAName(one, v) BY <4>1 DEF EndsAName
      <4>3. u = one \o v BY <3>1 DEF one
      <4> QED BY <4>1, <4>2, <4>3 DEF BeginsWithNames
    <3>4. CASE t = <<>> /\ c # "/"
      <4> DEFINE a == <<c>>
      <4>1. <<c>> \o t = a /\ a # <<>> /\ a \in Name /\ \A d : a = <<d>> => d = c
        <5>1. a \in Name BY <2>1, <3>4, FirstIs
        <5> QED BY <3>4, <5>1
      <4>2. \A b : Fits(a, b) => b = a
        BY <2>1, <4>1 DEF Fits
      <4> HIDE DEF a
      <4>3. StillFits(a, u, FALSE) BY <2>3, <4>1
      <4>4. CASE u \in Name
        <5>1. Fits(a, u) BY <4>1, <4>3, <4>4, FitsByTheLast
        <5>2. u = a /\ a = a \o <<>> /\ <<>> \in Line
          BY <4>1, <4>2, <5>1, EmptyIsAName DEF Name
        <5>3. EndsAName(a, <<>>) BY DEF EndsAName
        <5>4. BeginsWithNames(a, u)
          BY <5>2, <5>3 DEF BeginsWithNames
        <5> QED BY <4>1, <5>4
      <4>5. CASE u \notin Name
        <5>1. PICK b \in Name, w \in Line : u = WithMore(b, w) /\ "/" \in STRING
          BY <4>5, LineIsNamed
        <5>2. Fits(a, b) BY <4>1, <4>3, <5>1, FitsByTheLast
        <5>3. b = a /\ a \in Line /\ a \o <<>> = a
          BY <4>1, <4>2, <5>2, NamesAreLines DEF Name
        <5> DEFINE v2 == WithMore(<<>>, w)
        <5>4. v2 \in Line /\ v2 = <<"/">> \o w
          BY <5>1, EmptyIsAName, SegmentsOfMore, SlashFirst
        <5>5. v2[1] = "/" BY <5>1, <5>4, FirstIs
        <5>6. a \o v2 = WithMore(a \o <<>>, w)
          <6>1. "/" \in STRING /\ a \in Line /\ <<>> \in Line /\ w \in Line
            BY <5>1, <5>3, EmptyIsAName
          <6> QED BY <6>1, BehindAName
        <5>7. u = a \o v2 BY <5>1, <5>3, <5>6
        <5>8. EndsAName(a, v2) BY <5>5 DEF EndsAName
        <5> HIDE DEF v2
        <5>9. BeginsWithNames(a, u)
          BY <5>4, <5>7, <5>8 DEF BeginsWithNames
        <5> QED BY <4>1, <5>9
      <4> QED BY <4>4, <4>5
    <3> QED BY <3>2, <3>3, <3>4
  <2> QED BY <2>2, <2>3
<1> HIDE DEF T
<1>3. Seq(Characters) \subseteq T
  BY <1>1, <1>2, FrontInduction
<1> QED BY <1>3 DEF T

\* match_prefix takes it.
LEMMA BeginsThenMatches ==
  ASSUME NEW p \in Line, NEW u \in Line, BeginsWithNames(p, u)
  PROVE  MatchesPrefix(p, u)
<1>1. PICK v \in Line : u = p \o v /\ EndsAName(p, v)
  BY DEF BeginsWithNames
<1>2. p \in Seq(STRING) /\ v \in Seq(STRING) /\ Len(p) \in Nat /\ Len(v) \in Nat
  BY DEF Line
<1>3. u \in Seq(STRING) /\ Joins(u, p, v)
  BY <1>1, <1>2, ConcatIs
<1>4. Len(u) = Len(p) + Len(v) /\ \A i \in 1 .. Len(p) : u[i] = p[i]
  BY <1>3 DEF Joins
<1>5. IsPrefix(p, u)
  <2>1. Len(p) <= Len(u) /\ Len(p) \in Nat /\ Len(u) \in Nat
    BY <1>2, <1>4
  <2> DEFINE b == SubSeq(u, 1, Len(p))
  <2>2. b \in Seq(STRING) /\ Len(b) = Len(p) /\ \A i \in 1 .. Len(p) : b[i] = u[i]
    <3>1. 0 \in Nat /\ 0 <= Len(p) /\ 0 + 1 = 1 /\ Len(p) - 0 = Len(p) /\ \A i \in 1 .. Len(p) : 0 + i = i
      BY <1>2
    <3>2. /\ SubSeq(u, 0 + 1, Len(p)) \in Seq(STRING)
          /\ Len(SubSeq(u, 0 + 1, Len(p))) = Len(p) - 0
          /\ \A i \in 1 .. Len(p) - 0 : SubSeq(u, 0 + 1, Len(p))[i] = u[0 + i]
      BY <1>3, <2>1, <3>1, SubSeqIs
    <3> QED BY <3>1, <3>2
  <2>3. Agree(b, p, Len(b)) BY <1>4, <2>2 DEF Agree
  <2> HIDE DEF b
  <2>4. b = p BY <1>2, <2>2, <2>3, SameSequence
  <2> QED BY <2>1, <2>4 DEF IsPrefix, b
<1>6. v = <<>> => Len(u) = Len(p) BY <1>2, <1>4
<1>7. v # <<>> => u[Len(p) + 1] = v[1]
  <2> SUFFICES ASSUME v # <<>> PROVE u[Len(p) + 1] = v[1]
    OBVIOUS
  <2>1. 1 \in 1 .. Len(v) BY <1>2
  <2> QED BY <1>3, <2>1 DEF Joins
<1> QED BY <1>1, <1>5, <1>6, <1>7 DEF MatchesPrefix, EndsAName

LEMMA CutsAre ==
  ASSUME NEW pattern, NEW path, NEW wholly
  PROVE  Cuts(pattern, path, wholly, RouterStops) # {}
           <=> 0 \in Fitting(pattern, path, wholly, RouterStops)[0]
BY DEF Cuts

\* The empty pattern has one name, and that is empty.
LEMMA NothingFits ==
  ASSUME NEW path \in Line, FitsNames(<<>>, path)
  PROVE  /\ path # <<>> => path[1] = "/"
         /\ Len(Segments(path)) = Len(Segments(<<>>)) => path = <<>>
<1>1. Segments(<<>>) = << <<>> >>
  BY SplitNothing DEF Segments
<1>2. Len(Segments(<<>>)) = 1 /\ Segments(<<>>)[1] = <<>> /\ ~EndsInSlash(<<>>) /\ 1 \in 1 .. 1
  BY <1>1 DEF EndsInSlash
<1>3. Width(<<>>) = 1 BY <1>2 DEF Width
<1>4. Fits(<<>>, Segments(path)[1])
  BY <1>2, <1>3 DEF FitsNames
<1>5. Segments(path)[1] = <<>> BY <1>4, FitsIs
<1>6. CASE path \in Name
  <2>1. Segments(path) = <<path>> BY <1>6, OneName
  <2>2. Segments(path)[1] = path BY <2>1
  <2> QED BY <1>5, <2>2
<1>7. CASE path \notin Name
  <2>1. PICK b \in Name, w \in Line : "/" \in STRING /\ path = WithMore(b, w)
    BY <1>7, LineIsNamed
  <2>2. Segments(path) = <<b>> \o Segments(w)
    BY <2>1, SegmentsOfMore
  <2>3. Segments(w) \in Seq(Name) /\ Len(Segments(w)) \in Nat /\ Len(Segments(w)) >= 1
    BY SegmentsType
  <2>4. Segments(path)[1] = b /\ Len(Segments(path)) = Len(Segments(w)) + 1
    BY <2>2, <2>3, FirstOfMore
  <2>5. path = <<"/">> \o w BY <1>5, <2>1, <2>4, SlashFirst
  <2>6. path[1] = "/" BY <2>1, <2>5, FirstIs
  <2>7. Len(Segments(path)) # 1 BY <2>3, <2>4
  <2> QED BY <1>2, <2>6, <2>7
<1> QED BY <1>6, <1>7

LEMMA FitsThenStillFits ==
  ASSUME NEW location, NEW path \in Line, FitsLocation(location, path)
  PROVE  StillFits(location.pattern, path, location.mode \in {"Full", "Regex"})
<1> DEFINE p == location.pattern
<1>1. FitsNames(p, path)
      /\ (location.mode \in {"Full", "Regex"} =>
            /\ Len(Segments(path)) = Len(Segments(p))
            /\ EndsInSlash(p) => EndsInSlash(path))
  BY DEF FitsLocation
<1> HIDE DEF p
<1>2. CASE p = <<>>
  <2>1. location.mode \in {"Full", "Regex"} => path = <<>>
    BY <1>1, <1>2, NothingFits
  <2> QED BY <1>2, <2>1 DEF StillFits, p
<1>3. CASE p # <<>> BY <1>1, <1>3 DEF StillFits, p
<1> QED BY <1>2, <1>3

LEMMA StillFitsThenFits ==
  ASSUME NEW location, NEW path \in Line, location.pattern # <<>>,
         StillFits(location.pattern, path, location.mode \in {"Full", "Regex"})
  PROVE  FitsLocation(location, path)
BY DEF StillFits, FitsLocation

\* A location and a path as they are in an engine and its request.
AreGiven(location, path) ==
  /\ location.mode \in Modes
  /\ location.pattern \in Seq(STRING)
  /\ location.mode \in {"Full", "Prefix"} => location.pattern \in Seq(Characters)
  /\ path \in Seq(Characters)

LEMMA GivenAreLines ==
  ASSUME NEW location, NEW path, AreGiven(location, path)
  PROVE  location.pattern \in Line /\ path \in Line /\ location.pattern \in Seq(STRING)
         /\ path \in Seq(STRING)
<1>1. path \in Seq(STRING) BY TextsOfCharacters DEF AreGiven
<1> QED BY <1>1 DEF AreGiven, Line

LEMMA FitsThenMatches ==
  ASSUME NEW location, NEW path, AreGiven(location, path), FitsLocation(location, path)
  PROVE  Matches(location, path)
<1> DEFINE p == location.pattern
           mode == location.mode
           from(wholly) == Fitting(p, path, wholly, RouterStops)
<1>1. p \in Line /\ path \in Line /\ path \in Seq(STRING) /\ path \in Seq(Characters) /\ mode \in Modes
      /\ p \in Seq(STRING)
  BY GivenAreLines DEF AreGiven
<1>2. StillFits(p, path, mode \in {"Full", "Regex"})
  BY <1>1, FitsThenStillFits
<1>3. Len(p) \in Nat /\ 0 \in 0 .. Len(path) /\ RestAsItIs(path, 0) = path
  <2>1. RestAsItIs(path, 0) = path BY <1>1, RestAtTheEnds
  <2>2. Len(p) \in Nat /\ Len(path) \in Nat BY <1>1
  <2> QED BY <2>1, <2>2
<1>4. ASSUME NEW wholly \in BOOLEAN, StillFits(p, path, wholly)
      PROVE  Cuts(p, path, wholly, RouterStops) # {}
  <2> DEFINE f == from(wholly)
  <2>1. FitsAt(f, p, path, wholly) BY <1>3, FitsInTurn
  <2> HIDE DEF f
  <2>2. \A s \in 0 .. Len(path) : StillFits(p, RestAsItIs(path, s), wholly) => s \in f[0]
    BY <1>1, <2>1, NamesThenElements
  <2>3. StillFits(p, RestAsItIs(path, 0), wholly)
    BY <1>3, <1>4
  <2>4. 0 \in f[0] BY <1>3, <2>2, <2>3
  <2> QED BY <2>4, CutsAre DEF f
<1> HIDE DEF p, mode
<1>5. CASE mode = "Full"
  <2>1. StillFits(p, path, TRUE) BY <1>2, <1>5
  <2>2. p \in Seq(Characters) BY <1>5 DEF AreGiven, p, mode
  <2>3. path = p BY <1>1, <2>1, <2>2, FullByNames
  <2> QED BY <1>5, <2>3 DEF Matches, p, mode
<1>6. CASE mode = "Prefix"
  <2>0. (mode \in {"Full", "Regex"}) = FALSE BY <1>6
  <2>1. StillFits(p, path, FALSE) BY <1>2, <2>0
  <2>2. p \in Seq(Characters) BY <1>6 DEF AreGiven, p, mode
  <2>3. BeginsWithNames(p, path)
    <3>1. CASE p = <<>>
      <4>1. FitsNames(<<>>, path)
        BY <3>1 DEF FitsLocation, p
      <4>2. path # <<>> => path[1] = "/"
        BY <1>1, <4>1, NothingFits
      <4>3. path = <<>> \o path BY <1>1
      <4>4. EndsAName(p, path) BY <4>2 DEF EndsAName
      <4> QED BY <1>1, <3>1, <4>3, <4>4 DEF BeginsWithNames
    <3>2. CASE p # <<>>
      BY <1>1, <2>1, <2>2, <3>2, PrefixByNames
    <3> QED BY <3>1, <3>2
  <2>4. MatchesPrefix(p, path)
    BY <1>1, <2>3, BeginsThenMatches
  <2> QED BY <1>6, <2>4 DEF Matches, p, mode
<1>7. CASE mode = "Regex"
  <2>1. StillFits(p, path, TRUE) BY <1>2, <1>7
  <2>2. Cuts(p, path, TRUE, RouterStops) # {} BY <1>4, <2>1
  <2> QED BY <1>7, <2>2 DEF Matches, p, mode
<1>8. CASE mode = "PrefixRegex"
  <2>0. (mode \in {"Full", "Regex"}) = FALSE BY <1>8
  <2>1. StillFits(p, path, FALSE) BY <1>2, <2>0
  <2>2. Cuts(p, path, FALSE, RouterStops) # {} BY <1>4, <2>1
  <2> QED BY <1>8, <2>2 DEF Matches, p, mode
<1> QED BY <1>1, <1>5, <1>6, <1>7, <1>8 DEF Modes

\* A path whose first names are those of a pattern fits it.
LEMMA FitsBegun ==
  ASSUME NEW p, NEW path, Len(Segments(path)) \in Nat, Len(Segments(p)) \in Nat,
         Len(Segments(path)) >= Len(Segments(p)),
         \A i \in 1 .. Width(p) : Segments(path)[i] = Segments(p)[i]
  PROVE  FitsNames(p, path)
<1>1. \A i \in 1 .. Width(p) : Fits(Segments(p)[i], Segments(path)[i])
  BY DEF Fits
<1> QED BY <1>1 DEF FitsNames

LEMMA FitsItself ==
  ASSUME NEW p \in Line
  PROVE  FitsNames(p, p)
<1>1. Len(Segments(p)) \in Nat BY SegmentsType
<1> QED BY <1>1, FitsBegun

LEMMA PrefixFits ==
  ASSUME NEW p \in Line, NEW path \in Line, MatchesPrefix(p, path)
  PROVE  FitsNames(p, path)
<1> DEFINE n == Len(p)
           v == RestAsItIs(path, n)
<1>0. p \in Seq(STRING) /\ path \in Seq(STRING) /\ n \in Nat /\ Len(path) \in Nat
  BY DEF Line
<1>1. n \in 0 .. Len(path) /\ SubSeq(path, 1, n) = p
  BY <1>0, PrefixIs DEF MatchesPrefix
<1>2. path = p \o v /\ v \in Seq(STRING) /\ Len(v) = Len(path) - n
  <2>1. 0 \in Nat /\ 0 <= n /\ n <= Len(path) /\ 0 + 1 = 1
    BY <1>0, <1>1
  <2>2. RestAsItIs(path, 0) = SubSeq(path, 0 + 1, n) \o RestAsItIs(path, n)
    BY <1>0, <2>1, RestOn
  <2>3. RestAsItIs(path, 0) = path BY <1>0, RestAtTheEnds
  <2>4. v \in Seq(STRING) /\ Len(v) = Len(path) - n
    BY <1>0, <1>1, RestIs
  <2> QED BY <1>1, <2>1, <2>2, <2>3, <2>4
<1>3. Len(Segments(p)) \in Nat /\ Segments(p) \in Seq(Name) /\ Len(Segments(path)) \in Nat
  BY SegmentsType
<1>4. CASE EndsInSlash(p)
  <2>1. PICK t \in Seq(STRING) : p = Append(t, "/") /\ "/" \in STRING
    BY <1>0, <1>4, SlashOff
  <2> HIDE DEF v
  <2>2. Segments(path) = Segments(t) \o Segments(v)
    BY <1>2, <2>1, SplitAtSeparator DEF Segments
  <2>3. Segments(p) = Append(Segments(t), <<>>)
    BY <2>1, SplitAppend DEF Segments, Grown
  <2> DEFINE T == Segments(t)
             V == Segments(v)
  <2>4. T \in Seq(Name) /\ V \in Seq(Name) /\ Len(T) \in Nat /\ Len(V) \in Nat /\ Len(V) >= 1
    BY <1>2, SegmentsType DEF Line
  <2> HIDE DEF T, V
  <2>5. Joins(T \o V, T, V) BY <2>4, ConcatIs
  <2>6. Len(Append(T, <<>>)) = Len(T) + 1 /\ Agree(T, Append(T, <<>>), Len(T))
    BY <2>4, AppendIs
  <2>7. Width(p) = Len(T)
    BY <1>4, <2>3, <2>4, <2>6 DEF Width, T
  <2>8. Len(Segments(path)) >= Len(Segments(p))
    BY <2>2, <2>3, <2>4, <2>5, <2>6 DEF Joins, T, V
  <2>9. ASSUME NEW i \in 1 .. Len(T) PROVE Segments(path)[i] = Segments(p)[i]
    <3>1. (T \o V)[i] = T[i] /\ T[i] = Append(T, <<>>)[i]
      BY <2>5, <2>6 DEF Joins, Agree
    <3> QED BY <2>2, <2>3, <3>1 DEF T, V
  <2> QED BY <1>3, <2>7, <2>8, <2>9, FitsBegun
<1>5. CASE ~EndsInSlash(p) /\ Len(path) = n
  <2>1. v = <<>> /\ p \o <<>> = p BY <1>0, <1>2, <1>5
  <2>2. path = p
    <3> HIDE DEF v
    <3> QED BY <1>2, <2>1
  <2> QED BY <2>2, FitsItself
<1>6. CASE ~EndsInSlash(p) /\ Len(path) # n
  <2>1. path[n + 1] = "/" BY <1>6 DEF MatchesPrefix
  <2> DEFINE w == RestAsItIs(path, n + 1)
  <2>2. n < Len(path) /\ n + 1 \in 0 .. Len(path) /\ "/" \in STRING
    <3>1. n < Len(path) /\ n + 1 \in 0 .. Len(path) /\ path[n + 1] \in STRING
      BY <1>0, <1>1, <1>6
    <3> QED BY <2>1, <3>1
  <2>3. v = <<"/">> \o w BY <1>0, <2>1, <2>2, RestByOne
  <2>4. w \in Seq(STRING) BY <1>0, <2>2, RestIs
  <2> HIDE DEF v, w
  <2>5. path = Append(p, "/") \o w
    <3>1. w \in Line /\ p \o <<>> = p BY <1>0, <2>4 DEF Line
    <3>2. v = WithMore(<<>>, w) BY <2>3, <3>1, SlashFirst
    <3>3. p \o WithMore(<<>>, w) = WithMore(p \o <<>>, w)
      BY <2>2, <3>1, EmptyIsAName, BehindAName
    <3> QED BY <1>2, <3>1, <3>2, <3>3 DEF WithMore
  <2>6. Segments(path) = Segments(p) \o Segments(w)
    BY <1>0, <2>2, <2>4, <2>5, SplitAtSeparator DEF Segments
  <2> DEFINE P == Segments(p)
             W1 == Segments(w)
  <2>7. P \in Seq(Name) /\ W1 \in Seq(Name) /\ Len(P) \in Nat /\ Len(W1) \in Nat
    BY <2>4, SegmentsType DEF Line
  <2> HIDE DEF P, W1
  <2>8. Joins(P \o W1, P, W1) BY <2>7, ConcatIs
  <2>9. Width(p) = Len(P) BY <1>6, <2>7 DEF Width, P
  <2>10. Len(Segments(path)) >= Len(Segments(p))
    BY <2>6, <2>7, <2>8 DEF Joins, P, W1
  <2>11. \A i \in 1 .. Len(P) : Segments(path)[i] = Segments(p)[i]
    BY <2>6, <2>8 DEF Joins, P, W1
  <2> QED BY <1>3, <2>9, <2>10, <2>11, FitsBegun
<1> QED BY <1>4, <1>5, <1>6

LEMMA MatchesThenFits ==
  ASSUME NEW location, NEW path, AreGiven(location, path), Matches(location, path),
         ~StopsWithinNames(location), ParametersAreNames(location.pattern)
  PROVE  FitsLocation(location, path)
<1> DEFINE p == location.pattern
           mode == location.mode
<1>1. p \in Line /\ path \in Line /\ path \in Seq(STRING) /\ path \in Seq(Characters) /\ mode \in Modes
      /\ p \in Seq(STRING)
  BY GivenAreLines DEF AreGiven
<1>2. ASSUME NEW wholly \in BOOLEAN, Cuts(p, path, wholly, RouterStops) # {}, StopsAtNames(p, wholly)
      PROVE  StillFits(p, path, wholly)
  <2> DEFINE f == Fitting(p, path, wholly, RouterStops)
  <2>1. FitsAt(f, p, path, wholly) /\ 0 \in f[0]
    <3>1. Len(p) \in Nat BY <1>1
    <3> QED BY <1>2, <3>1, FitsInTurn, CutsAre
  <2> HIDE DEF f
  <2>2. \A s \in f[0] : StillFits(p, RestAsItIs(path, s), wholly)
    BY <1>1, <1>2, <2>1, ElementsThenNames
  <2>3. RestAsItIs(path, 0) = path BY <1>1, RestAtTheEnds
  <2> QED BY <2>1, <2>2, <2>3
<1>3. p = path => FitsLocation(location, path)
  BY <1>1, FitsItself DEF FitsLocation
<1> HIDE DEF p, mode
<1>4. CASE mode = "Full" BY <1>3, <1>4 DEF Matches, p, mode
<1>5. CASE mode = "Prefix"
  <2>1. MatchesPrefix(p, path) BY <1>5 DEF Matches, p, mode
  <2>2. FitsNames(p, path) BY <1>1, <2>1, PrefixFits
  <2> QED BY <1>5, <2>2 DEF FitsLocation, p, mode
<1>6. CASE mode = "Regex"
  <2>1. Cuts(p, path, TRUE, RouterStops) # {}
    BY <1>6 DEF Matches, p, mode
  <2>2. CASE p # <<>>
    <3>1. StopsAtNames(p, TRUE) BY <2>2 DEF StopsAtNames, p
    <3>2. StillFits(p, path, TRUE) BY <1>2, <2>1, <3>1
    <3> QED BY <1>1, <1>6, <2>2, <3>2, StillFitsThenFits DEF p, mode
  <2>3. CASE p = <<>>
    <3> DEFINE f == Fitting(p, path, TRUE, RouterStops)
    <3>1. Len(p) = 0 /\ Len(p) \in Nat BY <2>3
    <3>2. FitsAt(f, p, path, TRUE) /\ 0 \in f[0]
      BY <2>1, <3>1, FitsInTurn, CutsAre
    <3> HIDE DEF f
    <3>3. Len(path) = 0 BY <3>1, <3>2 DEF FitsAt
    <3>4. path = p BY <1>1, <2>3, <3>3
    <3> QED BY <1>3, <3>4
  <2> QED BY <2>2, <2>3
<1>7. CASE mode = "PrefixRegex"
  <2>1. Cuts(p, path, FALSE, RouterStops) # {}
    BY <1>7 DEF Matches, p, mode
  <2>2. StopsAtNames(p, FALSE) /\ p # <<>>
    BY <1>7 DEF StopsAtNames, StopsWithinNames, OpenEnded, p, mode
  <2>3. StillFits(p, path, FALSE) BY <1>2, <2>1, <2>2
  <2>4. (mode \in {"Full", "Regex"}) = FALSE BY <1>7
  <2>5. StillFits(p, path, mode \in {"Full", "Regex"})
    BY <2>3, <2>4
  <2> QED BY <1>1, <2>2, <2>5, StillFitsThenFits DEF p, mode
<1> QED BY <1>1, <1>4, <1>5, <1>6, <1>7 DEF Modes

\* The characters of a joined text.  (Names, so that the provers take them as terms.)
Letter == STRING \cup {"/"}
LineOfLetters == Seq(Letter)
Slashed(name) == <<"/">> \o name
Marked(names) == [i \in DOMAIN names |-> IF i = 1 THEN names[i] ELSE Slashed(names[i])]

LEMMA JoinedIs ==
  ASSUME NEW names
  PROVE  Joined(names) = FlattenSeq(Marked(names))
BY DEF Joined, Marked, Slashed

LEMMA SlashedType ==
  ASSUME NEW x \in LineOfLetters
  PROVE  Slashed(x) \in LineOfLetters
<1>1. <<"/">> \in Seq(Letter)
  <2>1. "/" \in Letter BY DEF Letter
  <2> QED BY <2>1, OneIs
<1>2. x \in Seq(Letter) BY DEF LineOfLetters
<1>3. <<"/">> \o x \in Seq(Letter) BY <1>1, <1>2, ConcatIs
<1> QED BY <1>3 DEF Slashed, LineOfLetters

LEMMA MarkedType ==
  ASSUME NEW names \in Seq(LineOfLetters)
  PROVE  /\ Marked(names) \in Seq(LineOfLetters)
         /\ Len(Marked(names)) = Len(names)
         /\ \A i \in 1 .. Len(names) : Marked(names)[i] = IF i = 1 THEN names[i] ELSE Slashed(names[i])
<1> DEFINE n == Len(names)
<1>1. n \in Nat /\ DOMAIN names = 1 .. n /\ \A i \in 1 .. n : names[i] \in LineOfLetters
  OBVIOUS
<1>2. ASSUME NEW i \in 1 .. n PROVE (IF i = 1 THEN names[i] ELSE Slashed(names[i])) \in LineOfLetters
  BY <1>1, SlashedType
<1> DEFINE Mark(i) == IF i = 1 THEN names[i] ELSE Slashed(names[i])
<1>3. Marked(names) = [i \in 1 .. n |-> Mark(i)]
  BY <1>1 DEF Marked
<1>4. \A i \in 1 .. n : Mark(i) \in LineOfLetters BY <1>2
<1> HIDE DEF Mark, n
<1>5. Marked(names) \in Seq(LineOfLetters) /\ Len(Marked(names)) = n
      /\ \A i \in 1 .. n : Marked(names)[i] = Mark(i)
  BY <1>1, <1>3, <1>4
<1> QED BY <1>5 DEF Mark, n

LEMMA FlattenMore ==
  ASSUME NEW s \in Seq(LineOfLetters), NEW t \in Seq(LineOfLetters), Len(t) = Len(s) + 1,
         Agree(s, t, Len(s))
  PROVE  FlattenSeq(t) = FlattenSeq(s) \o t[Len(t)]
BY FlattenLast DEF LineOfLetters

LEMMA JoinedNothing == Joined(<<>>) = <<>>
<1>1. Marked(<<>>) = <<>> BY DEF Marked
<1>2. FlattenSeq(<<>>) = <<>> BY DEF FlattenSeq
<1> QED BY <1>1, <1>2, JoinedIs

LEMMA JoinedMore ==
  ASSUME NEW names \in Seq(LineOfLetters), names # <<>>, NEW x \in LineOfLetters
  PROVE  Joined(Append(names, x)) = Joined(names) \o Slashed(x)
<1> DEFINE more == Append(names, x)
           s == Marked(names)
           t == Marked(more)
           n == Len(names)
<1>1. more \in Seq(LineOfLetters) /\ Len(more) = n + 1 /\ more[n + 1] = x /\ n \in Nat /\ n # 0
      /\ \A i \in 1 .. n : more[i] = names[i]
  BY AppendIs DEF Agree
<1> HIDE DEF more
<1>2. /\ s \in Seq(LineOfLetters) /\ Len(s) = n
      /\ \A i \in 1 .. n : s[i] = IF i = 1 THEN names[i] ELSE Slashed(names[i])
  BY MarkedType
<1>3. /\ t \in Seq(LineOfLetters) /\ Len(t) = n + 1
      /\ \A i \in 1 .. n + 1 : t[i] = IF i = 1 THEN more[i] ELSE Slashed(more[i])
  BY <1>1, MarkedType
<1> HIDE DEF s, t, n
<1>4. Agree(s, t, Len(s))
  <2>1. ASSUME NEW i \in 1 .. n PROVE s[i] = t[i]
    <3>1. i \in 1 .. n + 1 /\ more[i] = names[i] BY <1>1
    <3> QED BY <1>2, <1>3, <3>1
  <2> QED BY <1>2, <2>1 DEF Agree
<1>5. t[n + 1] = Slashed(x)
  <2>1. n + 1 \in 1 .. n + 1 /\ n + 1 # 1 BY <1>1
  <2> QED BY <1>1, <1>3, <2>1
<1>6. FlattenSeq(t) = FlattenSeq(s) \o t[Len(t)]
  BY <1>1, <1>2, <1>3, <1>4, FlattenMore
<1> QED BY <1>3, <1>5, <1>6, JoinedIs DEF s, t, more

LEMMA JoinedLonger ==
  ASSUME NEW names \in Seq(LineOfLetters), names # <<>>, NEW c \in Letter
  PROVE  Joined(LastAs(names, Append(names[Len(names)], c))) = Append(Joined(names), c)
<1> DEFINE n == Len(names)
           last == names[n]
           x == Append(last, c)
           longer == LastAs(names, x)
           s == Marked(names)
           t == Marked(longer)
           f == SubSeq(s, 1, n - 1)
<1>1. n \in Nat /\ n \in 1 .. n /\ last \in LineOfLetters /\ last \in Seq(Letter)
  <2>1. n \in 1 .. n /\ last \in LineOfLetters BY LastIs
  <2> QED BY <2>1 DEF LineOfLetters
<1>2. x \in LineOfLetters
  <2>1. x \in Seq(Letter)
    <3> HIDE DEF last
    <3> QED BY <1>1
  <2> QED BY <2>1 DEF LineOfLetters
<1> HIDE DEF x
<1>3. /\ longer \in Seq(LineOfLetters) /\ Len(longer) = n /\ longer[n] = x
      /\ \A i \in 1 .. n : i # n => longer[i] = names[i]
  BY <1>2, LastAsIs DEF EndsWith
<1> HIDE DEF longer
<1>4. /\ s \in Seq(LineOfLetters) /\ Len(s) = n
      /\ \A i \in 1 .. n : s[i] = IF i = 1 THEN names[i] ELSE Slashed(names[i])
  BY MarkedType
<1>5. /\ t \in Seq(LineOfLetters) /\ Len(t) = n
      /\ \A i \in 1 .. n : t[i] = IF i = 1 THEN longer[i] ELSE Slashed(longer[i])
  BY <1>3, MarkedType
<1> HIDE DEF s, t
<1>6. /\ f \in Seq(LineOfLetters) /\ Len(f) + 1 = n /\ Len(f) = n - 1
      /\ \A i \in 1 .. n - 1 : f[i] = s[i]
  <2> DEFINE m == n - 1
  <2>0. m \in Nat /\ 0 \in Nat /\ 0 <= m /\ m <= Len(s) /\ 0 + 1 = 1 /\ m - 0 = m /\ m + 1 = n
        /\ \A i \in 1 .. m : 0 + i = i
    BY <1>1, <1>4
  <2> HIDE DEF m
  <2>1. /\ SubSeq(s, 0 + 1, m) \in Seq(LineOfLetters)
        /\ Len(SubSeq(s, 0 + 1, m)) = m - 0
        /\ \A i \in 1 .. m - 0 : SubSeq(s, 0 + 1, m)[i] = s[0 + i]
    BY <1>4, <2>0, SubSeqIs
  <2>2. /\ SubSeq(s, 1, m) \in Seq(LineOfLetters) /\ Len(SubSeq(s, 1, m)) = m
        /\ \A i \in 1 .. m : SubSeq(s, 1, m)[i] = s[i]
    BY <2>0, <2>1
  <2> QED BY <2>0, <2>2 DEF m
<1> HIDE DEF f
<1>7. Agree(f, s, Len(f)) BY <1>6 DEF Agree
<1>8. Agree(f, t, Len(f))
  <2>1. ASSUME NEW i \in 1 .. n - 1 PROVE f[i] = t[i]
    <3>1. i \in 1 .. n /\ i # n BY <1>1
    <3>2. longer[i] = names[i] BY <1>3, <3>1
    <3> QED BY <1>4, <1>5, <1>6, <3>1, <3>2
  <2> QED BY <1>6, <2>1 DEF Agree
<1>9. FlattenSeq(s) = FlattenSeq(f) \o s[n]
  BY <1>4, <1>6, <1>7, FlattenMore
<1>10. FlattenSeq(t) = FlattenSeq(f) \o t[n]
  BY <1>5, <1>6, <1>8, FlattenMore
<1>11. s[n] \in Seq(Letter) /\ t[n] = Append(s[n], c)
  <2>1. CASE n = 1
    <3>1. s[n] = last /\ t[n] = x
      BY <1>1, <1>3, <1>4, <1>5, <2>1
    <3> QED BY <1>1, <3>1 DEF x
  <2>2. CASE n # 1
    <3>1. s[n] = Slashed(last) /\ t[n] = Slashed(x)
      BY <1>1, <1>3, <1>4, <1>5, <2>2
    <3> DEFINE slash == <<"/">>
    <3>2. slash \in Seq(Letter)
      <4>1. "/" \in Letter BY DEF Letter
      <4> QED BY <4>1, OneIs
    <3> HIDE DEF slash, last
    <3>3. AppendsBehind(slash, last, c)
      BY <1>1, <3>2, AppendBehind
    <3>4. Slashed(x) = Append(Slashed(last), c)
      BY <3>3 DEF AppendsBehind, Slashed, slash, x
    <3>5. Slashed(last) \in Seq(Letter)
      BY <1>1, SlashedType DEF LineOfLetters
    <3> QED BY <3>1, <3>4, <3>5 DEF last
  <2> QED BY <2>1, <2>2
<1>12. FlattenSeq(f) \in Seq(Letter)
  BY <1>6, FlattenSeqType DEF LineOfLetters
<1>13. AppendsBehind(FlattenSeq(f), s[n], c)
  BY <1>11, <1>12, AppendBehind
<1>14. FlattenSeq(t) = Append(FlattenSeq(s), c)
  BY <1>9, <1>10, <1>11, <1>13 DEF AppendsBehind
<1> QED BY <1>14, JoinedIs DEF s, t, longer, x

LEMMA OneLonger ==
  ASSUME NEW E, NEW u \in Seq(E), NEW c \in E
  PROVE  Append(u, c) \in Seq(E) /\ u \o <<c>> = Append(u, c)
OBVIOUS

\* The names of a text, joined, are the text.
LEMMA JoinedSegments == \A v \in Line : Joined(Segments(v)) = v
<1> DEFINE T == {v \in Line : Joined(Segments(v)) = v}
<1>0. Name \subseteq LineOfLetters
  BY DEF Name, LineOfLetters, Letter
<1>1. <<>> \in T
  <2> DEFINE none == << <<>> >>
             empty == <<>>
  <2>1. Segments(empty) = none BY SplitNothing DEF Segments
  <2>2. empty \in Seq(LineOfLetters) /\ empty \in LineOfLetters
    BY DEF LineOfLetters
  <2>3. none \in Seq(LineOfLetters) /\ Len(none) = 1 /\ none[1] = empty
    BY <2>2, OneIs
  <2>4. FlattenSeq(Marked(none)) = empty
    <3> HIDE DEF none, empty
    <3> DEFINE m == Marked(none)
    <3>1. m \in Seq(LineOfLetters) /\ Len(m) = 1 /\ m[1] = empty
      BY <2>3, MarkedType
    <3> HIDE DEF m
    <3>2. Len(empty) = 0 /\ FlattenSeq(empty) = empty /\ empty \o empty = empty
      BY DEF empty, FlattenSeq
    <3>3. Agree(empty, m, Len(empty)) BY <3>2 DEF Agree
    <3>4. FlattenSeq(m) = FlattenSeq(empty) \o m[Len(m)]
      <4>1. Len(m) = Len(empty) + 1 BY <3>1, <3>2
      <4> QED BY <2>2, <3>1, <3>3, <4>1, FlattenMore
    <3> QED BY <3>1, <3>2, <3>4 DEF m
  <2> HIDE DEF none
  <2>5. Joined(Segments(empty)) = empty
    BY <2>1, <2>4, JoinedIs
  <2> QED BY <2>5, EmptyIsAName
<1>2. ASSUME NEW u \in Seq(STRING), NEW c \in STRING, u \in T PROVE Append(u, c) \in T
  <2> DEFINE parts == Segments(u)
  <2>1. parts \in Seq(Name) /\ parts # <<>> /\ Joined(parts) = u
    BY <1>2, SegmentsType DEF Line
  <2>2. Segments(Append(u, c)) = Grown(parts, c, "/")
    BY SplitAppend DEF Segments
  <2>3. Append(u, c) \in Line /\ u \o <<c>> = Append(u, c)
    <3>1. Append(u, c) \in Seq(STRING) /\ u \o <<c>> = Append(u, c)
      BY OneLonger
    <3> QED BY <3>1 DEF Line
  <2> HIDE DEF parts
  <2>4. parts \in Seq(LineOfLetters) BY <1>0, <2>1
  <2>5. CASE c = "/"
    <3>1. <<>> \in LineOfLetters BY DEF LineOfLetters
    <3>2. Joined(Append(parts, <<>>)) = Joined(parts) \o Slashed(<<>>)
      BY <2>1, <2>4, <3>1, JoinedMore
    <3>3. Slashed(<<>>) = <<c>> BY <2>5 DEF Slashed
    <3> QED BY <2>1, <2>2, <2>3, <2>5, <3>2, <3>3 DEF Grown
  <2>6. CASE c # "/"
    <3>1. c \in Letter BY DEF Letter
    <3>2. Joined(LastAs(parts, Append(parts[Len(parts)], c))) = Append(Joined(parts), c)
      BY <2>1, <2>4, <3>1, JoinedLonger
    <3>3. Grown(parts, c, "/") = LastAs(parts, Append(parts[Len(parts)], c))
      BY <2>6 DEF Grown, LastAs
    <3> QED BY <2>1, <2>2, <2>3, <3>2, <3>3
  <2> QED BY <2>5, <2>6
<1> HIDE DEF T
<1>3. Seq(STRING) \subseteq T BY <1>1, <1>2, TextInduction
<1> QED BY <1>3 DEF T, Line

LEMMA TailOfMore ==
  ASSUME NEW E, NEW a \in E, NEW q \in Seq(E)
  PROVE  Tail(<<a>> \o q) = q
<1> DEFINE s == <<a>> \o q
           t == Tail(s)
<1>1. s \in Seq(E) /\ Len(s) = Len(q) + 1 /\ Len(q) \in Nat /\ \A i \in 1 .. Len(q) : s[i + 1] = q[i]
  BY FirstOfMore
<1> HIDE DEF s
<1>2. s # <<>> BY <1>1
<1>3. t \in Seq(E) /\ Len(t) = Len(s) - 1 /\ \A i \in 1 .. Len(t) : t[i] = s[i + 1]
  BY <1>1, <1>2
<1> HIDE DEF t
<1>4. Len(t) = Len(q) BY <1>1, <1>3
<1>5. Agree(t, q, Len(t)) BY <1>1, <1>3, <1>4 DEF Agree
<1>6. t = q BY <1>3, <1>4, <1>5, SameSequence
<1> QED BY <1>6 DEF s, t

\* What is left, without the slash it begins with.
LEMMA WithoutItsSlash ==
  ASSUME NEW w \in Line
  PROVE  LET after == Segments(w) IN
         IF w # <<>> /\ w[1] = "/"
         THEN Len(after) > 1 /\ after[1] = <<>> /\ Joined(Tail(after)) = Tail(w)
         ELSE ~(Len(after) > 1 /\ after[1] = <<>>) /\ Joined(after) = w
<1> DEFINE after == Segments(w)
<1>1. CASE w # <<>> /\ w[1] = "/"
  <2> DEFINE q == Tail(w)
  <2>1. "/" \in STRING /\ w[1] \in STRING /\ q \in Line /\ w = <<w[1]>> \o q
    BY <1>1 DEF Line
  <2> HIDE DEF q
  <2>2. w = WithMore(<<>>, q) BY <1>1, <2>1, SlashFirst
  <2>3. after = << <<>> >> \o Segments(q)
    BY <2>1, <2>2, EmptyIsAName, SegmentsOfMore
  <2>4. Segments(q) \in Seq(Name) /\ Len(Segments(q)) \in Nat /\ Len(Segments(q)) >= 1
    BY <2>1, SegmentsType
  <2> DEFINE empty == <<>>
             Q == Segments(q)
  <2>5. empty \in Name BY EmptyIsAName
  <2> HIDE DEF empty, Q
  <2>6. Len(<<empty>> \o Q) = Len(Q) + 1 /\ (<<empty>> \o Q)[1] = empty /\ Tail(<<empty>> \o Q) = Q
    BY <2>4, <2>5, FirstOfMore, TailOfMore DEF Q
  <2>7. Len(after) > 1 /\ after[1] = <<>> /\ Tail(after) = Segments(q)
    BY <2>3, <2>4, <2>6 DEF Q, empty
  <2>8. Joined(Segments(q)) = q BY <2>1, JoinedSegments
  <2> QED BY <1>1, <2>7, <2>8 DEF q
<1>2. CASE ~(w # <<>> /\ w[1] = "/")
  <2>1. Joined(after) = w BY JoinedSegments
  <2>2. CASE w \in Name
    <3>1. after = <<w>> BY <2>2, OneName
    <3>2. Len(after) = 1 BY <3>1
    <3> QED BY <1>2, <2>1, <3>2
  <2>3. CASE w \notin Name
    <3>1. PICK b \in Name, v \in Line : "/" \in STRING /\ w = WithMore(b, v)
      BY <2>3, LineIsNamed
    <3>2. after = <<b>> \o Segments(v)
      BY <3>1, SegmentsOfMore
    <3>3. after[1] = b
      <4>1. Segments(v) \in Seq(Name) BY SegmentsType
      <4> QED BY <3>2, <4>1, FirstOfMore
    <3>4. ASSUME b = <<>> PROVE FALSE
      <4>1. w = <<"/">> \o v BY <3>1, <3>4, SlashFirst
      <4>2. w # <<>> /\ w[1] = "/" BY <3>1, <4>1, FirstIs
      <4> QED BY <1>2, <4>2
    <3> QED BY <1>2, <2>1, <3>3, <3>4
  <2> QED BY <2>2, <2>3
<1> QED BY <1>1, <1>2

\* Rest strips it.
LEMMA RestStrips ==
  ASSUME NEW path \in Line, NEW m \in 0 .. Len(path)
  PROVE  LET w == RestAsItIs(path, m) IN
         /\ w \in Line
         /\ Rest(path, m) = IF w # <<>> /\ w[1] = "/" THEN Tail(w) ELSE w
<1> DEFINE w == RestAsItIs(path, m)
           n == Len(path)
<1>0. path \in Seq(STRING) /\ n \in Nat /\ m \in Nat /\ m <= n
  BY DEF Line
<1>1. w \in Seq(STRING) /\ Len(w) = n - m /\ \A k \in 1 .. n - m : w[k] = path[m + k]
  BY <1>0, RestIs
<1>2. CASE m < n
  <2>1. 1 \in 1 .. n - m /\ m + 1 \in 0 .. n BY <1>0, <1>2
  <2>2. w # <<>> /\ w[1] = path[m + 1]
    <3> HIDE DEF w
    <3>1. Len(w) # 0 BY <1>0, <1>1, <2>1
    <3> QED BY <1>1, <2>1, <3>1
  <2>3. w = <<path[m + 1]>> \o RestAsItIs(path, m + 1) /\ path[m + 1] \in STRING
    <3>1. path[m + 1] \in STRING BY <1>0, <2>1, <1>2
    <3> QED BY <1>0, <1>2, <3>1, RestByOne
  <2>4. RestAsItIs(path, m + 1) \in Seq(STRING)
    BY <1>0, <2>1, RestIs
  <2>5. Tail(w) = RestAsItIs(path, m + 1)
    <3> HIDE DEF w
    <3> QED BY <2>3, <2>4, TailOfMore
  <2>6. RestAsItIs(path, m + 1) = SubSeq(path, m + 2, n)
    <3>1. (m + 1) + 1 = m + 2 BY <1>0
    <3> QED BY <3>1 DEF RestAsItIs
  <2>7. Rest(path, m) = IF path[m + 1] = "/" THEN SubSeq(path, m + 2, n) ELSE w
    BY <1>2 DEF Rest, RestAsItIs
  <2> HIDE DEF w
  <2> QED BY <1>1, <2>2, <2>5, <2>6, <2>7 DEF Line, w
<1>3. CASE m = n
  <2>1. w = <<>> /\ Rest(path, m) = w
    <3>1. ~(m < n) BY <1>0, <1>3
    <3>2. Rest(path, m) = w BY <3>1 DEF Rest, RestAsItIs
    <3>3. w = <<>> BY <1>0, <1>3, RestAtTheEnds
    <3> QED BY <3>2, <3>3
  <2> HIDE DEF w
  <2> QED BY <1>1, <2>1 DEF Line, w
<1> QED BY <1>0, <1>2, <1>3

\* What a location leaves over are the names it is asked for.
LEMMA UriOfNames ==
  ASSUME NEW location, NEW path, AreGiven(location, path), Matches(location, path),
         ~StopsWithinNames(location), location.mode \in {"Prefix", "PrefixRegex"}
  PROVE  Remaining(location, path) = Joined(NamesAsked(location, path))
<1> DEFINE p == location.pattern
           after == NamesAfter(p, path)
           asks == NamesAsked(location, path)
<1>1. p \in Line /\ path \in Line /\ path \in Seq(STRING) /\ p \in Seq(STRING)
  BY GivenAreLines
<1>2. PICK m \in 0 .. Len(path) :
        /\ TakesNames(p, path, m)
        /\ Remaining(location, path) =
             IF location.mode = "Prefix" /\ EndsInSlash(p) THEN RestAsItIs(path, m) ELSE Rest(path, m)
  BY <1>1, RemainingIs
<1>3. after = IF EndsInSlash(p) THEN Segments(RestAsItIs(path, m))
              ELSE IF m = Len(path) THEN <<>> ELSE Segments(Rest(path, m))
  BY <1>1, <1>2, NamesBehind
<1> DEFINE w == RestAsItIs(path, m)
<1>4. w \in Line /\ Rest(path, m) = IF w # <<>> /\ w[1] = "/" THEN Tail(w) ELSE w
  BY <1>1, RestStrips
<1>5. asks = IF /\ location.mode = "PrefixRegex" /\ EndsInSlash(p)
                /\ Len(after) > 1 /\ after[1] = <<>>
             THEN Tail(after) ELSE after
  BY DEF NamesAsked
<1> HIDE DEF p, after, asks, w
<1>6. CASE EndsInSlash(p) /\ location.mode = "Prefix"
  <2>1. asks = Segments(w) BY <1>3, <1>5, <1>6 DEF w
  <2>2. Joined(Segments(w)) = w BY <1>4, JoinedSegments
  <2> QED BY <1>2, <1>6, <2>1, <2>2 DEF asks, w
<1>7. CASE EndsInSlash(p) /\ location.mode = "PrefixRegex"
  <2>1. after = Segments(w) /\ Remaining(location, path) = Rest(path, m)
    BY <1>2, <1>3, <1>7 DEF w
  <2>2. CASE w # <<>> /\ w[1] = "/"
    <3>1. Len(after) > 1 /\ after[1] = <<>> /\ Joined(Tail(after)) = Tail(w)
      BY <1>4, <2>1, <2>2, WithoutItsSlash
    <3> QED BY <1>4, <1>5, <1>7, <2>1, <2>2, <3>1 DEF asks
  <2>3. CASE ~(w # <<>> /\ w[1] = "/")
    <3>1. ~(Len(after) > 1 /\ after[1] = <<>>) /\ Joined(after) = w
      BY <1>4, <2>1, <2>3, WithoutItsSlash
    <3>2. Rest(path, m) = w BY <1>4, <2>3
    <3>3. asks = after BY <1>5, <3>1
    <3> QED BY <2>1, <3>1, <3>2, <3>3 DEF asks
  <2> QED BY <2>2, <2>3
<1>8. CASE ~EndsInSlash(p) /\ m = Len(path)
  <2>1. asks = <<>> BY <1>3, <1>5, <1>8
  <2>2. w = <<>> BY <1>1, <1>8, RestAtTheEnds DEF w
  <2>3. Rest(path, m) = <<>> BY <1>4, <2>2
  <2> QED BY <1>2, <1>8, <2>1, <2>3, JoinedNothing DEF asks
<1>9. CASE ~EndsInSlash(p) /\ m # Len(path)
  <2>1. asks = Segments(Rest(path, m)) BY <1>3, <1>5, <1>9
  <2>2. Rest(path, m) \in Line
    <3>1. w # <<>> => Tail(w) \in Line BY <1>4 DEF Line
    <3> QED BY <1>4, <3>1
  <2>3. Joined(Segments(Rest(path, m))) = Rest(path, m)
    BY <2>2, JoinedSegments
  <2> QED BY <1>2, <1>9, <2>1, <2>3 DEF asks
<1> QED BY <1>6, <1>7, <1>8, <1>9

\* No location before the chosen one matches, but for mocks.
LEMMA NoneBefore ==
  ASSUME Given, NEW i \in DOMAIN engine.locations, engine.locations[i].provider # "mock",
         Chosen(engine, request) = 0 \/ i < Chosen(engine, request)
  PROVE  ~Matches(engine.locations[i], request.path)
<1> DEFINE takes == {j \in DOMAIN engine.locations :
                  /\ Matches(engine.locations[j], request.path)
                  /\ engine.locations[j].provider = "mock" =>
                       AllHold(engine.locations[j].conditions, request.path, request.query,
                               request.headers, <<>>)}
<1>1. takes \subseteq Nat \ {0} BY LocationsAreNumbered
<1>2. Chosen(engine, request) = IF takes = {} THEN 0 ELSE Min(takes)
  BY DEF Chosen
<1> SUFFICES ASSUME Matches(engine.locations[i], request.path) PROVE FALSE
  OBVIOUS
<1>3. i \in takes OBVIOUS
<1> HIDE DEF takes
<1>4. \E x \in takes : \A y \in takes : x <= y
  BY <1>1, <1>3, LeastNatural
<1>5. Min(takes) \in takes /\ Min(takes) <= i
  BY <1>3, <1>4 DEF Min
<1>6. Chosen(engine, request) = Min(takes) BY <1>2, <1>3
<1> DEFINE first == Chosen(engine, request)
<1>7. first \in Nat /\ first # 0 /\ i \in Nat /\ first <= i /\ (first = 0 \/ i < first)
  BY <1>1, <1>3, <1>5, <1>6
<1> HIDE DEF first
<1> QED BY <1>7

LEMMA LocationsAreGiven ==
  ASSUME Given, NEW i \in DOMAIN engine.locations
  PROVE  AreGiven(engine.locations[i], request.path)
<1>1. PICK c \in Cases : engine = c.engine /\ request = c.request
  BY DEF Given
<1> QED BY <1>1, LocationsAssumption DEF AreGiven

LEMMA RoutesByName ==
  ASSUME Given, Routes
  PROVE  /\ \A i \in DOMAIN engine.locations :
              (chosen' = 0 \/ i < chosen') /\ engine.locations[i].provider # "mock"
              => ~FitsLocation(engine.locations[i], request.path)
         /\ LET location == engine.locations[chosen'] IN
            chosen' # 0 /\ ~StopsWithinNames(location) =>
              /\ ParametersAreNames(location.pattern) => FitsLocation(location, request.path)
              /\ location.provider = "static" /\ location.mode \in {"Prefix", "PrefixRegex"}
                   => asked'.uri = Joined(NamesAsked(location, request.path))
<1>1. chosen' = Chosen(engine, request) /\ engine' = engine /\ request' = request
  BY DEF Routes
<1>2. ASSUME NEW i \in DOMAIN engine.locations, chosen' = 0 \/ i < chosen',
             engine.locations[i].provider # "mock"
      PROVE  ~FitsLocation(engine.locations[i], request.path)
  <2>1. ~Matches(engine.locations[i], request.path)
    BY <1>1, <1>2, NoneBefore
  <2>2. AreGiven(engine.locations[i], request.path)
    BY LocationsAreGiven
  <2> QED BY <2>1, <2>2, FitsThenMatches
<1> DEFINE location == engine.locations[chosen']
<1>3. ASSUME chosen' # 0, ~StopsWithinNames(location)
      PROVE  /\ ParametersAreNames(location.pattern) => FitsLocation(location, request.path)
             /\ location.provider = "static" /\ location.mode \in {"Prefix", "PrefixRegex"}
                  => asked'.uri = Joined(NamesAsked(location, request.path))
  <2>1. chosen' \in DOMAIN engine.locations /\ Matches(location, request.path)
    BY <1>1, <1>3, ChosenIsALocation
  <2>2. AreGiven(location, request.path)
    BY <2>1, LocationsAreGiven
  <2>3. location.provider = "static" => asked'.uri = Remaining(location, request.path)
    BY <1>1, <1>3 DEF Routes, Location, Asks, StaticService
  <2> HIDE DEF location
  <2>4. ParametersAreNames(location.pattern) => FitsLocation(location, request.path)
    BY <1>3, <2>1, <2>2, MatchesThenFits DEF location
  <2>5. location.mode \in {"Prefix", "PrefixRegex"} =>
          Remaining(location, request.path) = Joined(NamesAsked(location, request.path))
    BY <1>3, <2>1, <2>2, UriOfNames DEF location
  <2> QED BY <2>3, <2>4, <2>5
<1> QED BY <1>2, <1>3

\* The location that takes a request fits it name by name, none before it does, and a
\* static one is asked for the names that are left: the characters compared by
\* match_prefix, and those a regular expression takes and gives back, come to whole names,
\* but for a PrefixRegex that ends in a letter and for parameters with letters beside them.
THEOREM LocationsFitByName == Spec => LocationsTakeWholeNames
<1>1. ASSUME Given, [Next]_vars
      PROVE  [Routes =>
         /\ \A i \in DOMAIN engine.locations :
              (chosen' = 0 \/ i < chosen') /\ engine.locations[i].provider # "mock"
              => ~FitsLocation(engine.locations[i], request.path)
         /\ LET location == engine.locations[chosen'] IN
            chosen' # 0 /\ ~StopsWithinNames(location) =>
              /\ ParametersAreNames(location.pattern) => FitsLocation(location, request.path)
              /\ location.provider = "static" /\ location.mode \in {"Prefix", "PrefixRegex"}
                   => asked'.uri = Joined(NamesAsked(location, request.path))]_vars
  BY <1>1, RoutesByName
<1> QED BY <1>1, InitGiven, NextGiven, PTL DEF Spec, LocationsTakeWholeNames

-----------------------------------------------------------------------------
(* Targets name by name.                                                    *)

\* A path without a character that only the gateway stops at.
StopsAtSlash(path) == \A k \in 1 .. Len(path) : path[k] \in GatewayStops => path[k] = "/"

\* The gateway stops there where the router does.
LEMMA StopsAreTheSame ==
  ASSUME NEW pattern, NEW path, Len(path) \in Nat, StopsAtSlash(path),
         NEW i, NEW s \in 0 .. Len(path), NEW e \in 0 .. Len(path)
  PROVE  Takes(pattern, path, GatewayStops, i, s, e) <=> Takes(pattern, path, RouterStops, i, s, e)
<1>1. ASSUME NEW k \in s + 1 .. e PROVE path[k] \notin GatewayStops <=> path[k] \notin RouterStops
  <2>1. k \in 1 .. Len(path) OBVIOUS
  <2>2. path[k] \in GatewayStops => path[k] = "/"
    BY <2>1 DEF StopsAtSlash
  <2>3. "/" \in GatewayStops
    BY StopsAssumption DEF GatewayStops
  <2> QED BY <2>2, <2>3 DEF RouterStops
<1> QED BY <1>1 DEF Takes

LEMMA GatewayFitsInTurn ==
  ASSUME NEW pattern \in Seq(STRING), NEW path \in Seq(STRING), StopsAtSlash(path)
  PROVE  FitsAt(Fitting(pattern, path, FALSE, GatewayStops), pattern, path, FALSE)
<1> DEFINE from == Fitting(pattern, path, FALSE, GatewayStops)
           n == Len(pattern)
           m == Len(path)
<1>0. n \in Nat /\ m \in Nat OBVIOUS
<1>1. FitsFrom(from, pattern, path, FALSE, GatewayStops, 0)
  BY <1>0, FittingIs
<1> HIDE DEF from
<1>2. ASSUME NEW i \in 0 .. n
      PROVE  from[i] = IF i = n THEN 0 .. m
                       ELSE {s \in 0 .. m : \E e \in from[i + 1] : Takes(pattern, path, GatewayStops, i + 1, s, e)}
  BY <1>1 DEF FitsFrom
<1>3. \A i \in 0 .. n : from[i] \subseteq 0 .. m BY <1>2
<1>4. ASSUME NEW i \in 0 .. n - 1
      PROVE  from[i] = {s \in 0 .. m : \E e \in from[i + 1] : Takes(pattern, path, RouterStops, i + 1, s, e)}
  <2>1. i \in 0 .. n /\ i # n /\ i + 1 \in 0 .. n BY <1>0
  <2>2. from[i + 1] \subseteq 0 .. m BY <1>3, <2>1
  <2>3. from[i] = {s \in 0 .. m : \E e \in from[i + 1] : Takes(pattern, path, GatewayStops, i + 1, s, e)}
    BY <1>2, <2>1
  <2>4. ASSUME NEW s \in 0 .. m, NEW e \in from[i + 1]
        PROVE  Takes(pattern, path, GatewayStops, i + 1, s, e) <=> Takes(pattern, path, RouterStops, i + 1, s, e)
    BY <1>0, <2>2, StopsAreTheSame
  <2> QED BY <2>3, <2>4
<1>5. from[n] = 0 .. m
  <2>1. n \in 0 .. n BY <1>0
  <2> QED BY <1>2, <2>1
<1> QED BY <1>4, <1>5 DEF FitsAt, from

\* A mapping with parameters matches where its names fit.
LEMMA GatewayFits ==
  ASSUME NEW uri \in Seq(STRING), NEW path \in Seq(Characters), StopsAtSlash(path),
         uri # <<>>, ParametersAreNames(uri), ~OpenEnded(uri)
  PROVE  Cuts(uri, path, FALSE, GatewayStops) # {} <=> FitsNames(uri, path)
<1> DEFINE f == Fitting(uri, path, FALSE, GatewayStops)
<1>0. path \in Seq(STRING) /\ uri \in Line /\ path \in Line /\ 0 \in 0 .. Len(path)
  <2>1. path \in Seq(STRING) BY TextsOfCharacters
  <2> QED BY <2>1 DEF Line
<1>1. FitsAt(f, uri, path, FALSE) BY <1>0, GatewayFitsInTurn
<1>2. Cuts(uri, path, FALSE, GatewayStops) # {} <=> 0 \in f[0]
  BY DEF Cuts
<1> HIDE DEF f
<1>3. StillFits(uri, path, FALSE) <=> FitsNames(uri, path)
  BY DEF StillFits
<1>4. RestAsItIs(path, 0) = path BY <1>0, RestAtTheEnds
<1>5. StopsAtNames(uri, FALSE) BY DEF StopsAtNames
<1>6. \A s \in 0 .. Len(path) : StillFits(uri, RestAsItIs(path, s), FALSE) => s \in f[0]
  BY <1>0, <1>1, NamesThenElements
<1>7. \A s \in f[0] : StillFits(uri, RestAsItIs(path, s), FALSE)
  BY <1>0, <1>1, <1>5, ElementsThenNames
<1>8. StillFits(uri, path, FALSE) => 0 \in f[0]
  BY <1>0, <1>4, <1>6
<1>9. 0 \in f[0] => StillFits(uri, path, FALSE)
  BY <1>4, <1>7
<1> QED BY <1>2, <1>3, <1>8, <1>9

LEMMA GatewayCuts ==
  ASSUME NEW uri \in Seq(STRING), NEW path \in Seq(STRING), StopsAtSlash(path),
         NEW cut \in Cuts(uri, path, FALSE, GatewayStops)
  PROVE  CutsAlong(cut, uri, path, RouterStops)
<1> DEFINE n == Len(uri)
           m == Len(path)
<1>0. n \in Nat /\ m \in Nat OBVIOUS
<1>1. CutsAlong(cut, uri, path, GatewayStops) BY <1>0, CutIs
<1>2. cut[0] = 0 /\ \A i \in 0 .. n : cut[i] \in 0 .. m
  BY <1>1 DEF CutsAlong
<1>3. ASSUME NEW i \in 1 .. n PROVE Takes(uri, path, RouterStops, i, cut[i - 1], cut[i])
  <2>1. i \in 0 .. n /\ i - 1 \in 0 .. n BY <1>0
  <2>2. cut[i] \in 0 .. m /\ cut[i - 1] \in 0 .. m
    BY <1>2, <2>1
  <2>3. Takes(uri, path, GatewayStops, i, cut[i - 1], cut[i])
    BY <1>1 DEF CutsAlong
  <2> QED BY <1>0, <2>2, <2>3, StopsAreTheSame
<1>4. ASSUME n > 0, NEW e \in 0 .. m, Takes(uri, path, RouterStops, n, cut[n - 1], e)
      PROVE  e <= cut[n]
  <2>1. n - 1 \in 0 .. n BY <1>0, <1>4
  <2>2. cut[n - 1] \in 0 .. m BY <1>2, <2>1
  <2>3. Takes(uri, path, GatewayStops, n, cut[n - 1], e)
    BY <1>0, <1>4, <2>2, StopsAreTheSame
  <2> QED BY <1>1, <1>4, <2>3 DEF CutsAlong
<1> QED BY <1>2, <1>3, <1>4 DEF CutsAlong

\* What a parameter takes is the name at its place.
LEMMA CapturedIsAName ==
  ASSUME NEW uri \in Seq(STRING), NEW path \in Seq(STRING), NEW cut,
         CutsAlong(cut, uri, path, RouterStops), ~OpenEnded(uri), ParametersAreNames(uri),
         NEW i \in 1 .. Len(uri), uri[i] \in Parameters, Behind(uri, i)
  PROVE  SubSeq(path, cut[i - 1] + 1, cut[i]) = Segments(path)[Len(Segments(SubSeq(uri, 1, i)))]
<1> DEFINE n == Len(uri)
           m == Len(path)
           s == cut[i - 1]
           e == cut[i]
           b == SubSeq(path, s + 1, e)
           before == SubSeq(path, 1, s)
           taken == SubSeq(path, 1, e)
           j == Len(Segments(SubSeq(uri, 1, i)))
<1>0. n \in Nat /\ m \in Nat /\ i \in Nat /\ i > 1 /\ uri[i - 1] = "/" /\ i <= n
  BY DEF Behind
<1>1. i \in 0 .. n /\ i - 1 \in 0 .. n /\ i - 1 \in 1 .. n /\ (i - 1) - 1 = i - 2 /\ i - 2 \in 0 .. n
  BY <1>0
<1>2. s \in 0 .. m /\ e \in 0 .. m /\ cut[i - 2] \in 0 .. m
  BY <1>1 DEF CutsAlong
<1>3. s < e /\ \A k \in s + 1 .. e : path[k] # "/"
  <2>1. Takes(uri, path, RouterStops, i, s, e)
    BY DEF CutsAlong
  <2> QED BY <2>1 DEF Takes, RouterStops
<1>4. s = cut[i - 2] + 1 /\ path[s] = "/"
  <2>1. Takes(uri, path, RouterStops, i - 1, cut[i - 2], s)
    BY <1>1 DEF CutsAlong
  <2>2. uri[i - 1] \notin Parameters BY <1>0 DEF Parameters
  <2> QED BY <1>0, <2>1, <2>2 DEF Takes
<1>5. e = m \/ path[e + 1] = "/"
  <2>1. CASE i = n
    <3>1. TakesNames(uri, path, e) BY <2>1, CutTakesNames
    <3>2. ~EndsInSlash(uri)
      <4>1. uri[n] # "/" BY <2>1 DEF Parameters
      <4> QED BY <4>1 DEF EndsInSlash
    <3> QED BY <3>1, <3>2 DEF TakesNames
  <2>2. CASE i # n
    <3>1. i + 1 \in 1 .. n /\ (i + 1) - 1 = i /\ i < n /\ i \in DOMAIN uri
      BY <1>0, <2>2
    <3>2. uri[i + 1] = "/" BY <3>1 DEF ParametersAreNames
    <3>3. Takes(uri, path, RouterStops, i + 1, cut[i], cut[i + 1])
      BY <3>1 DEF CutsAlong
    <3>4. cut[i + 1] = e + 1 /\ path[cut[i + 1]] = "/"
      BY <3>2, <3>3 DEF Takes, Parameters
    <3> QED BY <3>4
  <2> QED BY <2>1, <2>2
<1>6. s \in Nat /\ e \in Nat /\ s <= e /\ e <= m /\ s >= 1 /\ s - 1 \in Nat /\ (s - 1) + 1 = s
  <2> DEFINE r == cut[i - 2]
  <2>1. s \in 0 .. m /\ e \in 0 .. m /\ r \in 0 .. m /\ s < e /\ s = r + 1
    BY <1>2, <1>3, <1>4
  <2> HIDE DEF r, s, e, m
  <2> QED BY <1>0, <2>1
<1>7. "/" \in STRING BY <1>2, <1>4, <1>6
<1>8. j = Len(Segments(taken))
  BY <1>1, CutsKeepTheCount DEF Segments
<1>9. b \in Name
  <2> HIDE DEF s, e
  <2>1. b \in Seq(STRING) /\ Len(b) = e - s /\ \A k \in 1 .. e - s : b[k] = path[s + k]
    BY <1>6, SubSeqIs
  <2> HIDE DEF b
  <2>2. ASSUME NEW k \in 1 .. Len(b) PROVE b[k] \in STRING \ {"/"}
    <3>1. s + k \in s + 1 .. e /\ k \in 1 .. e - s
      BY <1>6, <2>1
    <3> QED BY <1>3, <2>1, <3>1
  <2> DEFINE D == STRING \ {"/"}
  <2>3. b = [k \in 1 .. Len(b) |-> b[k]] /\ Len(b) \in Nat
    BY <2>1
  <2>4. \A k \in 1 .. Len(b) : b[k] \in D BY <2>2
  <2> HIDE DEF D
  <2>5. b \in Seq(D) BY <2>3, <2>4
  <2> QED BY <2>5 DEF D, Name
<1> DEFINE t == SubSeq(path, 1, s - 1)
<1>10. taken = Append(t, "/") \o b /\ t \in Seq(STRING)
  <2>1. taken = before \o b BY <1>6, SomeMore
  <2>2. before = Append(t, path[s])
    <3>1. s - 1 < m BY <1>6
    <3>2. SubSeq(path, 1, (s - 1) + 1) = Append(SubSeq(path, 1, s - 1), path[(s - 1) + 1])
      BY <1>6, <3>1, OneMore
    <3> QED BY <1>6, <3>2
  <2>3. t \in Seq(STRING) BY <1>6
  <2> QED BY <1>4, <2>1, <2>2, <2>3
<1>11. taken \in Seq(STRING) BY <1>6
<1> HIDE DEF taken, b, t
<1>12. Segments(taken) = Segments(t) \o <<b>>
  <2>1. Segments(taken) = Segments(t) \o Segments(b)
    BY <1>7, <1>9, <1>10, NamesAreLines, SplitAtSeparator DEF Segments, Line
  <2> QED BY <1>9, <2>1, OneName
<1> DEFINE parts == Segments(taken)
           first == Segments(t)
<1>13. first \in Seq(Name) /\ parts \in Seq(Name) /\ parts = first \o <<b>>
  BY <1>10, <1>11, <1>12, SegmentsType DEF Line
<1> HIDE DEF parts, first, j
<1>14. j \in 1 .. Len(parts) /\ parts[j] = b
  <2>1. parts = Append(first, b) /\ Len(first) \in Nat
    BY <1>9, <1>13, OneLonger
  <2>2. Len(parts) = Len(first) + 1 /\ parts[Len(first) + 1] = b
    BY <2>1, <1>13, AppendIs
  <2> QED BY <1>8, <2>1, <2>2 DEF parts
<1>15. Segments(path)[j] = parts[j]
  <2>1. CASE e = m
    <3>1. taken = path BY <2>1, AllOfIt DEF taken
    <3> QED BY <3>1 DEF parts
  <2>2. CASE e # m
    <3> DEFINE v == RestAsItIs(path, e + 1)
    <3>1. e < m /\ e + 1 \in 0 .. m /\ path[e + 1] = "/"
      BY <1>5, <1>6, <2>2
    <3>2. v \in Seq(STRING) BY <3>1, RestIs
    <3>3. path = Append(taken, "/") \o v
      <4>1. SubSeq(path, 1, e + 1) = Append(taken, path[e + 1])
        BY <1>6, <3>1, OneMore DEF taken
      <4>2. e + 1 \in Nat /\ e + 1 <= m /\ m <= m
        BY <1>0, <1>6, <3>1
      <4>3. SubSeq(path, 1, m) = SubSeq(path, 1, e + 1) \o SubSeq(path, (e + 1) + 1, m)
        BY <1>0, <4>2, SomeMore
      <4> QED BY <3>1, <4>1, <4>3, AllOfIt DEF RestAsItIs
    <3> HIDE DEF v
    <3>4. Segments(path) = parts \o Segments(v)
      BY <1>7, <1>11, <3>2, <3>3, SplitAtSeparator DEF Segments, parts
    <3> DEFINE rest == Segments(v)
    <3>5. rest \in Seq(Name) BY <3>2, SegmentsType DEF Line
    <3> HIDE DEF rest
    <3>6. Joins(parts \o rest, parts, rest)
      BY <1>13, <3>5, ConcatIs
    <3>7. (parts \o rest)[j] = parts[j]
      BY <1>14, <3>6 DEF Joins
    <3> QED BY <3>4, <3>7 DEF rest
  <2> QED BY <2>1, <2>2
<1> QED BY <1>14, <1>15 DEF b, j

\* A mapping and a path as they are in a program that calls the gateway.
AreMapped(mapping, path) ==
  /\ path \in Seq(Characters)
  /\ mapping.uri \in Seq(STRING)
  /\ mapping.target \in Seq(STRING)
  /\ \A i \in DOMAIN mapping.uri : mapping.uri[i] \in Parameters => Behind(mapping.uri, i)

\* The name that a parameter of a mapping stands for, and the target with such names.
Stood(mapping, path, c) == Segments(path)[Len(Segments(SubSeq(mapping.uri, 1, LastAt(mapping, c))))]
ByNames(mapping, path) ==
  FlattenSeq([i \in DOMAIN mapping.target |->
    IF mapping.target[i] \in Parameters THEN Stood(mapping, path, mapping.target[i])
    ELSE <<mapping.target[i]>>])
ByCut(mapping, path, cut) ==
  FlattenSeq([i \in DOMAIN mapping.target |->
    IF mapping.target[i] \in Parameters THEN Captured(mapping, path, cut, mapping.target[i])
    ELSE <<mapping.target[i]>>])

\* Nothing is left, or no more than the slash that the mapping's path ends in.
AllTaken(uri, path) ==
  \/ NamesAfter(uri, path) = <<>>
  \/ EndsInSlash(uri) /\ NamesAfter(uri, path) = << <<>> >>

LEMMA MappedIs ==
  ASSUME NEW mapping, NEW path
  PROVE  Mapped(mapping, path) =
           IF ~FitsNames(mapping.uri, path) THEN {}
           ELSE IF AllTaken(mapping.uri, path) THEN {ByNames(mapping, path)}
           ELSE {WithSlash(ByNames(mapping, path)) \o Joined(NamesAfter(mapping.uri, path))}
<1> DEFINE t == mapping.target
           names == [c \in ParametersOf(t) |-> Stood(mapping, path, c)]
<1>1. \A i \in DOMAIN t : t[i] \in Parameters => names[t[i]] = Stood(mapping, path, t[i])
  BY DEF ParametersOf, ToSet
<1>2. Filled(t, names) = ByNames(mapping, path)
  <2> HIDE DEF names
  <2> QED BY <1>1 DEF Filled, ByNames
<1>3. Mapped(mapping, path) =
        IF ~FitsNames(mapping.uri, path) THEN {}
        ELSE IF AllTaken(mapping.uri, path) THEN {Filled(t, names)}
        ELSE {WithSlash(Filled(t, names)) \o Joined(NamesAfter(mapping.uri, path))}
  BY DEF Mapped, AllTaken, Stood
<1> HIDE DEF names
<1> QED BY <1>2, <1>3

LEMMA TargetUriIs ==
  ASSUME NEW mapping, NEW path
  PROVE  TargetUri(mapping, path) =
           IF Maps(mapping, path) = "none" THEN {}
           ELSE IF Maps(mapping, path) = "Exact" THEN {mapping.target}
           ELSE IF Maps(mapping, path) = "Prefix"
           THEN {ReplacedAll(path, mapping.uri, mapping.target)}
           ELSE IF \E c \in ToSet(mapping.target) \cap Parameters : c \notin ToSet(mapping.uri) THEN {}
           ELSE {WithRest(ByCut(mapping, path, cut), path, cut[Len(mapping.uri)]) :
                   cut \in Cuts(mapping.uri, path, FALSE, GatewayStops)}
<1> DEFINE t == mapping.target
           texts(cut) == [c \in ParametersOf(t) |-> Captured(mapping, path, cut, c)]
<1>1. \A cut : \A i \in DOMAIN t : t[i] \in Parameters =>
        texts(cut)[t[i]] = Captured(mapping, path, cut, t[i])
  BY DEF ParametersOf, ToSet
<1>2. ASSUME NEW cut PROVE Filled(t, texts(cut)) = ByCut(mapping, path, cut)
  <2> HIDE DEF texts
  <2> QED BY <1>1 DEF Filled, ByCut
<1>3. TargetUri(mapping, path) =
        IF Maps(mapping, path) = "none" THEN {}
        ELSE IF Maps(mapping, path) = "Exact" THEN {mapping.target}
        ELSE IF Maps(mapping, path) = "Prefix"
        THEN {ReplacedAll(path, mapping.uri, mapping.target)}
        ELSE IF \E c \in ParametersOf(t) : c \notin ToSet(mapping.uri) THEN {}
        ELSE {WithRest(Filled(t, texts(cut)), path, cut[Len(mapping.uri)]) :
                cut \in Cuts(mapping.uri, path, FALSE, GatewayStops)}
  BY DEF TargetUri
<1> HIDE DEF texts
<1>4. {WithRest(Filled(t, texts(cut)), path, cut[Len(mapping.uri)]) :
         cut \in Cuts(mapping.uri, path, FALSE, GatewayStops)}
      = {WithRest(ByCut(mapping, path, cut), path, cut[Len(mapping.uri)]) :
           cut \in Cuts(mapping.uri, path, FALSE, GatewayStops)}
  <2> DEFINE A(cut) == WithRest(Filled(t, texts(cut)), path, cut[Len(mapping.uri)])
             B(cut) == WithRest(ByCut(mapping, path, cut), path, cut[Len(mapping.uri)])
             C == Cuts(mapping.uri, path, FALSE, GatewayStops)
  <2>1. \A cut : A(cut) = B(cut) BY <1>2
  <2> HIDE DEF A, B, C
  <2>2. {A(cut) : cut \in C} = {B(cut) : cut \in C} BY <2>1
  <2> QED BY <2>2 DEF A, B, C
<1>5. \A c : c \in ParametersOf(t) <=> c \in ToSet(t) \cap Parameters
  BY DEF ParametersOf
<1> QED BY <1>3, <1>4, <1>5

LEMMA ParameterIsAt ==
  ASSUME NEW mapping, mapping.uri \in Seq(STRING), NEW c \in ToSet(mapping.uri)
  PROVE  LastAt(mapping, c) \in 1 .. Len(mapping.uri) /\ mapping.uri[LastAt(mapping, c)] = c
<1> DEFINE S == {i \in DOMAIN mapping.uri : mapping.uri[i] = c}
           n == Len(mapping.uri)
<1>1. n \in Nat /\ DOMAIN mapping.uri = 1 .. n OBVIOUS
<1>2. S \subseteq 0 .. n /\ S # {} BY <1>1 DEF ToSet
<1> HIDE DEF n
<1>3. Max(S) \in S
  <2> HIDE DEF S
  <2> QED BY <1>1, <1>2, GreatestIs
<1> QED BY <1>1, <1>3 DEF LastAt, n

\* The texts that a mapping's parameters take are the names at their places.
LEMMA TargetByNames ==
  ASSUME NEW mapping, NEW path, AreMapped(mapping, path), NEW cut,
         CutsAlong(cut, mapping.uri, path, RouterStops), ~OpenEnded(mapping.uri),
         ParametersAreNames(mapping.uri),
         ToSet(mapping.target) \cap Parameters \subseteq ToSet(mapping.uri)
  PROVE  ByCut(mapping, path, cut) = ByNames(mapping, path)
<1>1. ASSUME NEW i \in DOMAIN mapping.target, mapping.target[i] \in Parameters
      PROVE  Captured(mapping, path, cut, mapping.target[i]) = Stood(mapping, path, mapping.target[i])
  <2> DEFINE c == mapping.target[i]
             a == LastAt(mapping, c)
  <2>1. c \in ToSet(mapping.uri) BY <1>1 DEF ToSet
  <2>2. mapping.uri \in Seq(STRING) /\ path \in Seq(STRING)
    BY TextsOfCharacters DEF AreMapped
  <2>3. a \in 1 .. Len(mapping.uri) /\ mapping.uri[a] = c
    BY <2>1, <2>2, ParameterIsAt
  <2>4. Behind(mapping.uri, a)
    BY <1>1, <2>2, <2>3 DEF AreMapped
  <2> HIDE DEF a
  <2>5. SubSeq(path, cut[a - 1] + 1, cut[a]) = Segments(path)[Len(Segments(SubSeq(mapping.uri, 1, a)))]
    BY <1>1, <2>2, <2>3, <2>4, CapturedIsAName
  <2> QED BY <2>5 DEF Captured, Stood, a
<1> QED BY <1>1 DEF ByCut, ByNames

\* A path without an empty name inside.
NoTwoSlashes(path) == \A i \in 1 .. Len(path) : ~OccursAt(path, <<"/", "/">>, i)

LEMMA NotTwo ==
  ASSUME NEW path \in Seq(STRING), NoTwoSlashes(path), NEW i \in Nat, i >= 1, i + 1 <= Len(path),
         path[i] = "/"
  PROVE  path[i + 1] # "/"
<1> SUFFICES ASSUME path[i + 1] = "/" PROVE FALSE
  OBVIOUS
<1> DEFINE two == <<"/", "/">>
           b == SubSeq(path, i, i + 1)
<1>1. Len(two) = 2 /\ two[1] = "/" /\ two[2] = "/" OBVIOUS
<1>2. Len(path) \in Nat /\ i \in 1 .. Len(path) /\ i + 2 - 1 = i + 1 /\ i - 1 \in Nat /\ (i - 1) + 1 = i
      /\ i - 1 <= i + 1 /\ (i + 1) - (i - 1) = 2 /\ (i - 1) + 2 = i + 1
  OBVIOUS
<1>3. b \in Seq(STRING) /\ Len(b) = 2 /\ \A k \in 1 .. 2 : b[k] = path[(i - 1) + k]
  <2>1. /\ SubSeq(path, (i - 1) + 1, i + 1) \in Seq(STRING)
        /\ Len(SubSeq(path, (i - 1) + 1, i + 1)) = (i + 1) - (i - 1)
        /\ \A k \in 1 .. (i + 1) - (i - 1) : SubSeq(path, (i - 1) + 1, i + 1)[k] = path[(i - 1) + k]
    BY <1>2, SubSeqIs
  <2> QED BY <1>2, <2>1
<1>4. b[1] = "/" /\ b[2] = "/"
  <2>1. 1 \in 1 .. 2 /\ 2 \in 1 .. 2 OBVIOUS
  <2> HIDE DEF b
  <2> QED BY <1>2, <1>3, <2>1
<1>5. b = two
  <2>1. two \in Seq(STRING)
    <3>1. path[i] \in STRING BY <1>2
    <3> QED BY <3>1
  <2>2. Agree(b, two, 2)
    <3> HIDE DEF b, two
    <3>1. \A k \in 1 .. 2 : k = 1 \/ k = 2 OBVIOUS
    <3> QED BY <1>1, <1>4, <3>1 DEF Agree
  <2> HIDE DEF b, two
  <2> QED BY <1>1, <1>3, <2>1, <2>2, SameSequence
<1>6. OccursAt(path, two, i)
  <2>1. i + Len(two) - 1 = i + 1 BY <1>1, <1>2
  <2> HIDE DEF two
  <2> QED BY <1>2, <1>5, <2>1 DEF OccursAt, b
<1> QED BY <1>2, <1>6 DEF NoTwoSlashes

\* What follows a target are the names that are left.
LEMMA RestByNames ==
  ASSUME NEW uri \in Seq(STRING), NEW path \in Seq(STRING), NEW cut,
         CutsAlong(cut, uri, path, RouterStops), ~OpenEnded(uri), NoTwoSlashes(path), NEW target
  PROVE  WithRest(target, path, cut[Len(uri)]) =
           IF AllTaken(uri, path) THEN target ELSE WithSlash(target) \o Joined(NamesAfter(uri, path))
<1> DEFINE m == cut[Len(uri)]
           n == Len(path)
           after == NamesAfter(uri, path)
           w == RestAsItIs(path, m)
           rest == Rest(path, m)
<1>1. m \in 0 .. n /\ TakesNames(uri, path, m) /\ path \in Line /\ n \in Nat
  BY CutTakesNames DEF Line
<1> HIDE DEF m
<1>2. after = IF EndsInSlash(uri) THEN Segments(w) ELSE IF m = n THEN <<>> ELSE Segments(rest)
  BY <1>1, NamesBehind
<1>3. w \in Line /\ rest = IF w # <<>> /\ w[1] = "/" THEN Tail(w) ELSE w
  BY <1>1, RestStrips
<1>4. rest \in Line
  <2>1. w # <<>> => Tail(w) \in Line BY <1>3 DEF Line
  <2> QED BY <1>3, <2>1
<1>5. w = <<>> <=> m = n
  <2>1. Len(w) = n - m /\ w \in Seq(STRING) BY <1>1, RestIs
  <2> HIDE DEF w
  <2> QED BY <1>1, <2>1
<1>6. WithRest(target, path, m) = IF m = n THEN target ELSE WithSlash(target) \o rest
  BY DEF WithRest
<1>7. \A v \in Line : Segments(v) # <<>> /\ Joined(Segments(v)) = v
  BY SegmentsType, JoinedSegments
<1>8. Segments(<<>>) = << <<>> >>
  BY SplitNothing DEF Segments
<1>9. CASE EndsInSlash(uri) /\ m = n
  <2>1. w = <<>> BY <1>5, <1>9
  <2>2. after = << <<>> >> BY <1>2, <1>8, <1>9, <2>1
  <2> QED BY <1>6, <1>9, <2>2 DEF AllTaken, m
<1>10. CASE EndsInSlash(uri) /\ m # n
  <2> HIDE DEF w
  <2>1. after = Segments(w) /\ w # <<>> BY <1>2, <1>5, <1>10
  <2>2. after # << <<>> >>
    <3>1. Joined(Segments(w)) = w /\ Joined(Segments(<<>>)) = <<>>
      BY <1>3, <1>7, EmptyIsAName
    <3> QED BY <1>8, <2>1, <3>1
  <2>3. after # <<>> /\ Joined(after) = w
    BY <1>3, <1>7, <2>1
  <2>4. w[1] # "/"
    <3> DEFINE taken == SubSeq(path, 1, m)
    <3>1. EndsInSlash(taken) BY <1>1, <1>10 DEF TakesNames
    <3>2. taken \in Seq(STRING) /\ Len(taken) = m /\ \A k \in 1 .. m : taken[k] = path[k]
      BY <1>1
    <3> HIDE DEF taken
    <3>3. m >= 1 /\ path[m] = "/"
      BY <1>1, <3>1, <3>2 DEF EndsInSlash
    <3>4. m \in Nat /\ m + 1 <= n BY <1>1, <1>10
    <3>5. path[m + 1] # "/" BY <3>3, <3>4, NotTwo
    <3>6. w[1] = path[m + 1]
      <4>1. \A k \in 1 .. n - m : w[k] = path[m + k]
        BY <1>1, RestIs DEF w
      <4>2. 1 \in 1 .. n - m BY <1>1, <3>4
      <4> QED BY <4>1, <4>2
    <3> QED BY <3>5, <3>6
  <2>5. rest = w BY <1>3, <2>4
  <2> QED BY <1>6, <1>10, <2>2, <2>3, <2>5 DEF AllTaken, m
<1>11. CASE ~EndsInSlash(uri) /\ m = n
  <2>1. after = <<>> BY <1>2, <1>11
  <2> QED BY <1>6, <1>11, <2>1 DEF AllTaken, m
<1>12. CASE ~EndsInSlash(uri) /\ m # n
  <2> HIDE DEF rest
  <2>1. after = Segments(rest) BY <1>2, <1>12
  <2>2. after # <<>> /\ Joined(after) = rest
    BY <1>4, <1>7, <2>1
  <2> QED BY <1>6, <1>12, <2>2 DEF AllTaken, m, rest
<1> QED BY <1>9, <1>10, <1>11, <1>12

\* str::replace reads a text from its end on.
ReplacedFrom(f, path, old, new, m) ==
  f = [i \in m .. Len(path) + 1 |->
        IF i > Len(path) THEN <<>>
        ELSE IF OccursAt(path, old, i) THEN new \o f[i + Len(old)]
        ELSE <<path[i]>> \o f[i + 1]]

LEMMA ReplacedExists ==
  ASSUME NEW path, Len(path) \in Nat, NEW old, Len(old) \in Nat, Len(old) > 0, NEW new
  PROVE  \A k \in Nat : k <= Len(path) => \E f : ReplacedFrom(f, path, old, new, Len(path) + 1 - k)
<1> DEFINE n == Len(path)
           l == Len(old)
           Are(f, m) == f = [i \in m .. n + 1 |-> IF i > n THEN <<>>
                               ELSE IF OccursAt(path, old, i) THEN new \o f[i + l]
                               ELSE <<path[i]>> \o f[i + 1]]
           S == {k \in Nat : k <= n => \E f : Are(f, n + 1 - k)}
<1>0. \A f, m : ReplacedFrom(f, path, old, new, m) <=> Are(f, m)
  BY DEF ReplacedFrom
<1>00. n \in Nat /\ l \in Nat /\ l > 0 OBVIOUS
<1>01. \A i : OccursAt(path, old, i) => i + l - 1 <= n
  BY DEF OccursAt
<1> HIDE DEF n, l
<1>1. 0 \in S
  <2> DEFINE f == [i \in n + 1 .. n + 1 |-> <<>>]
  <2>1. Are(f, n + 1) BY <1>00
  <2>2. n + 1 - 0 = n + 1 BY <1>00
  <2> HIDE DEF Are
  <2> QED BY <2>1, <2>2
<1>2. ASSUME NEW k \in Nat, k \in S PROVE k + 1 \in S
  <2> HIDE DEF Are
  <2> SUFFICES ASSUME k + 1 <= n PROVE \E f : Are(f, n + 1 - (k + 1))
    OBVIOUS
  <2> DEFINE m == n + 1 - (k + 1)
  <2>1. m \in Nat /\ n + 1 - k = m + 1 /\ m <= n BY <1>00
  <2>2. PICK f : Are(f, m + 1)
    <3>1. \E f : Are(f, n + 1 - k) BY <1>00, <1>2
    <3> QED BY <2>1, <3>1
  <2> HIDE DEF m
  <2> DEFINE first == IF OccursAt(path, old, m) THEN new \o f[m + l] ELSE <<path[m]>> \o f[m + 1]
  <2> HIDE DEF first
  <2> DEFINE g == [i \in m .. n + 1 |-> IF i = m THEN first ELSE f[i]]
  <2> USE DEF Are
  <2>3. ASSUME NEW i \in m .. n + 1
        PROVE  g[i] = IF i > n THEN <<>>
                      ELSE IF OccursAt(path, old, i) THEN new \o g[i + l]
                      ELSE <<path[i]>> \o g[i + 1]
    <3>0. OccursAt(path, old, i) => i + l <= n + 1
      BY <1>00, <1>01, <2>1
    <3>1. CASE i = m
      <4>1. g[i] = first /\ g[m + 1] = f[m + 1] /\ ~(i > n)
        BY <1>00, <2>1, <3>1
      <4>2. OccursAt(path, old, i) => g[m + l] = f[m + l]
        BY <1>00, <2>1, <3>0, <3>1
      <4> HIDE DEF g
      <4> QED BY <3>1, <4>1, <4>2 DEF first
    <3>2. CASE i # m
      <4>1. i \in m + 1 .. n + 1 /\ g[i] = f[i] /\ (~(i > n) => g[i + 1] = f[i + 1])
        BY <1>00, <2>1, <3>2
      <4>2. OccursAt(path, old, i) => g[i + l] = f[i + l]
        BY <1>00, <2>1, <3>0, <3>2
      <4> HIDE DEF g
      <4>3. f[i] = IF i > n THEN <<>>
                   ELSE IF OccursAt(path, old, i) THEN new \o f[i + l]
                   ELSE <<path[i]>> \o f[i + 1]
        BY <2>2, <4>1
      <4> QED BY <4>1, <4>2, <4>3
    <3> QED BY <3>1, <3>2
  <2>4. Are(g, m) BY <2>3
  <2> HIDE DEF g, Are
  <2> QED BY <2>4 DEF m
<1> HIDE DEF S
<1>3. Nat \subseteq S BY <1>1, <1>2, Induction
<1> HIDE DEF Are
<1> QED BY <1>0, <1>3 DEF S, n, l

LEMMA ReplacedIs ==
  ASSUME NEW path, Len(path) \in Nat, NEW old, Len(old) \in Nat, Len(old) > 0, NEW new
  PROVE  \E f : ReplacedFrom(f, path, old, new, 1) /\ ReplacedAll(path, old, new) = f[1]
<1> DEFINE f == CHOOSE g : ReplacedFrom(g, path, old, new, 1)
<1>1. \E g : ReplacedFrom(g, path, old, new, 1)
  <2>1. Len(path) <= Len(path) /\ Len(path) + 1 - Len(path) = 1
    OBVIOUS
  <2> QED BY <2>1, ReplacedExists
<1>2. ReplacedFrom(f, path, old, new, 1) BY <1>1
<1>3. old # <<>> OBVIOUS
<1>4. ReplacedAll(path, old, new) = f[1]
  BY <1>3 DEF ReplacedAll, ReplacedFrom
<1> QED BY <1>2, <1>4

\* A text that occurs at the beginning, and nowhere else, is replaced there.
OccursNoMore(path, old) == \A i \in 2 .. Len(path) : ~OccursAt(path, old, i)
BeginsOnce(path, old, v) ==
  /\ path \in Seq(STRING) /\ old \in Seq(STRING) /\ v \in Seq(STRING)
  /\ old # <<>> /\ path = old \o v
  /\ OccursNoMore(path, old)

LEMMA ReplacedOnce ==
  ASSUME NEW path, NEW old, NEW v, BeginsOnce(path, old, v), NEW new
  PROVE  ReplacedAll(path, old, new) = new \o v
<1> DEFINE n == Len(path)
           l == Len(old)
<1>0. /\ path \in Seq(STRING) /\ old \in Seq(STRING) /\ v \in Seq(STRING)
      /\ old # <<>> /\ path = old \o v /\ OccursNoMore(path, old)
  BY DEF BeginsOnce
<1>1. n \in Nat /\ l \in Nat /\ l > 0 /\ Len(v) \in Nat
  BY <1>0
<1>2. Joins(path, old, v) BY <1>0, ConcatIs
<1>3. n = l + Len(v) /\ l <= n BY <1>1, <1>2 DEF Joins
<1>4. PICK f : ReplacedFrom(f, path, old, new, 1) /\ ReplacedAll(path, old, new) = f[1]
  BY <1>1, ReplacedIs
<1>5. ASSUME NEW i \in 1 .. n + 1
      PROVE  f[i] = IF i > n THEN <<>>
                    ELSE IF OccursAt(path, old, i) THEN new \o f[i + l]
                    ELSE <<path[i]>> \o f[i + 1]
  BY <1>4 DEF ReplacedFrom
<1>6. \A i \in 2 .. n + 1 : f[i] = RestAsItIs(path, i - 1)
  <2> DEFINE T == {i \in Nat : i >= 2 => f[i] = RestAsItIs(path, i - 1)}
             top == n + 1
  <2>1. top \in T
    <3>1. f[n + 1] = <<>>
      <4>1. n + 1 \in 1 .. n + 1 /\ n + 1 > n BY <1>1
      <4> QED BY <1>5, <4>1
    <3>2. (n + 1) - 1 = n /\ n + 1 \in Nat BY <1>1
    <3>3. RestAsItIs(path, n) = <<>> BY <1>0, RestAtTheEnds
    <3> QED BY <3>1, <3>2, <3>3
  <2>2. ASSUME NEW i \in 1 .. top - 1, i + 1 \in T PROVE i \in T
    <3> SUFFICES ASSUME i >= 2 PROVE f[i] = RestAsItIs(path, i - 1)
      BY <1>1
    <3>1. i \in 2 .. n /\ i \in 1 .. n + 1 /\ ~(i > n) /\ (i + 1) - 1 = i /\ i + 1 >= 2 /\ (i - 1) + 1 = i
          /\ i - 1 \in Nat /\ i - 1 < n
      BY <1>1
    <3>2. f[i + 1] = RestAsItIs(path, i) BY <2>2, <3>1
    <3>3. f[i] = <<path[i]>> \o f[i + 1]
      BY <1>0, <1>5, <3>1 DEF OccursNoMore
    <3>4. RestAsItIs(path, i - 1) = <<path[(i - 1) + 1]>> \o RestAsItIs(path, (i - 1) + 1)
      BY <1>0, <3>1, RestByOne
    <3> QED BY <3>1, <3>2, <3>3, <3>4
  <2>3. top \in Nat BY <1>1
  <2> HIDE DEF T, top
  <2>4. 1 .. top \subseteq T BY <2>1, <2>2, <2>3, Downward
  <2>5. ASSUME NEW i \in 2 .. n + 1 PROVE f[i] = RestAsItIs(path, i - 1)
    <3>1. i \in 1 .. top /\ i >= 2 BY <1>1 DEF top
    <3>2. i \in T BY <2>4, <3>1
    <3> QED BY <3>1, <3>2 DEF T
  <2> QED BY <2>5
<1>7. RestAsItIs(path, l) = v
  BY <1>0, BehindIs DEF RestAsItIs
<1>8. OccursAt(path, old, 1)
  <2>1. 1 + l - 1 = l BY <1>1
  <2>2. SubSeq(path, 1, l) = old
    <3> DEFINE b == SubSeq(path, 1, l)
    <3>1. b \in Seq(STRING) /\ Len(b) = l /\ \A i \in 1 .. l : b[i] = path[i]
      BY <1>0, <1>1, <1>3
    <3>2. Agree(b, old, l)
      <4> HIDE DEF b
      <4> QED BY <1>2, <3>1 DEF Agree, Joins
    <3> HIDE DEF b
    <3>3. b = old BY <1>0, <3>1, <3>2, SameSequence
    <3> QED BY <3>3 DEF b
  <2> QED BY <1>3, <2>1, <2>2 DEF OccursAt
<1>9. f[1] = new \o f[1 + l]
  <2>1. 1 \in 1 .. n + 1 /\ ~(1 > n) BY <1>1, <1>3
  <2> QED BY <1>5, <1>8, <2>1
<1>10. f[1 + l] = RestAsItIs(path, l)
  <2>1. 1 + l \in 2 .. n + 1 /\ (1 + l) - 1 = l
    BY <1>1, <1>3
  <2> QED BY <1>6, <2>1
<1> QED BY <1>4, <1>7, <1>9, <1>10

\* A target without parameters is itself.
LEMMA TargetItself ==
  ASSUME NEW mapping, NEW path, mapping.target \in Seq(STRING), ~HasParameters(mapping.target)
  PROVE  ByNames(mapping, path) = mapping.target
<1> DEFINE t == mapping.target
<1>1. \A i \in DOMAIN t : t[i] \notin Parameters
  BY DEF HasParameters
<1>2. ByNames(mapping, path) = FlattenSeq(Ones(t))
  BY <1>1 DEF ByNames, Ones
<1>3. FlattenSeq(Ones(t)) = t BY FlattenOnes
<1> QED BY <1>2, <1>3

\* A path that is the mapping's own is all taken.
LEMMA OwnPathIsTaken ==
  ASSUME NEW path \in Seq(STRING)
  PROVE  AllTaken(path, path)
<1> DEFINE n == Len(path)
           after == NamesAfter(path, path)
<1>1. n \in 0 .. Len(path) OBVIOUS
<1>2. TakesNames(path, path, n) BY AllOfIt DEF TakesNames
<1>3. after = IF EndsInSlash(path) THEN Segments(RestAsItIs(path, n)) ELSE <<>>
  <2>1. after = IF EndsInSlash(path) THEN Segments(RestAsItIs(path, n))
                ELSE IF n = Len(path) THEN <<>> ELSE Segments(Rest(path, n))
    BY <1>1, <1>2, NamesBehind
  <2> QED BY <2>1
<1>4. Segments(RestAsItIs(path, n)) = << <<>> >>
  <2>1. RestAsItIs(path, n) = <<>> BY RestAtTheEnds
  <2> QED BY <2>1, SplitNothing DEF Segments
<1> HIDE DEF after
<1> QED BY <1>3, <1>4 DEF AllTaken, after

\* A path that goes on behind a mapping's is one that begins with it and a slash.
LEMMA BeginsWithSlash ==
  ASSUME NEW uri \in Seq(STRING), NEW path \in Seq(STRING), uri # path, "/" \in STRING
  PROVE  IsPrefix(WithSlash(uri), path) <=> MatchesPrefix(uri, path)
<1> DEFINE n == Len(uri)
           m == Len(path)
           begun == SubSeq(path, 1, n)
<1>0. n \in Nat /\ m \in Nat OBVIOUS
<1>1. IsPrefix(uri, path) <=> n <= m /\ begun = uri
  BY AllOfIt DEF IsPrefix
<1>2. IsPrefix(uri, path) => n # m
  <2>1. n = m => begun = path BY AllOfIt
  <2> HIDE DEF begun
  <2> QED BY <1>1, <2>1
<1>3. CASE EndsInSlash(uri)
  BY <1>3 DEF WithSlash, MatchesPrefix
<1>4. CASE ~EndsInSlash(uri)
  <2> DEFINE more == Append(uri, "/")
             longer == SubSeq(path, 1, n + 1)
  <2>1. WithSlash(uri) = more /\ more \in Seq(STRING) /\ Len(more) = n + 1 /\ more[n + 1] = "/"
        /\ SubSeq(more, 1, n) = uri
    BY <1>4 DEF WithSlash
  <2>2. IsPrefix(more, path) <=> n + 1 <= m /\ longer = more
    <3>1. SubSeq(more, 1, Len(more)) = more BY <2>1, AllOfIt
    <3> HIDE DEF more
    <3> QED BY <2>1, <3>1 DEF IsPrefix
  <2>3. MatchesPrefix(uri, path) <=> n < m /\ begun = uri /\ path[n + 1] = "/"
    <3> HIDE DEF begun
    <3> QED BY <1>0, <1>1, <1>2, <1>4 DEF MatchesPrefix
  <2>4. n < m => longer = Append(begun, path[n + 1])
    BY <1>0, OneMore
  <2>5. begun = uri /\ path[n + 1] = "/" => Append(begun, path[n + 1]) = more
    OBVIOUS
  <2>6. n < m /\ longer = more => begun = uri /\ path[n + 1] = "/"
    <3> SUFFICES ASSUME n < m, longer = more PROVE begun = uri /\ path[n + 1] = "/"
      OBVIOUS
    <3>1. begun \in Seq(STRING) /\ Len(begun) = n BY <1>0
    <3> HIDE DEF begun, longer, more
    <3>2. /\ Append(begun, path[n + 1])[n + 1] = path[n + 1]
          /\ SubSeq(Append(begun, path[n + 1]), 1, n) = begun
      BY <3>1
    <3> QED BY <2>1, <2>4, <3>2
  <2> HIDE DEF begun, longer, more
  <2> QED BY <1>0, <2>1, <2>2, <2>3, <2>4, <2>5, <2>6
<1> QED BY <1>3, <1>4

\* What the gateway's reservations leave, of a mapping without parameters.
Replaceable(mapping, path) ==
  /\ mapping.uri # path
  /\ EndsInSlash(mapping.uri) = EndsInSlash(mapping.target)
  /\ \A i \in 2 .. Len(path) + 1 : ~OccursAt(path, mapping.uri, i)

\* Nothing occurs behind every character.
LEMMA ReplaceableIsSomething ==
  ASSUME NEW mapping, NEW path \in Seq(STRING), Replaceable(mapping, path), path # <<>>
  PROVE  mapping.uri # <<>>
<1> SUFFICES ASSUME mapping.uri = <<>> PROVE FALSE
  OBVIOUS
<1>1. 2 \in 2 .. Len(path) + 1 OBVIOUS
<1>2. OccursAt(path, <<>>, 2) BY <1>1 DEF OccursAt
<1> QED BY <1>1, <1>2 DEF Replaceable

LEMMA BehindASlash ==
  ASSUME NEW t \in Seq(STRING), NEW r \in Seq(STRING), "/" \in STRING
  PROVE  Append(t, "/") \o r = t \o (<<"/">> \o r)
<1> DEFINE slash == <<"/">>
<1>1. t \o slash = Append(t, "/") BY OneLonger
<1>2. slash \in Seq(STRING) OBVIOUS
<1> HIDE DEF slash
<1>3. (t \o slash) \o r = t \o (slash \o r)
  BY SMTT(30), <1>2, ConcatAssociates
<1> QED BY <1>1, <1>3 DEF slash

LEMMA PrefixIsReplaced ==
  ASSUME NEW mapping, NEW path, AreMapped(mapping, path), ~HasParameters(mapping.target),
         Replaceable(mapping, path), mapping.uri # <<>>, MatchesPrefix(mapping.uri, path)
  PROVE  {ReplacedAll(path, mapping.uri, mapping.target)} = Mapped(mapping, path)
<1> DEFINE uri == mapping.uri
           target == mapping.target
           n == Len(uri)
           v == RestAsItIs(path, n)
           rest == Rest(path, n)
           after == NamesAfter(uri, path)
<1>0. path \in Seq(STRING) /\ uri \in Seq(STRING) /\ target \in Seq(STRING)
  BY TextsOfCharacters DEF AreMapped
<1>1. n \in 0 .. Len(path) /\ SubSeq(path, 1, n) = uri /\ n \in Nat /\ Len(path) \in Nat
  BY <1>0, PrefixIs DEF MatchesPrefix
<1>2. path = uri \o v /\ v \in Line
  <2>1. 0 \in Nat /\ 0 <= n /\ n <= Len(path) BY <1>1
  <2>2. RestAsItIs(path, 0) = SubSeq(path, 0 + 1, n) \o v
    <3> HIDE DEF n, uri
    <3> QED BY <1>0, <1>1, <2>1, RestOn
  <2>3. RestAsItIs(path, 0) = path /\ 0 + 1 = 1
    BY <1>0, RestAtTheEnds
  <2>4. v \in Seq(STRING) BY <1>0, <1>1, RestIs
  <2> QED BY <1>1, <2>2, <2>3, <2>4 DEF Line
<1>3. v # <<>> /\ n # Len(path)
  <2>1. n # Len(path) BY <1>0, <1>1, AllOfIt DEF Replaceable
  <2>2. Len(v) = Len(path) - n BY <1>0, <1>1, RestIs
  <2> HIDE DEF v
  <2> QED BY <1>1, <2>1, <2>2
<1>4. ReplacedAll(path, uri, target) = target \o v
  <2>1. OccursNoMore(path, uri)
    <3>1. \A i \in 2 .. Len(path) : i \in 2 .. Len(path) + 1
      BY <1>1
    <3> QED BY <3>1 DEF Replaceable, OccursNoMore
  <2>2. v \in Seq(STRING) BY <1>2 DEF Line
  <2>3. BeginsOnce(path, uri, v)
    BY <1>0, <1>2, <2>1, <2>2 DEF BeginsOnce
  <2> HIDE DEF v, uri, target
  <2> QED BY <2>3, ReplacedOnce
<1>5. TakesNames(uri, path, n)
  <2>1. ~EndsInSlash(uri) => n = Len(path) \/ path[n + 1] = "/"
    BY DEF MatchesPrefix
  <2> QED BY <1>1, <2>1 DEF TakesNames
<1>6. after = IF EndsInSlash(uri) THEN Segments(v) ELSE Segments(rest)
  <2>1. after = IF EndsInSlash(uri) THEN Segments(v)
                ELSE IF n = Len(path) THEN <<>> ELSE Segments(rest)
    BY <1>0, <1>1, <1>5, NamesBehind
  <2> QED BY <1>3, <2>1
<1>7. FitsNames(uri, path) BY <1>0, PrefixFits DEF Line
<1>8. ByNames(mapping, path) = target BY <1>0, TargetItself
<1>9. EndsInSlash(uri) <=> EndsInSlash(target)
  BY DEF Replaceable
<1>10. \A w \in Line : Segments(w) # <<>> /\ Joined(Segments(w)) = w
  BY SegmentsType, JoinedSegments
<1>11. ~AllTaken(uri, path) /\ WithSlash(target) \o Joined(after) = target \o v
  <2>1. CASE EndsInSlash(uri)
    <3>1. after = Segments(v) /\ after # <<>> /\ Joined(after) = v
      BY <1>2, <1>6, <1>10, <2>1
    <3>2. after # << <<>> >>
      <4>1. Segments(<<>>) = << <<>> >> /\ Joined(Segments(<<>>)) = <<>>
        BY <1>10, SplitNothing, EmptyIsAName DEF Segments
      <4> HIDE DEF after, v
      <4> QED BY <1>3, <3>1, <4>1
    <3>3. WithSlash(target) = target
      BY <1>9, <2>1 DEF WithSlash
    <3> HIDE DEF after, v
    <3> QED BY <3>1, <3>2, <3>3 DEF AllTaken, after
  <2>2. CASE ~EndsInSlash(uri)
    <3>1. path[n + 1] = "/" /\ n < Len(path)
      BY <1>1, <1>3, <2>2 DEF MatchesPrefix
    <3>2. v[1] = path[n + 1]
      <4>1. \A k \in 1 .. Len(path) - n : v[k] = path[n + k]
        BY <1>0, <1>1, RestIs
      <4>2. 1 \in 1 .. Len(path) - n BY <1>1, <3>1
      <4> HIDE DEF v
      <4> QED BY <4>1, <4>2
    <3>3. rest = IF v # <<>> /\ v[1] = "/" THEN Tail(v) ELSE v
      BY <1>0, <1>1, RestStrips DEF Line
    <3> HIDE DEF v, rest, after
    <3>4. rest = Tail(v) /\ v \in Seq(STRING) /\ v[1] = "/"
      BY <1>2, <1>3, <3>1, <3>2, <3>3 DEF Line
    <3>5. rest \in Seq(STRING) /\ v = <<"/">> \o rest /\ "/" \in STRING
      BY <1>3, <3>4
    <3>6. after = Segments(rest) /\ after # <<>> /\ Joined(after) = rest
      BY <1>6, <1>10, <2>2, <3>5 DEF Line
    <3>7. WithSlash(target) = Append(target, "/")
      BY <1>9, <2>2 DEF WithSlash
    <3>8. Append(target, "/") \o rest = target \o v
      <4>1. Append(target, "/") \o rest = target \o (<<"/">> \o rest)
        BY <1>0, <3>5, BehindASlash
      <4> QED BY <3>5, <4>1
    <3> QED BY <2>2, <3>6, <3>7, <3>8 DEF AllTaken, after
  <2> QED BY <2>1, <2>2
<1>12. Mapped(mapping, path) = {WithSlash(target) \o Joined(after)}
  BY <1>7, <1>8, <1>11, MappedIs
<1> QED BY <1>4, <1>11, <1>12

\* What a mapping is to a path.
LEMMA MapsIs ==
  ASSUME NEW mapping, NEW path, mapping.uri # path
  PROVE  /\ ~HasParameters(mapping.uri) =>
              Maps(mapping, path) =
                IF \/ mapping.uri = <<"/">> /\ Len(path) > 1
                   \/ IsPrefix(WithSlash(mapping.uri), path)
                THEN "Prefix" ELSE "none"
         /\ HasParameters(mapping.uri) /\ mapping.uri # <<"/">> =>
              IF Cuts(mapping.uri, path, FALSE, GatewayStops) = {} THEN Maps(mapping, path) = "none"
              ELSE Maps(mapping, path) \in {"Variable", "VariablePrefix"}
BY DEF Maps

LEMMA TextWithoutParameters ==
  ASSUME NEW t \in Seq(STRING), ~HasParameters(t)
  PROVE  t \in Seq(Characters)
<1>1. t = [i \in 1 .. Len(t) |-> t[i]] /\ Len(t) \in Nat
  OBVIOUS
<1>2. \A i \in 1 .. Len(t) : t[i] \in Characters
  BY DEF HasParameters, Characters
<1> QED BY <1>1, <1>2

LEMMA CharactersHaveNoParameters ==
  ASSUME NEW t \in Seq(Characters)
  PROVE  ~HasParameters(t)
BY DEF HasParameters, Characters

LEMMA TargetHasNone ==
  ASSUME NEW uri, NEW target \in Seq(STRING), ~HasParameters(uri), uri \in Seq(STRING),
         ToSet(target) \cap Parameters \subseteq ToSet(uri)
  PROVE  ~HasParameters(target)
<1>1. ASSUME NEW i \in DOMAIN target, target[i] \in Parameters PROVE FALSE
  <2>1. target[i] \in ToSet(uri) BY <1>1 DEF ToSet
  <2>2. PICK k \in DOMAIN uri : uri[k] = target[i]
    BY <2>1 DEF ToSet
  <2> QED BY <1>1, <2>2 DEF HasParameters
<1> QED BY <1>1 DEF HasParameters

\* What is not awkward of a mapping and a path.
Reserved(mapping, path) ==
  /\ AreMapped(mapping, path)
  /\ StopsAtSlash(path) /\ NoTwoSlashes(path)
  /\ \E i \in 1 .. Len(path) : path[i] = "/"
  /\ HasParameters(mapping.uri) => ~OpenEnded(mapping.uri)
  /\ ParametersAreNames(mapping.uri)
  /\ ~HasParameters(mapping.uri) /\ mapping.uri # path => Replaceable(mapping, path)
  /\ ToSet(mapping.target) \cap Parameters \subseteq ToSet(mapping.uri)

LEMMA OneOfIt ==
  ASSUME NEW E, NEW t \in Seq(E), NEW i \in 1 .. Len(t)
  PROVE  SubSeq(t, i, i) = <<t[i]>>
<1> DEFINE b == SubSeq(t, i, i)
           one == <<t[i]>>
<1>1. i - 1 \in Nat /\ i \in Nat /\ (i - 1) + 1 = i /\ i - (i - 1) = 1 /\ i - 1 <= i /\ t[i] \in E
  OBVIOUS
<1>2. b \in Seq(E) /\ Len(b) = 1 /\ \A k \in 1 .. 1 : b[k] = t[(i - 1) + k]
  <2>1. /\ SubSeq(t, (i - 1) + 1, i) \in Seq(E)
        /\ Len(SubSeq(t, (i - 1) + 1, i)) = i - (i - 1)
        /\ \A k \in 1 .. i - (i - 1) : SubSeq(t, (i - 1) + 1, i)[k] = t[(i - 1) + k]
    BY <1>1, SubSeqIs
  <2> QED BY <1>1, <2>1
<1>3. one \in Seq(E) /\ Len(one) = 1 /\ one[1] = t[i]
  BY <1>1
<1> HIDE DEF b, one
<1>4. Agree(b, one, 1) BY <1>1, <1>2, <1>3 DEF Agree
<1>5. b = one BY <1>2, <1>3, <1>4, SameSequence
<1> QED BY <1>5 DEF b, one

LEMMA AsItIs ==
  ASSUME NEW mapping, NEW path, Reserved(mapping, path), mapping.uri = path
  PROVE  TargetUri(mapping, path) = Mapped(mapping, path)
<1>1. path \in Seq(Characters) /\ path \in Seq(STRING) /\ mapping.target \in Seq(STRING)
  BY TextsOfCharacters DEF Reserved, AreMapped
<1>2. ~HasParameters(mapping.target)
  BY <1>1, CharactersHaveNoParameters, TargetHasNone DEF Reserved
<1>3. FitsNames(path, path) BY <1>1, FitsItself DEF Line
<1>4. AllTaken(path, path) BY <1>1, OwnPathIsTaken
<1>5. Mapped(mapping, path) = {mapping.target}
  BY <1>1, <1>2, <1>3, <1>4, TargetItself, MappedIs
<1>6. Maps(mapping, path) = "Exact" BY DEF Maps
<1>7. TargetUri(mapping, path) = {mapping.target}
  BY <1>6, TargetUriIs
<1> QED BY <1>5, <1>7

LEMMA WithoutParameters ==
  ASSUME NEW mapping, NEW path, Reserved(mapping, path), mapping.uri # path,
         ~HasParameters(mapping.uri)
  PROVE  TargetUri(mapping, path) = Mapped(mapping, path)
<1> DEFINE uri == mapping.uri
<1>0. /\ AreMapped(mapping, path) /\ path \in Seq(STRING) /\ uri \in Seq(STRING)
      /\ mapping.target \in Seq(STRING) /\ uri \in Seq(Characters)
  BY TextsOfCharacters, TextWithoutParameters DEF Reserved, AreMapped
<1>1. Replaceable(mapping, path) BY DEF Reserved
<1>2. PICK i \in 1 .. Len(path) : path[i] = "/"
  BY DEF Reserved
<1>3. "/" \in STRING /\ path # <<>> /\ Len(path) \in Nat /\ Len(path) >= 1
  BY <1>0, <1>2
<1>4. uri # <<>> BY <1>0, <1>1, <1>3, ReplaceableIsSomething
<1>5. ~HasParameters(mapping.target)
  BY <1>0, TargetHasNone DEF Reserved
<1>6. IsPrefix(WithSlash(uri), path) <=> MatchesPrefix(uri, path)
  BY <1>0, <1>3, BeginsWithSlash
<1>7. uri = <<"/">> => MatchesPrefix(uri, path)
  <2> SUFFICES ASSUME uri = <<"/">> PROVE MatchesPrefix(uri, path)
    OBVIOUS
  <2>1. ASSUME i > 1 PROVE FALSE
    <3>1. i \in 2 .. Len(path) + 1 /\ i + 1 - 1 = i /\ i <= Len(path) /\ Len(<<"/">>) = 1
      BY <1>2, <1>3, <2>1
    <3>2. SubSeq(path, i, i) = <<path[i]>> BY <1>0, OneOfIt
    <3>3. OccursAt(path, uri, i)
      BY <1>2, <3>1, <3>2 DEF OccursAt
    <3> QED BY <1>1, <3>1, <3>3 DEF Replaceable
  <2>2. path[1] = "/" BY <1>2, <1>3, <2>1
  <2>3. SubSeq(path, 1, 1) = <<path[1]>> /\ SubSeq(<<"/">>, 1, 1) = <<"/">> /\ Len(<<"/">>) = 1
    <3>1. 1 \in 1 .. Len(path) /\ <<"/">> \in Seq(STRING) /\ Len(<<"/">>) = 1
      BY <1>3
    <3> QED BY <1>0, <3>1, OneOfIt, AllOfIt
  <2>4. IsPrefix(uri, path) BY <1>3, <2>2, <2>3 DEF IsPrefix
  <2>5. EndsInSlash(uri) BY <2>3 DEF EndsInSlash
  <2> QED BY <2>4, <2>5 DEF MatchesPrefix
<1>8. Maps(mapping, path) = IF MatchesPrefix(uri, path) THEN "Prefix" ELSE "none"
  <2>1. Maps(mapping, path) =
          IF (uri = <<"/">> /\ Len(path) > 1) \/ IsPrefix(WithSlash(uri), path)
          THEN "Prefix" ELSE "none"
    BY MapsIs
  <2> QED BY <1>6, <1>7, <2>1
<1>9. CASE MatchesPrefix(uri, path)
  <2>1. {ReplacedAll(path, uri, mapping.target)} = Mapped(mapping, path)
    BY <1>0, <1>1, <1>4, <1>5, <1>9, PrefixIsReplaced
  <2> QED BY <1>8, <1>9, <2>1, TargetUriIs
<1>10. CASE ~MatchesPrefix(uri, path)
  <2>1. ~FitsNames(uri, path)
    <3> SUFFICES ASSUME FitsNames(uri, path) PROVE FALSE
      OBVIOUS
    <3>1. StillFits(uri, path, FALSE) BY <1>4 DEF StillFits
    <3>2. path \in Line /\ uri \in Line BY <1>0 DEF Line
    <3>3. BeginsWithNames(uri, path)
      BY <1>0, <1>4, <3>1, <3>2, PrefixByNames
    <3> QED BY <1>10, <3>2, <3>3, BeginsThenMatches
  <2>2. Mapped(mapping, path) = {} BY <2>1, MappedIs
  <2>3. TargetUri(mapping, path) = {}
    BY <1>8, <1>10, TargetUriIs
  <2> QED BY <2>2, <2>3
<1> QED BY <1>9, <1>10

LEMMA WithParameters ==
  ASSUME NEW mapping, NEW path, Reserved(mapping, path), HasParameters(mapping.uri)
  PROVE  TargetUri(mapping, path) = Mapped(mapping, path)
<1> DEFINE uri == mapping.uri
           cuts == Cuts(uri, path, FALSE, GatewayStops)
           target == ByNames(mapping, path)
           X == IF AllTaken(uri, path) THEN target
                ELSE WithSlash(target) \o Joined(NamesAfter(uri, path))
<1>0. /\ AreMapped(mapping, path) /\ path \in Seq(STRING) /\ uri \in Seq(STRING)
      /\ path \in Seq(Characters) /\ StopsAtSlash(path) /\ NoTwoSlashes(path)
      /\ ~OpenEnded(uri) /\ ParametersAreNames(uri)
      /\ ToSet(mapping.target) \cap Parameters \subseteq ToSet(uri)
  BY TextsOfCharacters DEF Reserved, AreMapped
<1>1. uri # path BY <1>0, CharactersHaveNoParameters
<1>2. uri # <<>> /\ uri # <<"/">>
  <2>1. PICK i \in DOMAIN uri : uri[i] \in Parameters
    BY DEF HasParameters
  <2>2. uri # <<>> BY <2>1
  <2>3. ASSUME uri = <<"/">> PROVE FALSE
    <3>1. i = 1 /\ <<"/">>[1] = "/" BY <2>1, <2>3
    <3> QED BY <2>1, <2>3, <3>1 DEF Parameters
  <2> QED BY <2>2, <2>3
<1>3. cuts # {} <=> FitsNames(uri, path)
  BY <1>0, <1>2, GatewayFits
<1>4. ASSUME NEW cut \in cuts
      PROVE  WithRest(ByCut(mapping, path, cut), path, cut[Len(uri)]) = X
  <2>1. CutsAlong(cut, uri, path, RouterStops)
    BY <1>0, GatewayCuts
  <2>2. ByCut(mapping, path, cut) = target
    BY <1>0, <2>1, TargetByNames
  <2>3. WithRest(target, path, cut[Len(uri)]) = X
    <3> HIDE DEF target
    <3> QED BY <1>0, <2>1, RestByNames
  <2> QED BY <2>2, <2>3
<1>5. Mapped(mapping, path) = IF FitsNames(uri, path) THEN {X} ELSE {}
  BY MappedIs
<1>6. TargetUri(mapping, path) =
        IF cuts = {} THEN {}
        ELSE {WithRest(ByCut(mapping, path, cut), path, cut[Len(uri)]) : cut \in cuts}
  <2>1. ~\E c \in ToSet(mapping.target) \cap Parameters : c \notin ToSet(uri)
    BY <1>0
  <2>2. IF cuts = {} THEN Maps(mapping, path) = "none"
        ELSE Maps(mapping, path) \in {"Variable", "VariablePrefix"}
    BY <1>1, <1>2, MapsIs
  <2> DEFINE kind == Maps(mapping, path)
             built == {WithRest(ByCut(mapping, path, cut), path, cut[Len(uri)]) : cut \in cuts}
  <2>3. TargetUri(mapping, path) =
          IF kind = "none" THEN {}
          ELSE IF kind = "Exact" THEN {mapping.target}
          ELSE IF kind = "Prefix" THEN {ReplacedAll(path, mapping.uri, mapping.target)}
          ELSE built
    BY <2>1, TargetUriIs
  <2> HIDE DEF kind, built
  <2>4. kind = "none" \/ (kind # "none" /\ kind # "Exact" /\ kind # "Prefix")
    BY <2>2 DEF kind
  <2>5. kind = "none" <=> cuts = {} BY <2>2 DEF kind
  <2>6. TargetUri(mapping, path) = IF cuts = {} THEN {} ELSE built
    BY <2>3, <2>4, <2>5
  <2> QED BY <2>6 DEF built
<1> HIDE DEF cuts, X
<1>7. cuts # {} => {WithRest(ByCut(mapping, path, cut), path, cut[Len(uri)]) : cut \in cuts} = {X}
  BY <1>4
<1> QED BY <1>3, <1>5, <1>6, <1>7

\* Character by character or name by name, the target is the same.
LEMMA TargetIsMapped ==
  ASSUME NEW mapping, NEW path, Reserved(mapping, path)
  PROVE  TargetUri(mapping, path) = Mapped(mapping, path)
BY AsItIs, WithoutParameters, WithParameters

LEMMA NotAwkward ==
  ASSUME NEW mapping, NEW path, AreMapped(mapping, path), ~AwkwardMapping(mapping, path)
  PROVE  Reserved(mapping, path)
<1>0. ToSet(path) \cap GatewayStops = {"/"}
  BY DEF AwkwardMapping
<1>1. StopsAtSlash(path)
  <2>1. ASSUME NEW k \in 1 .. Len(path), path[k] \in GatewayStops PROVE path[k] = "/"
    <3>1. path \in Seq(STRING)
      BY TextsOfCharacters DEF AreMapped
    <3>2. path[k] \in ToSet(path) BY <3>1 DEF ToSet
    <3> QED BY <1>0, <2>1, <3>2
  <2> QED BY <2>1 DEF StopsAtSlash
<1>2. \E i \in 1 .. Len(path) : path[i] = "/"
  <2>1. "/" \in ToSet(path) BY <1>0
  <2>2. path \in Seq(STRING)
    BY TextsOfCharacters DEF AreMapped
  <2> QED BY <2>1, <2>2 DEF ToSet
<1>3. NoTwoSlashes(path)
  <2>1. path \in Seq(STRING)
    BY TextsOfCharacters DEF AreMapped
  <2> QED BY <2>1 DEF AwkwardMapping, NoTwoSlashes
<1>4. ~HasParameters(mapping.uri) /\ mapping.uri # path => Replaceable(mapping, path)
  BY DEF AwkwardMapping, Replaceable
<1> QED BY <1>1, <1>2, <1>3, <1>4 DEF AwkwardMapping, Reserved, ParametersOf

LEMMA MapsByName ==
  ASSUME Given, NEW mapping \in Mappings, MapsPath(mapping), ~AwkwardMapping(mapping, request.path)
  PROVE  \/ sent'.path \in Mapped(mapping, request.path)
         \/ sent' = Nothing /\ Mapped(mapping, request.path) = {}
<1>1. PICK c \in Cases : request = c.request BY DEF Given
<1>2. request.path \in Seq(Characters)
  BY <1>1, LocationsAssumption
<1>3. AreMapped(mapping, request.path)
  BY <1>2, MappingsAssumption DEF AreMapped
<1>4. TargetUri(mapping, request.path) = Mapped(mapping, request.path)
  BY <1>3, NotAwkward, TargetIsMapped
<1>5. CASE TargetUri(mapping, request.path) = {} /\ sent' = Nothing
  BY <1>4, <1>5
<1>6. ASSUME NEW target \in TargetUri(mapping, request.path), sent' = [Nothing EXCEPT !.path = target]
      PROVE  sent'.path = target
  BY <1>6 DEF Nothing
<1>7. CASE \E target \in TargetUri(mapping, request.path) : sent' = [Nothing EXCEPT !.path = target]
  BY <1>4, <1>6, <1>7
<1> QED BY <1>5, <1>7 DEF MapsPath

\* The target of a mapping is put together of the names that its parameters stand for and
\* of the names left over: the characters that a regular expression captures and what is
\* cut off behind them come to whole names, for every mapping and path without what
\* AwkwardMapping names.
THEOREM MappingsKeepTheRest == Spec => GatewayKeepsTheRest
<1>1. ASSUME Given, [Next]_vars
      PROVE  [\A mapping \in Mappings :
         MapsPath(mapping) /\ ~AwkwardMapping(mapping, request.path) =>
           \/ sent'.path \in Mapped(mapping, request.path)
           \/ sent' = Nothing /\ Mapped(mapping, request.path) = {}]_vars
  BY <1>1, MapsByName
<1> QED BY <1>1, InitGiven, NextGiven, PTL DEF Spec, GatewayKeepsTheRest
=============================================================================
