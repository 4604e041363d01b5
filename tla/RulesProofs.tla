----------------------------- MODULE RulesProofs -----------------------------
(***************************************************************************)
(* Proofs about Rules: the loops of the classifier, of the policy and of   *)
(* detection compute, for texts, flags and schemas of any length, what the *)
(* properties of Rules say without loops.                                  *)
(***************************************************************************)
EXTENDS Rules, WellFoundedInduction, SequenceTheorems, TLAPS

-----------------------------------------------------------------------------
(* Where a search ends *)

\* A set of numbers has a smallest one.
LEMMA Smallest ==
    ASSUME NEW S \in SUBSET Nat, S # {}
    PROVE  Min(S) \in S /\ \A n \in S : Min(S) <= n
<1> DEFINE R == {ss \in Nat \X Nat : ss[1] < ss[2]}
<1>1. IsWellFoundedOn(R, Nat)
  BY NatLessThanWellFounded DEF OpToRel
<1>2. PICK x \in S : \A y \in S : ~(<<y, x>> \in R)
  BY <1>1, WFMin
<1>3. \A y \in S : y < x => <<y, x>> \in R
  OBVIOUS
<1>4. \A y \in S : ~(y < x)
  BY <1>2, <1>3, Zenon
<1>5. \A y \in S : x <= y
  BY <1>4
<1> QED
  BY <1>5 DEF Min

\* Index finds the first place.
LEMMA IndexIs ==
    ASSUME NEW s \in Seq(Strings), NEW w \in Seq(Strings), NEW f \in 1..End(s)
    PROVE  /\ Index(s, w, f) = 0 => \A n \in f..Len(s) : ~At(s, w, n)
           /\ Index(s, w, f) # 0 => /\ Index(s, w, f) \in f..Len(s)
                                    /\ At(s, w, Index(s, w, f))
                                    /\ \A n \in f..(Index(s, w, f) - 1) : ~At(s, w, n)
<1>0. Len(s) \in Nat /\ f \in Nat
  BY DEF End
<1> DEFINE places == {n \in f..Len(s) : At(s, w, n)}
<1>1. places \in SUBSET Nat
  BY <1>0
<1>2. places # {} => Min(places) \in places /\ \A n \in places : Min(places) <= n
  BY <1>1, Smallest
<1>3. Index(s, w, f) = IF places = {} THEN 0 ELSE Min(places)
  BY DEF Index
<1>4. CASE places = {}
  BY <1>3, <1>4
<1>5. CASE places # {}
  <2> DEFINE m == Min(places)
  <2>1. m \in f..Len(s) /\ At(s, w, m) /\ Index(s, w, f) = m
    BY <1>2, <1>3, <1>5
  <2>2. \A n \in places : m <= n
    BY <1>2, <1>5
  <2> HIDE DEF m
  <2>3. \A n \in f..(m - 1) : n \notin places
    BY <2>1, <2>2, <1>0
  <2>4. \A n \in f..(m - 1) : n \in f..Len(s)
    BY <2>1, <1>0
  <2> QED
    BY <2>1, <2>3, <2>4, <1>0
<1> QED
  BY <1>4, <1>5

\* TrimLeft stops at the first character that is not blank.
LEMMA TrimIs ==
    ASSUME NEW s \in Seq(Strings), NEW f \in 1..End(s)
    PROVE  /\ TrimLeft(s, f) \in f..End(s)
           /\ \A n \in f..(TrimLeft(s, f) - 1) : s[n] \in Blanks
           /\ TrimLeft(s, f) # End(s) => s[TrimLeft(s, f)] \notin Blanks
<1>0. Len(s) \in Nat /\ f \in Nat
  BY DEF End
<1> DEFINE solid == {n \in f..Len(s) : s[n] \notin Blanks}
<1>1. solid \in SUBSET Nat
  BY <1>0
<1>2. solid # {} => Min(solid) \in solid /\ \A n \in solid : Min(solid) <= n
  BY <1>1, Smallest
<1>3. TrimLeft(s, f) = IF solid = {} THEN End(s) ELSE Min(solid)
  BY DEF TrimLeft
<1>4. CASE solid = {}
  BY <1>0, <1>3, <1>4 DEF End
<1>5. CASE solid # {}
  <2> DEFINE m == Min(solid)
  <2>1. m \in f..Len(s) /\ s[m] \notin Blanks /\ TrimLeft(s, f) = m
    BY <1>2, <1>3, <1>5
  <2>2. \A n \in solid : m <= n
    BY <1>2, <1>5
  <2> HIDE DEF m
  <2>3. \A n \in f..(m - 1) : n \notin solid
    BY <2>1, <2>2, <1>0
  <2>4. \A n \in f..(m - 1) : n \in f..Len(s)
    BY <2>1, <1>0
  <2> QED
    BY <2>1, <2>3, <2>4, <1>0 DEF End
<1> QED
  BY <1>4, <1>5

\* The first token is a keyword exactly when that keyword stands there alone.
LEMMA TokenIs ==
    ASSUME NEW s \in Seq(Strings), NEW f \in 1..End(s), NEW keywords,
           keywords \cap (Blanks \cup {"lparen", "semicolon"}) = {}
    PROVE  (\E kw \in keywords : firstToken(s, f) = <<kw>>) <=> f # End(s) /\ Begins(s, f, keywords)
<1>0. Len(s) \in Nat /\ DOMAIN s = 1..Len(s) /\ f \in 1..(Len(s) + 1) /\ f \in Nat
  BY DEF End
<1> DEFINE D == Blanks \cup {"lparen", "semicolon"}
<1> HIDE DEF D
<1> DEFINE ends == {n \in f..Len(s) : s[n] \in D}
<1>1. ends \in SUBSET Nat
  BY <1>0
<1>2. ends # {} => Min(ends) \in ends /\ \A n \in ends : Min(ends) <= n
  BY <1>1, Smallest
<1> DEFINE end == IF ends = {} THEN End(s) ELSE Min(ends)
<1>3. end \in f..End(s) /\ (\A n \in f..(end - 1) : s[n] \notin D) /\ (end # End(s) => s[end] \in D)
  <2>1. CASE ends = {}
    BY <1>0, <2>1 DEF End
  <2>2. CASE ends # {}
    <3> DEFINE m == Min(ends)
    <3>1. m \in f..Len(s) /\ s[m] \in D /\ (\A n \in ends : m <= n) /\ end = m
      BY <1>2, <2>2
    <3> HIDE DEF m, end
    <3>2. \A n \in f..(m - 1) : n \notin ends
      BY <3>1, <1>0
    <3>3. \A n \in f..(m - 1) : n \in f..Len(s)
      BY <3>1, <1>0
    <3> QED
      BY <3>1, <3>2, <3>3, <1>0 DEF End
  <2> QED
    BY <2>1, <2>2
<1>4. firstToken(s, f) = SubSeq(s, f, end - 1)
  BY DEF firstToken, D
<1> HIDE DEF end, ends
<1>5. ASSUME NEW kw \in keywords, firstToken(s, f) = <<kw>>
      PROVE  f # End(s) /\ Begins(s, f, keywords)
  <2>0. Len(<<kw>>) = 1 /\ <<kw>>[1] = kw
    OBVIOUS
  <2>1. Len(SubSeq(s, f, end - 1)) = 1 /\ SubSeq(s, f, end - 1)[1] = kw
    BY <1>4, <1>5, <2>0, Zenon
  <2>2. end = f + 1 /\ s[f] = kw
    BY <2>1, <1>0, <1>3 DEF End
  <2> QED
    BY <2>2, <1>0, <1>3 DEF End, Begins, D
<1>6. ASSUME f # End(s), Begins(s, f, keywords)
      PROVE  \E kw \in keywords : firstToken(s, f) = <<kw>>
  <2>1. s[f] \in keywords /\ s[f] \notin D
    BY <1>6 DEF Begins, D
  <2>2. end = f + 1
    BY <2>1, <1>6, <1>0, <1>3 DEF End, Begins, D
  <2>3. SubSeq(s, f, f) = <<s[f]>>
    <3>1. s[f] \in Strings /\ <<s[f]>> \in Seq(Strings) /\ Len(<<s[f]>>) = 1 /\ <<s[f]>>[1] = s[f]
      BY <1>0, <1>6 DEF End
    <3> DEFINE t == SubSeq(s, f, f)
               u == <<s[f]>>
    <3>2. t \in Seq(Strings) /\ Len(t) = (IF f <= f THEN f - f + 1 ELSE 0)
          /\ \A n \in 1..(f - f + 1) : t[n] = s[f + n - 1]
      BY <3>1, <1>0, SubSeqProperties
    <3> HIDE DEF t, u
    <3>3. t \in Seq(Strings) /\ Len(t) = 1 /\ t[1] = s[f]
      BY <3>2, <1>0
    <3>4. u \in Seq(Strings) /\ Len(t) = Len(u) /\ \A n \in 1..Len(t) : t[n] = u[n]
      BY <3>1, <3>3 DEF u
    <3>5. t = u
      BY <3>3, <3>4, SeqEqual
    <3> QED
      BY <3>5 DEF t, u
  <2>4. end - 1 = f
    BY <2>2, <1>0
  <2> QED
    BY <2>1, <2>3, <2>4, <1>4, Zenon
<1> QED
  BY <1>5, <1>6

-----------------------------------------------------------------------------
(* Gaps *)

\* Where the marks of comments stand.
LEMMA MarksAt ==
    ASSUME NEW s \in Seq(Strings), NEW n \in Int
    PROVE  /\ At(s, <<"dash", "dash">>, n) <=> n + 1 <= Len(s) /\ s[n] = "dash" /\ s[n + 1] = "dash"
           /\ At(s, <<"slash", "star">>, n) <=> n + 1 <= Len(s) /\ s[n] = "slash" /\ s[n + 1] = "star"
           /\ At(s, <<"star", "slash">>, n) <=> n + 1 <= Len(s) /\ s[n] = "star" /\ s[n + 1] = "slash"
           /\ At(s, <<"cr", "nl">>, n) <=> n + 1 <= Len(s) /\ s[n] = "cr" /\ s[n + 1] = "nl"
           /\ At(s, <<"nl">>, n) <=> n <= Len(s) /\ s[n] = "nl"
<1>1. Len(s) \in Nat
  OBVIOUS
<1>2. ASSUME NEW x, NEW y
      PROVE  At(s, <<x, y>>, n) <=> n + 1 <= Len(s) /\ s[n] = x /\ s[n + 1] = y
  <2> DEFINE w == <<x, y>>
  <2>1. Len(w) = 2 /\ DOMAIN w = 1..2 /\ w[1] = x /\ w[2] = y
    OBVIOUS
  <2> HIDE DEF w
  <2>2. At(s, w, n) <=> n + 1 <= Len(s) /\ \A k \in 1..2 : s[n + k - 1] = w[k]
    BY <1>1, <2>1 DEF At, End
  <2>3. (\A k \in 1..2 : s[n + k - 1] = w[k]) <=> s[n] = w[1] /\ s[n + 1] = w[2]
    <3>1. \A k \in 1..2 : k = 1 \/ k = 2
      OBVIOUS
    <3>2. 1 \in 1..2 /\ 2 \in 1..2 /\ n + 1 - 1 = n /\ n + 2 - 1 = n + 1
      OBVIOUS
    <3> QED
      BY <3>1, <3>2, Zenon
  <2> QED
    BY <2>1, <2>2, <2>3, Zenon DEF w
<1>3. At(s, <<"nl">>, n) <=> n <= Len(s) /\ s[n] = "nl"
  BY <1>1 DEF At, End
<1> QED
  BY <1>2, <1>3

\* What a comment begins with says how it ends.
LEMMA CloserIs ==
    ASSUME NEW s \in Seq(Strings), NEW p \in Int
    PROVE  /\ Closer(s, p) = <<>> <=> ~At(s, <<"dash", "dash">>, p) /\ ~At(s, <<"slash", "star">>, p)
           /\ At(s, <<"dash", "dash">>, p) => Closer(s, p) = <<"nl">> /\ ~At(s, <<"slash", "star">>, p)
           /\ At(s, <<"slash", "star">>, p) => Closer(s, p) = <<"star", "slash">>
           /\ Len(<<"nl">>) = 1 /\ Len(<<"star", "slash">>) = 2
<1>1. <<"nl">> # <<>> /\ <<"star", "slash">> # <<>> /\ Len(<<"nl">>) = 1 /\ Len(<<"star", "slash">>) = 2
  OBVIOUS
<1>2. ~(At(s, <<"dash", "dash">>, p) /\ At(s, <<"slash", "star">>, p))
  BY MarksAt
<1> QED
  BY <1>1, <1>2 DEF Closer

\* A gap begins with a blank or a comment, and has one end.
LEMMA GapEnd ==
    ASSUME NEW s \in Seq(Strings), NEW b \in DOMAIN s, NEW d \in 1..End(s), NEW e \in 1..End(s),
           b < d, b < e, Gap(s, b, d), Gap(s, b, e)
    PROVE  d = e /\ ~Solid(s, b)
<1>1. Len(s) \in Nat /\ DOMAIN s = 1..Len(s) /\ b \in Nat /\ d \in Nat /\ e \in Nat /\ End(s) = Len(s) + 1
  BY DEF End
<1> DEFINE Dashes == At(s, <<"dash", "dash">>, b)
           Slash == At(s, <<"slash", "star">>, b)
           Closed(n) == At(s, <<"star", "slash">>, n)
           Opened(n) == At(s, <<"slash", "star">>, n)
<1>2. /\ Dashes => s[b] \notin Blanks /\ ~Slash
      /\ Slash => s[b] \notin Blanks
  BY <1>1, MarksAt DEF Blanks
<1>3. /\ Solid(s, b) => s[b] \notin Blanks /\ ~Dashes /\ ~Slash
  BY <1>1, CloserIs DEF Solid
<1> HIDE DEF Dashes, Slash, Closed, Opened
<1>4. ASSUME NEW x \in 1..End(s), b < x, Gap(s, b, x)
      PROVE  \/ s[b] \in Blanks /\ (\A n \in b..(x - 1) : s[n] \in Blanks) /\ (x = End(s) \/ s[x] \notin Blanks)
             \/ Dashes /\ b + 2 < x /\ LineEnd(s, x - 1) /\ \A n \in (b + 2)..(x - 2) : ~LineEnd(s, n)
             \/ Slash /\ b + 4 <= x /\ Closed(x - 2) /\ \A n \in (b + 2)..(x - 3) : ~Closed(n)
  <2>1. x \in Nat /\ b \in b..(x - 1)
    BY <1>1, <1>4
  <2> QED
    BY <1>4, <2>1 DEF Gap, Comment, Dashes, Slash, Closed
<1>5. CASE s[b] \in Blanks
  BY <1>1, <1>2, <1>3, <1>4, <1>5
<1>6. CASE Dashes
  BY <1>1, <1>2, <1>3, <1>4, <1>6
<1>7. CASE Slash
  BY <1>1, <1>2, <1>3, <1>4, <1>7
<1> QED
  BY <1>4, <1>5, <1>6, <1>7

\* The statement is as far from the end of a gap as from its beginning.
LEMMA GapsStep ==
    ASSUME NEW s \in Seq(Strings), NEW b \in DOMAIN s, NEW d \in 1..End(s), b < d, Gap(s, b, d),
           NEW p \in DOMAIN s, Solid(s, p)
    PROVE  Gaps(s, b, p) <=> Gaps(s, d, p)
<1>1. Len(s) \in Nat /\ DOMAIN s = 1..Len(s) /\ b \in Nat /\ d \in Nat /\ p \in Nat
  BY DEF End
<1>2. b # p
  BY GapEnd
<1>3. ASSUME Gaps(s, b, p) PROVE Gaps(s, d, p)
  <2>1. PICK cuts \in SUBSET (b..p) :
            /\ b \in cuts /\ p \in cuts
            /\ \A c \in cuts \ {p} : \E e \in cuts : c < e /\ Gap(s, c, e)
    BY <1>3 DEF Gaps
  <2>2. PICK e \in cuts : b < e /\ Gap(s, b, e)
    BY <2>1, <1>2
  <2>3. e \in 1..End(s)
    BY <1>1, <2>2 DEF End
  <2>4. d \in cuts
    BY <2>2, <2>3, GapEnd
  <2> DEFINE rest == {c \in cuts : d <= c}
  <2>5. rest \in SUBSET (d..p) /\ d \in rest /\ p \in rest
    BY <2>1, <2>4, <1>1
  <2>6. ASSUME NEW c \in rest \ {p} PROVE \E e2 \in rest : c < e2 /\ Gap(s, c, e2)
    <3>1. PICK e2 \in cuts : c < e2 /\ Gap(s, c, e2)
      BY <2>1
    <3>2. e2 \in rest
      BY <3>1, <1>1
    <3> QED
      BY <3>1, <3>2
  <2> QED
    BY <2>5, <2>6 DEF Gaps
<1>4. ASSUME Gaps(s, d, p) PROVE Gaps(s, b, p)
  <2>1. PICK cuts \in SUBSET (d..p) :
            /\ d \in cuts /\ p \in cuts
            /\ \A c \in cuts \ {p} : \E e \in cuts : c < e /\ Gap(s, c, e)
    BY <1>4 DEF Gaps
  <2> DEFINE more == cuts \cup {b}
  <2>2. d <= p /\ \A c \in cuts : c \in b..p
    BY <2>1, <1>1
  <2>3. more \in SUBSET (b..p) /\ b \in more /\ p \in more
    <3>1. b \in b..p
      BY <2>2, <1>1
    <3> QED
      BY <3>1, <2>1, <2>2, Zenon
  <2>4. \A c \in more \ {p} : \E e \in more : c < e /\ Gap(s, c, e)
    BY <2>1
  <2> QED
    BY <2>3, <2>4 DEF Gaps
<1> QED
  BY <1>3, <1>4

\* A gap behind gaps.
LEMMA GapsAppend ==
    ASSUME NEW s \in Seq(Strings), NEW f \in 1..End(s), NEW b \in f..End(s), NEW d \in 1..End(s), b < d,
           Gaps(s, f, b), Gap(s, b, d)
    PROVE  Gaps(s, f, d)
<1>1. Len(s) \in Nat /\ f \in Nat /\ b \in Nat /\ d \in Nat
  BY DEF End
<1>2. PICK cuts \in SUBSET (f..b) :
          /\ f \in cuts /\ b \in cuts
          /\ \A c \in cuts \ {b} : \E e \in cuts : c < e /\ Gap(s, c, e)
  BY DEF Gaps
<1> DEFINE more == cuts \cup {d}
<1>3. (\A c \in f..b : c \in f..d) /\ d \in f..d
  BY <1>1
<1>4. more \in SUBSET (f..d) /\ f \in more /\ d \in more
  BY <1>2, <1>3, Zenon
<1>5. ASSUME NEW c \in more \ {d} PROVE \E e \in more : c < e /\ Gap(s, c, e)
  <2>1. CASE c = b
    BY <2>1
  <2>2. CASE c # b
    BY <2>2, <1>2
  <2> QED
    BY <2>1, <2>2
<1> QED
  BY <1>4, <1>5 DEF Gaps

\* At the statement there is no gap left.
LEMMA GapsEnd ==
    ASSUME NEW s \in Seq(Strings), NEW b \in 1..End(s), NEW p \in DOMAIN s, Solid(s, p),
           \A e \in 1..End(s) : b < e => ~Gap(s, b, e)
    PROVE  Gaps(s, b, p) <=> p = b
<1>1. Len(s) \in Nat /\ DOMAIN s = 1..Len(s) /\ b \in Nat /\ p \in Nat
  BY DEF End
<1>2. ASSUME Gaps(s, b, p), p # b PROVE FALSE
  <2>1. PICK cuts \in SUBSET (b..p) :
            /\ b \in cuts /\ p \in cuts
            /\ \A c \in cuts \ {p} : \E e \in cuts : c < e /\ Gap(s, c, e)
    BY <1>2 DEF Gaps
  <2>2. PICK e \in cuts : b < e /\ Gap(s, b, e)
    BY <2>1, <1>2
  <2> QED
    BY <2>2, <1>1 DEF End
<1>3. ASSUME p = b PROVE Gaps(s, b, p)
  <2>1. {b} \in SUBSET (b..p) /\ b \in {b} /\ p \in {b} /\ {b} \ {p} = {}
    BY <1>1, <1>3
  <2> QED
    BY <2>1 DEF Gaps
<1> QED
  BY <1>2, <1>3

-----------------------------------------------------------------------------
(* Jobs *)

\* A job has the fields of its kind.
LEMMA JobIs ==
    ASSUME job \in Job
    PROVE  /\ job.op \in {"classify", "search", "stream", "detect", "load", "parse"}
           /\ job.op = "classify" => job \in ClassifyJob
           /\ job.op = "search" => job \in SearchJob
           /\ job.op = "stream" => job \in StreamJob
           /\ job.op = "detect" => job \in DetectJob
           /\ job.op = "load" => job \in LoadJob
           /\ job.op = "parse" => job \in ParseJob
  BY DEF Job, ClassifyJob, SearchJob, StreamJob, DetectJob, LoadJob, ParseJob

\* Each loop runs for its own jobs.
LEMMA PcIs ==
    ASSUME IInv
    PROVE  /\ pc \in {"strip", "token"} => job.op = "classify"
           /\ pc = "search" => job.op \in {"classify", "search"}
           /\ pc = "split" => job.op = "stream"
           /\ pc \in {"scan", "collect"} => job.op = "detect"
           /\ pc = "compile" => job.op \in {"stream", "detect"}
           /\ pc = "load" => job.op = "load"
           /\ pc = "parse" => job.op = "parse"
<1>1. job.op \in {"classify", "search", "stream", "detect", "load", "parse"}
  BY JobIs DEF IInv
<1> QED
  BY <1>1 DEF IInv, SearchInv, ClassifyInv, StreamInv, DetectInv, ConfigInv

\* The text of a job that has one.
LEMMA TextIs ==
    ASSUME IInv, job.op \in {"classify", "search"}
    PROVE  /\ job.text \in Seq(Strings) /\ Len(job.text) \in Nat
           /\ DOMAIN job.text = 1..Len(job.text) /\ End(job.text) = Len(job.text) + 1
           /\ at \in 1..End(job.text) /\ at \in Nat
<1>1. job.text \in Seq(Strings)
  BY JobIs DEF IInv, ClassifyJob, SearchJob
<1> QED
  BY <1>1 DEF IInv, SearchInv, End

-----------------------------------------------------------------------------
(* Classification *)

\* A line comment without a lone carriage return is a gap when it ends.
LEMMA LineGap ==
    ASSUME NEW s \in Seq(Strings), NEW p \in DOMAIN s, At(s, <<"dash", "dash">>, p), ~Odd(s, p)
    PROVE  LET end == Index(s, <<"nl">>, p)
           IN  /\ end = 0 => \A e \in 1..End(s) : p < e => ~Comment(s, p, e)
               /\ end # 0 => end + 1 \in 1..End(s) /\ p < end + 1 /\ Comment(s, p, end + 1)
<1> DEFINE end == Index(s, <<"nl">>, p)
<1>1. /\ Len(s) \in Nat /\ DOMAIN s = 1..Len(s) /\ p \in Nat /\ End(s) = Len(s) + 1 /\ p \in 1..End(s)
      /\ p + 1 <= Len(s) /\ s[p] = "dash" /\ s[p + 1] = "dash" /\ ~At(s, <<"slash", "star">>, p)
  BY MarksAt DEF End
<1>2. <<"nl">> \in Seq(Strings)
  <2>1. "nl" \in Strings
    BY StringsAssumption
  <2> QED
    BY <2>1
<1>3. /\ end = 0 => \A n \in p..Len(s) : s[n] # "nl"
      /\ end # 0 => end \in p..Len(s) /\ s[end] = "nl" /\ \A n \in p..(end - 1) : s[n] # "nl"
  <2>1. /\ end = 0 => \A n \in p..Len(s) : ~At(s, <<"nl">>, n)
        /\ end # 0 => end \in p..Len(s) /\ At(s, <<"nl">>, end) /\ \A n \in p..(end - 1) : ~At(s, <<"nl">>, n)
    BY <1>1, <1>2, IndexIs
  <2> HIDE DEF end
  <2>2. \A n \in p..Len(s) : n \in Int /\ (At(s, <<"nl">>, n) <=> s[n] = "nl")
    BY <1>1, MarksAt
  <2> QED
    BY <1>1, <2>1, <2>2
<1> HIDE DEF end
<1>4. \A n \in (p + 2)..Len(s) : LineEnd(s, n) => \E m \in (p + 2)..n : s[m] = "nl"
  BY DEF Odd
<1>5. end = 0 => \A n \in (p + 2)..Len(s) : ~LineEnd(s, n)
  BY <1>1, <1>3, <1>4
<1>6. ASSUME end # 0
      PROVE  end >= p + 2 /\ LineEnd(s, end) /\ \A n \in (p + 2)..(end - 1) : ~LineEnd(s, n)
  <2>1. end \in Nat /\ end # p /\ end # p + 1 /\ end >= p + 2
    BY <1>1, <1>3, <1>6
  <2>2. LineEnd(s, end)
    BY <1>3, <1>6 DEF LineEnd
  <2>3. \A n \in (p + 2)..(end - 1) : n \in (p + 2)..Len(s) /\ \A m \in (p + 2)..n : s[m] # "nl"
    BY <1>1, <1>3, <1>6, <2>1
  <2> QED
    BY <2>1, <2>2, <2>3, <1>4
<1>7. ASSUME end = 0, NEW e \in 1..End(s), p < e, Comment(s, p, e) PROVE FALSE
  BY <1>1, <1>5, <1>7 DEF Comment
<1>8. ASSUME end # 0 PROVE end + 1 \in 1..End(s) /\ p < end + 1 /\ Comment(s, p, end + 1)
  <2>1. end \in Nat /\ (end + 1) - 1 = end /\ (end + 1) - 2 = end - 1
    BY <1>1, <1>3, <1>8
  <2> QED
    BY <1>1, <1>3, <1>6, <1>8, <2>1 DEF Comment
<1> QED
  BY <1>7, <1>8 DEF end

\* A block comment that begins and goes on as PostgreSQL has it is a gap when it
\* ends.
LEMMA BlockGap ==
    ASSUME NEW s \in Seq(Strings), NEW p \in DOMAIN s, At(s, <<"slash", "star">>, p), ~Odd(s, p)
    PROVE  LET end == Index(s, <<"star", "slash">>, p)
           IN  /\ end = 0 => \A e \in 1..End(s) : p < e => ~Comment(s, p, e)
               /\ end # 0 => end + 2 \in 1..End(s) /\ p < end + 2 /\ Comment(s, p, end + 2)
<1> DEFINE close == <<"star", "slash">>
           end == Index(s, close, p)
           Closed(n) == At(s, close, n)
           Opened(n) == At(s, <<"slash", "star">>, n)
<1>1. /\ Len(s) \in Nat /\ DOMAIN s = 1..Len(s) /\ p \in Nat /\ End(s) = Len(s) + 1 /\ p \in 1..End(s)
      /\ p + 1 <= Len(s) /\ ~At(s, <<"dash", "dash">>, p) /\ ~Closed(p)
  BY MarksAt DEF End
<1>2. close \in Seq(Strings)
  <2>1. "star" \in Strings /\ "slash" \in Strings
    BY StringsAssumption
  <2> QED
    BY <2>1
<1>3. \A n \in Int : Closed(n) => n + 1 <= Len(s)
  BY <1>1, MarksAt
<1>4. /\ ~Closed(p + 1)
      /\ \A n \in (p + 2)..Len(s) : Opened(n) => \E m \in (p + 2)..(n - 1) : Closed(m)
  BY DEF Odd
<1>5. /\ end = 0 => \A n \in p..Len(s) : ~Closed(n)
      /\ end # 0 => end \in p..Len(s) /\ Closed(end) /\ \A n \in p..(end - 1) : ~Closed(n)
  BY <1>1, <1>2, IndexIs
<1>6. \A e : Comment(s, p, e) <=> /\ p + 4 <= e /\ Closed(e - 2)
                                  /\ \A n \in (p + 2)..(e - 3) : ~Closed(n) /\ ~Opened(n)
  BY <1>1 DEF Comment
<1> HIDE DEF end, Closed, Opened
<1>7. ASSUME end = 0, NEW e \in 1..End(s), p < e, Comment(s, p, e) PROVE FALSE
  <2>1. e \in Nat /\ p + 4 <= e /\ Closed(e - 2)
    BY <1>1, <1>6, <1>7
  <2>2. e - 2 \in p..Len(s)
    BY <2>1, <1>1
  <2> QED
    BY <2>1, <2>2, <1>5, <1>7
<1>8. ASSUME end # 0 PROVE end + 2 \in 1..End(s) /\ p < end + 2 /\ Comment(s, p, end + 2)
  <2>1. end \in Nat /\ end # p /\ end # p + 1 /\ end >= p + 2 /\ end + 1 <= Len(s)
    BY <1>1, <1>3, <1>4, <1>5, <1>8
  <2>2. (end + 2) - 2 = end /\ (end + 2) - 3 = end - 1 /\ p + 4 <= end + 2
    BY <2>1, <1>1
  <2>3. \A n \in (p + 2)..(end - 1) : ~Closed(n)
    BY <2>1, <1>1, <1>5, <1>8
  <2>4. \A n \in (p + 2)..(end - 1) : ~Opened(n)
    BY <2>1, <2>3, <1>1, <1>4
  <2>5. end + 2 \in 1..End(s) /\ p < end + 2
    BY <2>1, <1>1
  <2> QED
    BY <2>2, <2>3, <2>4, <2>5, <1>5, <1>6, <1>8
<1> QED
  BY <1>7, <1>8 DEF end

\* A comment that is not odd is a gap when it ends.
LEMMA CommentGap ==
    ASSUME NEW s \in Seq(Strings), NEW p \in 1..End(s), Closer(s, p) # <<>>
    PROVE  LET close == Closer(s, p)
               end == Index(s, close, p)
           IN  /\ p \in DOMAIN s /\ ~Solid(s, p)
               /\ end # 0 => end + Len(close) \in 1..End(s)
               /\ ~Odd(s, p) =>
                     /\ end = 0 => \A e \in 1..End(s) : p < e => ~Gap(s, p, e)
                     /\ end # 0 => p < end + Len(close) /\ Gap(s, p, end + Len(close))
<1>1. Len(s) \in Nat /\ DOMAIN s = 1..Len(s) /\ p \in Nat /\ End(s) = Len(s) + 1
  BY DEF End
<1> DEFINE close == Closer(s, p)
           end == Index(s, close, p)
<1>2. \/ At(s, <<"dash", "dash">>, p) /\ close = <<"nl">>
      \/ At(s, <<"slash", "star">>, p) /\ close = <<"star", "slash">>
  BY CloserIs
<1>3. p \in DOMAIN s /\ s[p] \notin Blanks /\ ~Solid(s, p)
  BY <1>1, <1>2, MarksAt DEF Blanks, Solid
<1>4. close \in Seq(Strings) /\ Len(close) \in {1, 2}
  <2>1. "nl" \in Strings /\ "star" \in Strings /\ "slash" \in Strings
    BY StringsAssumption
  <2>2. /\ <<"nl">> \in Seq(Strings) /\ <<"star", "slash">> \in Seq(Strings)
        /\ Len(<<"nl">>) = 1 /\ Len(<<"star", "slash">>) = 2
    BY <2>1
  <2> HIDE DEF close
  <2> QED
    BY <1>2, <2>2
<1>5. end # 0 => end \in p..Len(s) /\ At(s, close, end)
  BY <1>4, IndexIs
<1>6. \A e \in 1..End(s) : p < e => (Gap(s, p, e) <=> Comment(s, p, e))
  BY <1>1, <1>3 DEF Gap
<1> HIDE DEF end, close
<1>7. end # 0 => end + Len(close) \in 1..End(s)
  BY <1>1, <1>4, <1>5 DEF At
<1>8. ASSUME ~Odd(s, p)
      PROVE  /\ end = 0 => \A e \in 1..End(s) : p < e => ~Comment(s, p, e)
             /\ end # 0 => p < end + Len(close) /\ Comment(s, p, end + Len(close))
  <2>1. CASE At(s, <<"dash", "dash">>, p) /\ close = <<"nl">>
    BY <2>1, <1>3, <1>8, LineGap, CloserIs DEF end
  <2>2. CASE At(s, <<"slash", "star">>, p) /\ close = <<"star", "slash">>
    BY <2>2, <1>3, <1>8, BlockGap, CloserIs DEF end
  <2> QED
    BY <1>2, <2>1, <2>2
<1> QED
  BY <1>3, <1>6, <1>7, <1>8 DEF end, close

\* What TrimLeft skips is a gap.
LEMMA TrimGap ==
    ASSUME NEW s \in Seq(Strings), NEW f \in 1..End(s)
    PROVE  /\ Gaps(s, 1, f) => Gaps(s, 1, TrimLeft(s, f))
           /\ \A p \in DOMAIN s : Solid(s, p) => (Gaps(s, f, p) <=> Gaps(s, TrimLeft(s, f), p))
<1> DEFINE t == TrimLeft(s, f)
<1>1. /\ t \in f..End(s) /\ (\A n \in f..(t - 1) : s[n] \in Blanks)
      /\ t # End(s) => s[t] \notin Blanks
  BY TrimIs
<1> HIDE DEF t
<1>2. Len(s) \in Nat /\ DOMAIN s = 1..Len(s) /\ f \in Nat /\ t \in Nat /\ 1 \in 1..End(s)
  BY <1>1 DEF End
<1>3. CASE t = f
  BY <1>3 DEF t
<1>4. CASE t # f
  <2>1. f \in DOMAIN s /\ t \in 1..End(s) /\ f < t
    BY <1>1, <1>2, <1>4 DEF End
  <2>2. Gap(s, f, t)
    BY <1>1 DEF Gap
  <2> QED
    BY <2>1, <2>2, <1>2, GapsStep, GapsAppend DEF t
<1> QED
  BY <1>3, <1>4

\* A round of stripLeading stays on the way to the statement, and the last one
\* ends there.
LEMMA StripStep == ASSUME IInv, stripLeading PROVE IInv'
<1> DEFINE s == job.text
           p == TrimLeft(s, at)
           close == Closer(s, p)
           end == Index(s, close, p)
           next == end + Len(close)
<1>1. /\ job.op = "classify" /\ pc = "strip" /\ i = 1 /\ UNCHANGED <<job, answer, i>>
      /\ s \in Seq(Strings) /\ Len(s) \in Nat /\ DOMAIN s = 1..Len(s) /\ End(s) = Len(s) + 1
      /\ at \in 1..End(s)
  BY PcIs, TextIs DEF IInv, ClassifyInv, stripLeading
<1>2. Plain(s) => /\ Gaps(s, 1, at)
                  /\ \A q \in DOMAIN s : Solid(s, q) => (Gaps(s, 1, q) <=> Gaps(s, at, q))
  BY <1>1 DEF IInv, ClassifyInv
<1>3. p \in at..End(s) /\ p \in 1..End(s) /\ (p # End(s) => s[p] \notin Blanks)
  BY <1>1, TrimIs
<1>4. Plain(s) => /\ Gaps(s, 1, p)
                  /\ \A q \in DOMAIN s : Solid(s, q) => (Gaps(s, 1, q) <=> Gaps(s, p, q))
  BY <1>1, <1>2, TrimGap
<1>5. \/ close = <<>> /\ at' = p /\ pc' = "token"
      \/ close # <<>> /\ end = 0 /\ at' = End(s) /\ pc' = "token"
      \/ close # <<>> /\ end # 0 /\ at' = next /\ pc' = pc
  BY DEF stripLeading
<1>6. close # <<>> =>
         /\ p \in DOMAIN s /\ ~Solid(s, p)
         /\ end # 0 => next \in 1..End(s)
         /\ ~Odd(s, p) => /\ end = 0 => \A e \in 1..End(s) : p < e => ~Gap(s, p, e)
                          /\ end # 0 => p < next /\ Gap(s, p, next)
  BY <1>1, <1>3, CommentGap
<1>7. Plain(s) /\ p \in DOMAIN s => ~Odd(s, p)
  BY <1>4 DEF Plain
<1>8. close = <<>> => p = End(s) \/ Solid(s, p)
  BY <1>3 DEF Solid
<1> HIDE DEF s, p, close, end, next
<1>9. at' \in 1..End(s) /\ pc' \in {"strip", "token"}
  BY <1>1, <1>3, <1>5, <1>6
<1>10. ASSUME pc' = "strip", Plain(s)
       PROVE  /\ Gaps(s, 1, at')
              /\ \A q \in DOMAIN s : Solid(s, q) => (Gaps(s, 1, q) <=> Gaps(s, at', q))
  <2>1. at' = next /\ next \in 1..End(s) /\ p \in DOMAIN s /\ p < next /\ Gap(s, p, next)
    BY <1>5, <1>6, <1>7, <1>10
  <2>2. 1 \in 1..End(s)
    BY <1>1
  <2> QED
    BY <2>1, <2>2, <1>1, <1>3, <1>4, <1>10, GapsStep, GapsAppend
<1>11. ASSUME pc' = "token", Plain(s), NEW q \in DOMAIN s PROVE CodeAt(s, q) <=> q = at'
  <2>1. CASE close = <<>>
    <3>1. at' = p
      BY <1>5, <2>1
    <3>2. \A e \in 1..End(s) : p < e => ~Gap(s, p, e)
      <4>1. CASE p = End(s)
        BY <4>1, <1>1
      <4>2. CASE p # End(s)
        BY <4>2, <2>1, <1>8, <1>1, <1>3, GapEnd
      <4> QED
        BY <4>1, <4>2
    <3>3. Solid(s, q) => (Gaps(s, p, q) <=> q = p)
      BY <3>2, <1>1, <1>3, GapsEnd
    <3> QED
      BY <3>1, <3>3, <2>1, <1>1, <1>4, <1>8, <1>11 DEF CodeAt
  <2>2. CASE close # <<>>
    <3>1. at' = End(s) /\ end = 0
      BY <1>5, <1>11, <1>1, <2>2
    <3>2. Solid(s, q) => (Gaps(s, p, q) <=> q = p)
      BY <3>1, <2>2, <1>1, <1>3, <1>6, <1>7, <1>11, GapsEnd
    <3> QED
      BY <3>1, <3>2, <2>2, <1>1, <1>4, <1>6, <1>11 DEF CodeAt
  <2> QED
    BY <2>1, <2>2
<1>12. SearchInv' /\ ClassifyInv'
  BY <1>1, <1>9, <1>10, <1>11 DEF SearchInv, ClassifyInv, s
<1> QED
  BY <1>1, <1>9, <1>12 DEF IInv, StreamInv, DetectInv, ConfigInv, ClassifyIsConservative,
                           KnownRuleNeverRaw, SuggestionsProtect, AcceptedIsSound, Answered

\* A single keyword is a word.
LEMMA KeywordIs ==
    /\ Len(dangerKeywords) = 11 /\ DOMAIN dangerKeywords = 1..11
    /\ \A k \in 1..11 : <<dangerKeywords[k]>> \in Word
<1>1. Len(dangerKeywords) = 11 /\ DOMAIN dangerKeywords = 1..11
  BY DEF dangerKeywords
<1>2. ASSUME NEW k \in 1..11 PROVE <<dangerKeywords[k]>> \in Word
  <2> DEFINE w == dangerKeywords[k]
  <2>1. w \in Strings /\ isIdentChar(w)
    <3>1. w \in Strings
      BY <1>1, StringsAssumption DEF Danger
    <3>2. w \notin Blanks \cup Marks
      BY DEF dangerKeywords, Blanks, Marks
    <3> QED
      BY <3>1, <3>2 DEF isIdentChar
  <2> HIDE DEF w
  <2>2. <<w>> \in Seq(Strings) /\ <<w>> # <<>> /\ \A n \in DOMAIN <<w>> : <<w>>[n] = w
    BY <2>1
  <2> QED
    BY <2>1, <2>2 DEF Word, w
<1> QED
  BY <1>1, <1>2

\* Classify's switch, in terms of what stands at the beginning of the statement.
LEMMA SwitchIs ==
    ASSUME NEW s \in Seq(Strings), NEW f \in 1..End(s)
    PROVE  LET kind == Switch(firstToken(s, f))
               Is(keywords) == f # End(s) /\ Begins(s, f, keywords)
           IN  /\ kind = "search" <=> Is({"WITH", "EXPLAIN"})
               /\ kind = "read" <=> Is(readKeywords)
               /\ kind = "session" <=> Is(sessionKeywords \cup {"PREPARE"})
               /\ kind \in {"search", "read", "session", "mutation"}
<1> DEFINE t == firstToken(s, f)
           Is(keywords) == f # End(s) /\ Begins(s, f, keywords)
           Session == sessionKeywords \cup {"PREPARE"}
<1>1. (\E kw \in {"WITH", "EXPLAIN"} : t = <<kw>>) <=> Is({"WITH", "EXPLAIN"})
  <2>1. {"WITH", "EXPLAIN"} \cap (Blanks \cup {"lparen", "semicolon"}) = {}
    BY DEF Blanks
  <2> QED
    BY <2>1, TokenIs
<1>2. (\E kw \in readKeywords : t = <<kw>>) <=> Is(readKeywords)
  <2>1. readKeywords \cap (Blanks \cup {"lparen", "semicolon"}) = {}
    BY DEF Blanks, readKeywords
  <2> QED
    BY <2>1, TokenIs
<1>3. (\E kw \in Session : t = <<kw>>) <=> Is(Session)
  <2>1. Session \cap (Blanks \cup {"lparen", "semicolon"}) = {}
    BY DEF Blanks, sessionKeywords
  <2> HIDE DEF Session
  <2> QED
    BY <2>1, TokenIs
<1>4. /\ ~(Is({"WITH", "EXPLAIN"}) /\ Is(readKeywords))
      /\ ~(Is({"WITH", "EXPLAIN"}) /\ Is(Session)) /\ ~(Is(readKeywords) /\ Is(Session))
  BY DEF Begins, readKeywords, sessionKeywords
<1>5. Switch(t) = IF \E kw \in {"WITH", "EXPLAIN"} : t = <<kw>> THEN "search"
                  ELSE IF \E kw \in readKeywords : t = <<kw>> THEN "read"
                  ELSE IF \E kw \in Session : t = <<kw>> THEN "session"
                  ELSE "mutation"
  BY DEF Switch
<1> HIDE DEF t, Is, Session
<1>6. Switch(t) = IF Is({"WITH", "EXPLAIN"}) THEN "search" ELSE IF Is(readKeywords) THEN "read"
                  ELSE IF Is(Session) THEN "session" ELSE "mutation"
  BY <1>1, <1>2, <1>3, <1>5, Zenon
<1>7. /\ Switch(t) = "search" <=> Is({"WITH", "EXPLAIN"})
      /\ Switch(t) = "read" <=> Is(readKeywords)
      /\ Switch(t) = "session" <=> Is(Session)
      /\ Switch(t) \in {"search", "read", "session", "mutation"}
  BY <1>4, <1>6
<1> QED
  BY <1>7 DEF t, Is, Session

\* The switch answers as the statement's first keyword asks, or begins to
\* search.
LEMMA ClassifyStep == ASSUME IInv, Classify PROVE IInv'
<1> DEFINE s == job.text
           kind == Switch(firstToken(s, at))
           Is(keywords) == at # End(s) /\ Begins(s, at, keywords)
<1>1. /\ job.op = "classify" /\ pc = "token" /\ i = 1 /\ UNCHANGED <<job, at, i>>
      /\ s \in Seq(Strings) /\ Len(s) \in Nat /\ DOMAIN s = 1..Len(s) /\ End(s) = Len(s) + 1
      /\ at \in 1..End(s) /\ at \in Nat
  BY PcIs, TextIs DEF IInv, ClassifyInv, Classify
<1>2. Plain(s) => \A p \in DOMAIN s : CodeAt(s, p) <=> p = at
  BY <1>1 DEF IInv, ClassifyInv
<1>3. \/ kind # "search" /\ pc' = "done" /\ answer' = kind
      \/ kind = "search" /\ pc' = "search" /\ word' = <<dangerKeywords[1]>> /\ from' = at
  BY <1>1 DEF Classify, Answer
<1>4. /\ kind = "search" <=> Is({"WITH", "EXPLAIN"})
      /\ kind = "read" <=> Is(readKeywords)
      /\ kind = "session" <=> Is(sessionKeywords \cup {"PREPARE"})
  BY <1>1, SwitchIs
<1>5. at # End(s) <=> at \in DOMAIN s
  BY <1>1
<1> HIDE DEF s, kind
<1>6. CASE kind # "search"
  <2>1. SearchInv' /\ ClassifyInv'
    BY <1>1, <1>2, <1>3, <1>6 DEF SearchInv, ClassifyInv, s
  <2>2. ASSUME Plain(s)
        PROVE  LET start == {p \in DOMAIN s : CodeAt(s, p)}
                   read == \E p \in start : \/ Begins(s, p, readKeywords)
                                            \/ Begins(s, p, {"WITH", "EXPLAIN"}) /\ Clean(s, p)
                   session == \E p \in start : Begins(s, p, sessionKeywords \cup {"PREPARE"})
               IN  (answer' = "read" <=> read) /\ (answer' = "session" <=> session)
    BY <1>2, <1>3, <1>4, <1>5, <1>6, <2>2
  <2>3. ClassifyIsConservative'
    BY <1>1, <1>3, <1>6, <2>2 DEF ClassifyIsConservative, Answered, s
  <2> QED
    BY <1>1, <2>1, <2>3 DEF IInv, StreamInv, DetectInv, ConfigInv,
                            KnownRuleNeverRaw, SuggestionsProtect, AcceptedIsSound, Answered
<1>7. CASE kind = "search"
  <2>1. word' \in Word /\ 1 \in DOMAIN dangerKeywords /\ pc' = "search"
    BY <1>3, <1>7, KeywordIs
  <2>2. SearchInv' /\ ClassifyInv'
    BY <1>1, <1>2, <1>3, <1>4, <1>5, <1>7, <2>1 DEF SearchInv, ClassifyInv, s
  <2> QED
    BY <1>1, <2>1, <2>2 DEF IInv, StreamInv, DetectInv, ConfigInv, ClassifyIsConservative,
                            KnownRuleNeverRaw, SuggestionsProtect, AcceptedIsSound, Answered
<1> QED
  BY <1>6, <1>7

\* What containsWord tests at an occurrence is that it is delimited; and when
\* it is not, none of those that overlap it is.
LEMMA JumpIsSafe ==
    ASSUME NEW s \in Seq(Strings), NEW w \in Word, NEW f \in 1..End(s), NEW n \in f..Len(s), At(s, w, n)
    PROVE  /\ Alone(s, w, n, f) <=> DelimitedAt(s, w, f, n)
           /\ n + Len(w) \in f..End(s) /\ n < n + Len(w)
           /\ \A m \in (n + 1)..(n + Len(w) - 1) : ~DelimitedAt(s, w, f, m)
<1>1. /\ Len(s) \in Nat /\ w \in Seq(Strings) /\ Len(w) \in Nat \ {0} /\ DOMAIN w = 1..Len(w)
      /\ f \in Nat /\ n \in Nat /\ End(s) = Len(s) + 1
  BY DEF Word, End
<1>2. n + Len(w) <= End(s) /\ \A k \in 1..Len(w) : s[n + k - 1] = w[k]
  BY <1>1 DEF At
<1>3. ASSUME NEW m \in (n + 1)..(n + Len(w) - 1) PROVE ~DelimitedAt(s, w, f, m)
  <2>1. m - n \in 1..Len(w) /\ n + (m - n) - 1 = m - 1 /\ m > f
    BY <1>1
  <2>2. s[m - 1] = w[m - n] /\ isIdentChar(w[m - n])
    BY <2>1, <1>1, <1>2 DEF Word
  <2> QED
    BY <2>1, <2>2 DEF DelimitedAt
<1>4. Alone(s, w, n, f) <=> DelimitedAt(s, w, f, n)
  BY <1>1, <1>2 DEF Alone, DelimitedAt
<1> QED
  BY <1>1, <1>2, <1>3, <1>4

\* containsWord returns the truth, and its callers use it as they should.
LEMMA ReturnStep ==
    ASSUME IInv, pc = "search", NEW found \in BOOLEAN, Return(found), UNCHANGED <<job, at>>,
           found <=> Delimited(job.text, word, at)
    PROVE  IInv'
<1> DEFINE s == job.text
           start == {p \in DOMAIN s : CodeAt(s, p)}
<1>1. /\ job.op \in {"classify", "search"} /\ job \in Job
      /\ s \in Seq(Strings) /\ Len(s) \in Nat /\ DOMAIN s = 1..Len(s) /\ End(s) = Len(s) + 1
      /\ at \in 1..End(s) /\ at \in Nat
  BY PcIs, TextIs DEF IInv
<1>2. CASE job.op = "search"
  <2>1. pc' = "done" /\ answer' = found /\ word' = word /\ word = job.word /\ at = 1
    BY <1>2 DEF Return, Answer, IInv, SearchInv
  <2>2. SearchInv' /\ ClassifyIsConservative'
    BY <1>1, <1>2, <2>1 DEF SearchInv, ClassifyIsConservative, Answered
  <2> QED
    BY <1>1, <1>2, <2>1, <2>2 DEF IInv, ClassifyInv, StreamInv, DetectInv, ConfigInv,
                                  KnownRuleNeverRaw, SuggestionsProtect, AcceptedIsSound, Answered
<1>3. CASE job.op = "classify"
  <2>1. /\ i \in 1..11 /\ word = <<dangerKeywords[i]>> /\ at \in DOMAIN s
        /\ Begins(s, at, {"WITH", "EXPLAIN"})
        /\ \A k \in 1..(i - 1) : ~Delimited(s, <<dangerKeywords[k]>>, at)
        /\ Plain(s) => \A p \in DOMAIN s : CodeAt(s, p) <=> p = at
    BY <1>3, KeywordIs DEF IInv, ClassifyInv
  <2>2. Plain(s) => \A p \in start : p = at
    BY <2>1
  <2>3. Plain(s) => at \in start
    BY <2>1
  <2>4. ~Begins(s, at, readKeywords) /\ ~Begins(s, at, sessionKeywords \cup {"PREPARE"})
    BY <2>1 DEF Begins, readKeywords, sessionKeywords
  <2> HIDE DEF start
  <2>5. CASE found \/ i = 11
    <3>1. pc' = "done" /\ answer' = (IF found THEN "mutation" ELSE "read")
      BY <1>3, <2>5, KeywordIs DEF Return, Answer
    <3>2. Clean(s, at) <=> ~found
      BY <2>1, <2>5, KeywordIs DEF Clean
    <3>3. Plain(s) =>
          /\ answer' = "read" <=> \E p \in start : \/ Begins(s, p, readKeywords)
                                                   \/ Begins(s, p, {"WITH", "EXPLAIN"}) /\ Clean(s, p)
          /\ answer' = "session" <=> \E p \in start : Begins(s, p, sessionKeywords \cup {"PREPARE"})
      BY <3>1, <3>2, <2>1, <2>2, <2>3, <2>4
    <3>4. ClassifyIsConservative'
      BY <3>1, <3>3, <1>1, <1>3 DEF ClassifyIsConservative, Answered, start
    <3>5. SearchInv' /\ ClassifyInv'
      BY <3>1, <2>1, <1>1, <1>3 DEF SearchInv, ClassifyInv
    <3> QED
      BY <3>4, <3>5, <1>1, <1>3 DEF IInv, StreamInv, DetectInv, ConfigInv, KnownRuleNeverRaw,
                                    SuggestionsProtect, AcceptedIsSound, Answered
  <2>6. CASE ~found /\ i # 11
    <3>1. /\ i' = i + 1 /\ word' = <<dangerKeywords[i']>> /\ from' = at
          /\ pc' = pc /\ answer' = answer
      BY <1>3, <2>1, <2>6, KeywordIs DEF Return
    <3>2. i' \in 1..11 /\ word' \in Word
      BY <3>1, <2>1, <2>6, KeywordIs
    <3>3. \A k \in 1..(i' - 1) : ~Delimited(s, <<dangerKeywords[k]>>, at)
      BY <3>1, <2>1, <2>6
    <3>4. SearchInv'
      BY <3>1, <3>2, <1>1, <1>3 DEF SearchInv
    <3>5. ClassifyInv'
      BY <3>1, <3>2, <3>3, <2>1, <1>1, <1>3, KeywordIs DEF ClassifyInv
    <3> QED
      BY <3>1, <3>4, <3>5, <1>1, <1>3 DEF IInv, StreamInv, DetectInv, ConfigInv, ClassifyIsConservative,
                             KnownRuleNeverRaw, SuggestionsProtect, AcceptedIsSound, Answered
  <2> QED
    BY <2>1, <2>5, <2>6
<1> QED
  BY <1>1, <1>2, <1>3

\* A round of containsWord looks at everything up to where it goes on.
LEMMA SearchStep == ASSUME IInv, containsWord PROVE IInv'
<1> DEFINE s == job.text
           n == Index(s, word, from)
<1>1. /\ job.op \in {"classify", "search"} /\ pc = "search" /\ UNCHANGED <<job, at>>
      /\ s \in Seq(Strings) /\ Len(s) \in Nat /\ DOMAIN s = 1..Len(s) /\ End(s) = Len(s) + 1
      /\ at \in 1..End(s) /\ at \in Nat
  BY PcIs, TextIs DEF IInv, containsWord
<1>2. /\ word \in Word /\ from \in at..End(s)
      /\ \A m \in at..(from - 1) : ~DelimitedAt(s, word, at, m)
  BY <1>1 DEF IInv, SearchInv
<1>3. word \in Seq(Strings) /\ from \in 1..End(s) /\ from \in Nat
  BY <1>1, <1>2 DEF Word
<1>4. /\ n = 0 => \A m \in from..Len(s) : ~At(s, word, m)
      /\ n # 0 => n \in from..Len(s) /\ At(s, word, n) /\ \A m \in from..(n - 1) : ~At(s, word, m)
  BY <1>1, <1>3, IndexIs
<1>5. \/ n = 0 /\ Return(FALSE)
      \/ n # 0 /\ Alone(s, word, n, at) /\ Return(TRUE)
      \/ /\ n # 0 /\ ~Alone(s, word, n, at) /\ from' = n + Len(word)
         /\ UNCHANGED <<pc, answer, i, word>>
  BY DEF containsWord
<1> HIDE DEF n
<1>6. n # 0 => n \in at..Len(s)
  BY <1>1, <1>2, <1>3, <1>4
<1>7. CASE n = 0
  <2>1. ~Delimited(s, word, at)
    BY <1>1, <1>2, <1>3, <1>4, <1>7 DEF Delimited, DelimitedAt
  <2> QED
    BY <2>1, <1>1, <1>5, <1>7, ReturnStep
<1>8. CASE n # 0 /\ Alone(s, word, n, at)
  <2>1. Delimited(s, word, at)
    BY <1>1, <1>2, <1>4, <1>6, <1>8, JumpIsSafe DEF Delimited
  <2> QED
    BY <2>1, <1>1, <1>5, <1>8, ReturnStep
<1>9. CASE n # 0 /\ ~Alone(s, word, n, at)
  <2>1. from' = n + Len(word) /\ UNCHANGED <<pc, answer, i, word>>
    BY <1>5, <1>9
  <2>2. /\ ~DelimitedAt(s, word, at, n) /\ n + Len(word) \in at..End(s)
        /\ \A m \in (n + 1)..(n + Len(word) - 1) : ~DelimitedAt(s, word, at, m)
    BY <1>1, <1>2, <1>4, <1>6, <1>9, JumpIsSafe
  <2>3. \A m \in from..(n - 1) : ~DelimitedAt(s, word, at, m)
    BY <1>4, <1>9 DEF DelimitedAt
  <2>4. Len(word) \in Nat
    BY <1>3
  <2>5. ASSUME NEW m \in at..(from' - 1) PROVE ~DelimitedAt(s, word, at, m)
    <3>1. m \in at..(from - 1) \/ m \in from..(n - 1) \/ m = n \/ m \in (n + 1)..(n + Len(word) - 1)
      BY <1>1, <1>3, <1>6, <1>9, <2>1, <2>4
    <3> QED
      BY <3>1, <1>2, <2>2, <2>3
  <2>6. SearchInv'
    BY <1>1, <1>2, <2>1, <2>2, <2>5 DEF SearchInv, IInv
  <2>7. ClassifyInv'
    BY <1>1, <2>1 DEF ClassifyInv, IInv
  <2> QED
    BY <1>1, <2>1, <2>6, <2>7 DEF IInv, StreamInv, DetectInv, ConfigInv, ClassifyIsConservative,
                           KnownRuleNeverRaw, SuggestionsProtect, AcceptedIsSound, Answered
<1> QED
  BY <1>7, <1>8, <1>9

-----------------------------------------------------------------------------
(* Rules of a flag *)

\* What the flag says after one more part.
LEMMA FlagNext ==
    ASSUME NEW k \in Nat \ {0}, NEW c, NEW a
    PROVE  FlagGives(k, c, a) <=>
              IF job.spec[k].kind # "empty" /\ Lower(job.spec[k].name) = c
                THEN Asked(k) = a ELSE FlagGives(k - 1, c, a)
<1> DEFINE About(n) == job.spec[n].kind # "empty" /\ Lower(job.spec[n].name) = c
<1>1. \A b : \A m \in Nat : FlagGives(m, c, b) <=>
          \E n \in 1..m : About(n) /\ Asked(n) = b /\ \A l \in (n + 1)..m : ~About(l)
  BY DEF FlagGives, LastAbout
<1> HIDE DEF About
<1>2. FlagGives(k, c, a) <=> IF About(k) THEN Asked(k) = a ELSE FlagGives(k - 1, c, a)
  <2>1. CASE About(k)
    <3>1. \A n \in 1..k : n # k => k \in (n + 1)..k
      OBVIOUS
    <3>2. k \in 1..k /\ (k + 1)..k = {}
      OBVIOUS
    <3> QED
      BY <1>1, <2>1, <3>1, <3>2
  <2>2. CASE ~About(k)
    BY <1>1, <2>2
  <2> QED
    BY <2>1, <2>2
<1> QED
  BY <1>2 DEF About

\* What the rules say when one more is read.
LEMMA RuleNext ==
    ASSUME NEW k \in Nat \ {0}, NEW c, NEW a
    PROVE  RuleGives(k, c, a) <=>
              IF Lower(rules[k].name) = c THEN ParseAction(rules[k].action) = a
                                          ELSE RuleGives(k - 1, c, a)
<1>1. CASE Lower(rules[k].name) = c
  <2>1. \A n \in 1..k : n # k => k \in (n + 1)..k
    OBVIOUS
  <2>2. k \in 1..k /\ (k + 1)..k = {}
    OBVIOUS
  <2> QED
    BY <1>1, <2>1, <2>2 DEF RuleGives
<1>2. CASE Lower(rules[k].name) # c
  BY <1>2 DEF RuleGives
<1> QED
  BY <1>1, <1>2

\* A round of parsePII adds what its part says.
LEMMA SplitStep == ASSUME IInv, parsePII PROVE IInv'
<1> DEFINE c == Lower(job.column)
           Rule == [name : Name, action : Strings]
           Actions == {"none", "hash", "redact"}
           part == job.spec[i]
<1>1. /\ job.op = "stream" /\ pc = "split" /\ UNCHANGED <<job, answer, byColumn>>
      /\ job \in StreamJob /\ job \in Job
  BY PcIs, JobIs DEF IInv, parsePII
<1>2. /\ i \in Nat \ {0} /\ rules \in Seq(Rule) /\ i <= Len(job.spec) + 1 /\ byColumn = <<>>
      /\ \A a \in Actions : FlagGives(i - 1, c, a) <=> RuleGives(Len(rules), c, a)
  BY <1>1 DEF IInv, StreamInv
<1>3. job.spec \in Seq(Part) /\ Len(job.spec) \in Nat /\ Len(rules) \in Nat
  BY <1>1, <1>2 DEF StreamJob
<1>4. CASE i <= Len(job.spec)
  <2>1. i' = i + 1 /\ rules' = rules \o RuleOf(part) /\ pc' = pc
    BY <1>3, <1>2, <1>4 DEF parsePII
  <2>2. part \in Part
    BY <1>2, <1>3, <1>4
  <2>3. /\ rules' \in Seq(Rule)
        /\ \A a \in Actions : FlagGives(i, c, a) <=> RuleGives(Len(rules), c, a)'
    <3>1. CASE part.kind = "empty"
      <4>1. rules' = rules
        BY <1>2, <2>1, <3>1, ConcatEmptySeq DEF RuleOf
      <4>2. \A a \in Actions : RuleGives(Len(rules), c, a)' <=> RuleGives(Len(rules), c, a)
        BY <4>1, <1>1 DEF RuleGives
      <4>3. \A a \in Actions : FlagGives(i, c, a) <=> FlagGives(i - 1, c, a)
        BY <1>2, <3>1, FlagNext
      <4> QED
        BY <4>1, <4>2, <4>3, <1>2
    <3>2. CASE part.kind # "empty"
      <4> DEFINE r == [name |-> part.name, action |-> IF part.kind = "bare" THEN "redact" ELSE part.action]
      <4>1. r \in Rule /\ RuleOf(part) = <<r>>
        BY <2>2, <3>2, StringsAssumption DEF Part, RuleOf
      <4>2. Lower(r.name) = Lower(part.name) /\ ParseAction(r.action) = Asked(i)
        BY DEF Asked, ParseAction
      <4> HIDE DEF r, part, Rule
      <4>3. <<r>> \in Seq(Rule) /\ Len(<<r>>) = 1 /\ <<r>>[1] = r
        BY <4>1
      <4>4. /\ rules' \in Seq(Rule) /\ Len(rules') = Len(rules) + 1
            /\ \A n \in 1..(Len(rules) + 1) : rules'[n] = IF n <= Len(rules) THEN rules[n] ELSE <<r>>[n - Len(rules)]
        BY <4>1, <4>3, <2>1, <1>2, ConcatProperties
      <4>5. (\A n \in 1..Len(rules) : rules'[n] = rules[n]) /\ rules'[Len(rules) + 1] = r
        BY <4>3, <4>4, <1>3
      <4>6. ASSUME NEW a \in Actions
            PROVE  FlagGives(i, c, a) <=> RuleGives(Len(rules), c, a)'
        <5>1. RuleGives(Len(rules), c, a)' <=>
                 IF Lower(r.name) = c THEN ParseAction(r.action) = a ELSE RuleGives(Len(rules), c, a)
          <6>1. \A n \in 1..Len(rules) : n \in 1..(Len(rules) + 1) /\ Len(rules) + 1 \in (n + 1)..(Len(rules) + 1)
            BY <1>3
          <6>2. Len(rules) + 1 \in 1..(Len(rules) + 1) /\ (Len(rules) + 2)..(Len(rules) + 1) = {}
            BY <1>3
          <6>3. CASE Lower(r.name) = c
            BY <6>1, <6>2, <6>3, <4>4, <4>5, <1>1, <1>3 DEF RuleGives
          <6>4. CASE Lower(r.name) # c
            <7>1. RuleGives(Len(rules), c, a)' <=>
                     \E n \in 1..(Len(rules) + 1) :
                         /\ Lower(rules'[n].name) = c /\ ParseAction(rules'[n].action) = a
                         /\ \A l \in (n + 1)..(Len(rules) + 1) : Lower(rules'[l].name) # c
              BY <4>4, <1>1 DEF RuleGives
            <7>2. \A n \in 1..Len(rules) :
                     (\A l \in (n + 1)..(Len(rules) + 1) : Lower(rules'[l].name) # c)
                        <=> \A l \in (n + 1)..Len(rules) : Lower(rules[l].name) # c
              <8>1. \A n \in 1..Len(rules) : \A l \in (n + 1)..(Len(rules) + 1) :
                       l = Len(rules) + 1 \/ (l \in (n + 1)..Len(rules) /\ l \in 1..Len(rules))
                BY <1>3
              <8>2. \A n \in 1..Len(rules) : \A l \in (n + 1)..Len(rules) :
                       l \in (n + 1)..(Len(rules) + 1) /\ l \in 1..Len(rules)
                BY <1>3
              <8> QED
                BY <8>1, <8>2, <6>4, <4>5
            <7>3. \A n \in 1..(Len(rules) + 1) : n \in 1..Len(rules) \/ n = Len(rules) + 1
              BY <1>3
            <7>4. \A n \in 1..Len(rules) : n \in 1..(Len(rules) + 1)
              BY <1>3
            <7> QED
              BY <7>1, <7>2, <7>3, <7>4, <6>4, <4>5 DEF RuleGives
          <6> QED
            BY <6>3, <6>4
        <5>2. FlagGives(i, c, a) <=> IF Lower(part.name) = c THEN Asked(i) = a ELSE FlagGives(i - 1, c, a)
          BY <1>2, <3>2, FlagNext DEF part
        <5> QED
          BY <5>1, <5>2, <4>2, <1>2
      <4> QED
        BY <4>4, <4>6
    <3> QED
      BY <3>1, <3>2
  <2>4. \A a \in Actions : FlagGives(i - 1, c, a)' <=> FlagGives(i, c, a)
    <3>1. i' - 1 = i /\ job' = job
      BY <2>1, <1>1, <1>2
    <3> QED
      BY <3>1 DEF FlagGives, LastAbout, Asked
  <2>5. c \notin DOMAIN byColumn'
    BY <1>1, <1>2
  <2>6. StreamInv'
    BY <2>1, <2>3, <2>4, <2>5, <1>1, <1>2, <1>3, <1>4 DEF StreamInv
  <2> QED
    BY <2>1, <2>6, <1>1 DEF IInv, SearchInv, ClassifyInv, DetectInv, ConfigInv, ClassifyIsConservative,
                            KnownRuleNeverRaw, SuggestionsProtect, AcceptedIsSound, Answered
<1>5. CASE i > Len(job.spec)
  <2>1. i' = 1 /\ pc' = "compile" /\ rules' = rules /\ i - 1 = Len(job.spec)
    BY <1>3, <1>2, <1>5 DEF parsePII
  <2>2. \A a \in Actions : /\ FlagGives(Len(job.spec), c, a)' <=> FlagGives(i - 1, c, a)
                           /\ RuleGives(Len(rules), c, a)' <=> RuleGives(Len(rules), c, a)
                           /\ ~RuleGives(i - 1, c, a)'
    <3>1. i' - 1 = 0 /\ job' = job /\ rules' = rules /\ 1..0 = {}
      BY <2>1, <1>1
    <3>2. \A a \in Actions : FlagGives(Len(job.spec), c, a)' <=> FlagGives(i - 1, c, a)
      BY <2>1, <3>1 DEF FlagGives, LastAbout, Asked
    <3>3. \A a \in Actions : (RuleGives(Len(rules), c, a)' <=> RuleGives(Len(rules), c, a))
                             /\ ~RuleGives(i - 1, c, a)'
      BY <3>1 DEF RuleGives
    <3> QED
      BY <3>2, <3>3
  <2>3. c \notin DOMAIN byColumn'
    BY <1>1, <1>2
  <2>4. StreamInv'
    BY <2>1, <2>2, <2>3, <1>1, <1>2, <1>3 DEF StreamInv
  <2> QED
    BY <2>1, <2>4, <1>1 DEF IInv, SearchInv, ClassifyInv, DetectInv, ConfigInv, ClassifyIsConservative,
                            KnownRuleNeverRaw, SuggestionsProtect, AcceptedIsSound, Answered
<1> QED
  BY <1>2, <1>3, <1>4, <1>5

\* A suggestion depends on the hints only, and is an action of the policy.
LEMMA SuggestIs ==
    /\ \A x, y : Lower(x) = Lower(y) => SuggestAction(x) = SuggestAction(y)
    /\ \A x : ParseAction(SuggestAction(x)) = SuggestAction(x)
  BY DEF SuggestAction, ParseAction

\* A round of New for the rules of a flag: the map says what the rules say.
LEMMA CompileFlag == ASSUME IInv, New, job.op = "stream" PROVE IInv'
<1> DEFINE c == Lower(job.column)
           Actions == {"none", "hash", "redact"}
           col == Lower(rules[i].name)
           act == ParseAction(rules[i].action)
<1>1. /\ pc = "compile" /\ i <= Len(rules) /\ byColumn' = Assign(byColumn, col, act)
      /\ i' = i + 1 /\ UNCHANGED <<job, pc, answer, rules>> /\ job \in Job
  BY DEF New, IInv
<1>2. /\ i \in Nat \ {0} /\ rules \in Seq([name : Name, action : Strings])
      /\ c \in DOMAIN byColumn => byColumn[c] \in Actions
      /\ \A a \in Actions :
            /\ FlagGives(Len(job.spec), c, a) <=> RuleGives(Len(rules), c, a)
            /\ RuleGives(i - 1, c, a) <=> c \in DOMAIN byColumn /\ byColumn[c] = a
  BY <1>1 DEF IInv, StreamInv
<1>3. Len(rules) \in Nat /\ i' - 1 = i
  BY <1>1, <1>2
<1>4. act \in Actions
  BY DEF ParseAction
<1>5. /\ DOMAIN byColumn' = DOMAIN byColumn \cup {col}
      /\ \A d \in DOMAIN byColumn' : byColumn'[d] = IF d = col THEN act ELSE byColumn[d]
  BY <1>1 DEF Assign
<1> HIDE DEF col, act
<1>6. ASSUME NEW a \in Actions PROVE RuleGives(i, c, a) <=> c \in DOMAIN byColumn' /\ byColumn'[c] = a
  <2>1. RuleGives(i, c, a) <=> IF col = c THEN act = a ELSE RuleGives(i - 1, c, a)
    BY <1>2, RuleNext DEF col, act
  <2> QED
    BY <2>1, <1>2, <1>5
<1>7. \A a \in Actions : /\ RuleGives(i - 1, c, a)' <=> RuleGives(i, c, a)
                         /\ FlagGives(Len(job.spec), c, a)' <=> FlagGives(Len(job.spec), c, a)
                         /\ RuleGives(Len(rules), c, a)' <=> RuleGives(Len(rules), c, a)
  BY <1>1, <1>3 DEF RuleGives, FlagGives, LastAbout, Asked
<1>8. c \in DOMAIN byColumn' => byColumn'[c] \in Actions
  BY <1>2, <1>4, <1>5
<1>9. StreamInv'
  BY <1>1, <1>2, <1>3, <1>6, <1>7, <1>8 DEF StreamInv
<1> QED
  BY <1>1, <1>9 DEF IInv, SearchInv, ClassifyInv, DetectInv, ConfigInv, ClassifyIsConservative,
                    KnownRuleNeverRaw, SuggestionsProtect, AcceptedIsSound, Answered

\* What streamResult does to a value is what the last part about it asks for.
LEMMA StreamStep == ASSUME IInv, streamResult PROVE IInv'
<1> DEFINE c == Lower(job.column)
           Actions == {"none", "hash", "redact"}
           action == ActionFor(byColumn, job.column)
           ruled == \E n \in DOMAIN job.spec :
                       LastAbout(n, Len(job.spec), Lower(job.column)) /\ Asked(n) # "none"
<1>1. /\ pc = "compile" /\ i > Len(rules) /\ job.op = "stream" /\ pc' = "done"
      /\ answer' = [annotated |-> action, value |-> AnonymizeValue(action, job.isText, job.value)]
      /\ UNCHANGED <<job, i, rules, byColumn>> /\ job \in Job /\ job \in StreamJob
  BY JobIs DEF streamResult, Answer, IInv, ruleVars
<1>2. /\ i \in Nat \ {0} /\ rules \in Seq([name : Name, action : Strings]) /\ i <= Len(rules) + 1
      /\ c \in DOMAIN byColumn => byColumn[c] \in Actions
      /\ \A a \in Actions :
            /\ FlagGives(Len(job.spec), c, a) <=> RuleGives(Len(rules), c, a)
            /\ RuleGives(i - 1, c, a) <=> c \in DOMAIN byColumn /\ byColumn[c] = a
  BY <1>1 DEF IInv, StreamInv
<1>3. i - 1 = Len(rules) /\ job.spec \in Seq(Part) /\ DOMAIN job.spec = 1..Len(job.spec)
      /\ (job.value = Null \/ job.value.form = "raw")
  BY <1>1, <1>2 DEF StreamJob
<1>4. \A a \in Actions : FlagGives(Len(job.spec), c, a) <=> c \in DOMAIN byColumn /\ byColumn[c] = a
  BY <1>2, <1>3
<1>5. \A n \in DOMAIN job.spec : Asked(n) \in Actions
  BY DEF Asked, ParseAction
<1>6. ruled <=> \E a \in {"hash", "redact"} : FlagGives(Len(job.spec), c, a)
  BY <1>3, <1>5 DEF FlagGives
<1>7. (action # "none" <=> ruled) /\ action \in Actions
  BY <1>2, <1>4, <1>6 DEF ActionFor
<1> HIDE DEF action, ruled
<1>8. /\ ruled /\ job.value # Null => answer'.value.form # "raw"
      /\ ~ruled => answer'.value = job.value
      /\ answer'.annotated = "none" <=> ~ruled
      /\ answer'.value.form \in {"raw", "null"} \cup {answer'.annotated}
  BY <1>1, <1>3, <1>7 DEF AnonymizeValue, Null
<1>9. KnownRuleNeverRaw'
  BY <1>1, <1>8 DEF KnownRuleNeverRaw, LastAbout, Asked, ruled
<1>10. StreamInv'
  BY <1>1, <1>2 DEF StreamInv
<1> QED
  BY <1>1, <1>9, <1>10 DEF IInv, SearchInv, ClassifyInv, DetectInv, ConfigInv, ClassifyIsConservative,
                           SuggestionsProtect, AcceptedIsSound, Answered

-----------------------------------------------------------------------------
(* Suggestions *)

\* The flagged rows are rows of the schema.
LEMMA FlaggedIs ==
    ASSUME IInv, job.op = "detect"
    PROVE  /\ job.columns \in Seq(Strings \X Name) /\ Len(job.columns) \in Nat
           /\ DOMAIN job.columns = 1..Len(job.columns)
           /\ \A x : x \in Flagged <=> \E n \in DOMAIN job.columns :
                                         x = job.columns[n] /\ SuggestAction(x[2]) # "none"
           /\ \A x \in Flagged : x[1] \in Strings /\ x[2] \in Name /\ x = <<x[1], x[2]>>
<1>1. job.columns \in Seq(Strings \X Name)
  BY JobIs DEF IInv, DetectJob
<1>2. Len(job.columns) \in Nat /\ DOMAIN job.columns = 1..Len(job.columns)
      /\ \A n \in DOMAIN job.columns : job.columns[n] \in Strings \X Name
  BY <1>1
<1>3. \A x : x \in Flagged <=> \E n \in DOMAIN job.columns :
                                  x = job.columns[n] /\ SuggestAction(x[2]) # "none"
  BY DEF Flagged
<1>4. \A x \in Flagged : x \in Strings \X Name
  BY <1>2, <1>3
<1> QED
  BY <1>1, <1>2, <1>3, <1>4

\* A round of Scan adds its row exactly when it is flagged.
LEMMA ScanStep == ASSUME IInv, Scan PROVE IInv'
<1> DEFINE row == job.columns[i]
           Seen(k, ms) == \A n \in 1..k : SuggestAction(job.columns[n][2]) # "none"
                                             => \E m \in DOMAIN ms : ms[m] = job.columns[n]
<1>1. /\ job.op = "detect" /\ pc = "scan" /\ UNCHANGED <<job, answer, byCol, order>> /\ job \in Job
  BY PcIs DEF IInv, Scan
<1>2. /\ i \in Nat \ {0} /\ matches \in Seq(Flagged) /\ i <= Len(job.columns) + 1
      /\ order = <<>> /\ byCol = <<>> /\ Seen(i - 1, matches)
  BY <1>1 DEF IInv, DetectInv
<1>3. /\ Len(job.columns) \in Nat /\ DOMAIN job.columns = 1..Len(job.columns)
      /\ \A x : x \in Flagged <=> \E n \in DOMAIN job.columns :
                                    x = job.columns[n] /\ SuggestAction(x[2]) # "none"
  BY <1>1, FlaggedIs
<1>4. Flagged' = Flagged
  BY <1>1 DEF Flagged
<1>5. DOMAIN byCol' = {} /\ order' \in Seq(Name) /\ DOMAIN order' = {}
  BY <1>1, <1>2
<1>6. CASE i <= Len(job.columns)
  <2>1. i' = i + 1 /\ matches' = matches \o MatchOf(row) /\ pc' = pc
    BY <1>2, <1>3, <1>6 DEF Scan
  <2>2. matches' \in Seq(Flagged) /\ Seen(i, matches')
    <3>1. CASE SuggestAction(row[2]) = "none"
      <4>1. matches' = matches
        BY <1>2, <2>1, <3>1, ConcatEmptySeq DEF MatchOf
      <4> QED
        BY <4>1, <3>1, <1>2
    <3>2. CASE SuggestAction(row[2]) # "none"
      <4>1. row \in Flagged /\ MatchOf(row) = <<row>>
        BY <1>2, <1>3, <1>6, <3>2 DEF MatchOf
      <4>2. matches' \in Seq(Flagged) /\ Len(matches') = Len(matches) + 1 /\ Len(matches) \in Nat
            /\ (\A n \in 1..Len(matches) : matches'[n] = matches[n]) /\ matches'[Len(matches) + 1] = row
        <5> HIDE DEF row
        <5>1. <<row>> \in Seq(Flagged) /\ Len(<<row>>) = 1 /\ <<row>>[1] = row /\ Len(matches) \in Nat
          BY <4>1, <1>2
        <5>2. /\ matches' \in Seq(Flagged) /\ Len(matches') = Len(matches) + 1
              /\ \A n \in 1..(Len(matches) + 1) :
                    matches'[n] = IF n <= Len(matches) THEN matches[n] ELSE <<row>>[n - Len(matches)]
          BY <5>1, <4>1, <2>1, <1>2, ConcatProperties
        <5> QED
          BY <5>1, <5>2
      <4>3. DOMAIN matches = 1..Len(matches) /\ DOMAIN matches' = 1..(Len(matches) + 1)
        BY <4>2, <1>2
      <4>4. ASSUME NEW n \in 1..i, SuggestAction(job.columns[n][2]) # "none"
            PROVE  \E m \in DOMAIN matches' : matches'[m] = job.columns[n]
        <5>1. CASE n = i
          BY <5>1, <4>2, <4>3
        <5>2. CASE n # i
          <6>1. PICK m \in DOMAIN matches : matches[m] = job.columns[n]
            BY <5>2, <4>4, <1>2
          <6> QED
            BY <6>1, <4>2, <4>3
        <5> QED
          BY <5>1, <5>2
      <4> QED
        BY <4>2, <4>4
    <3> QED
      BY <3>1, <3>2
  <2>3. DetectInv'
    BY <2>1, <2>2, <1>1, <1>2, <1>3, <1>4, <1>5, <1>6 DEF DetectInv
  <2> QED
    BY <2>1, <2>3, <1>1 DEF IInv, SearchInv, ClassifyInv, StreamInv, ConfigInv, ClassifyIsConservative,
                            KnownRuleNeverRaw, SuggestionsProtect, AcceptedIsSound, Answered
<1>7. CASE i > Len(job.columns)
  <2>1. i' = 1 /\ matches' = matches /\ pc' = "collect" /\ i - 1 = Len(job.columns)
    BY <1>2, <1>3, <1>7 DEF Scan
  <2>2. ASSUME NEW c \in Flagged PROVE \E m \in DOMAIN matches : matches[m] = c
    <3>1. PICK n \in DOMAIN job.columns : c = job.columns[n] /\ SuggestAction(c[2]) # "none"
      BY <1>3
    <3>2. n \in 1..(i - 1) /\ SuggestAction(job.columns[n][2]) # "none"
      BY <3>1, <2>1, <1>3
    <3> QED
      BY <3>1, <3>2, <1>2
  <2>3. DetectInv'
    BY <2>1, <2>2, <1>1, <1>2, <1>3, <1>4, <1>5 DEF DetectInv
  <2> QED
    BY <2>1, <2>3, <1>1 DEF IInv, SearchInv, ClassifyInv, StreamInv, ConfigInv, ClassifyIsConservative,
                            KnownRuleNeverRaw, SuggestionsProtect, AcceptedIsSound, Answered
<1> QED
  BY <1>2, <1>3, <1>6, <1>7

\* A round of detectAndRespond adds a suggestion, or a table to one.
LEMMA CollectStep == ASSUME IInv, detectAndRespond PROVE IInv'
<1> DEFINE m == matches[i]
           tab == m[1]
           col == m[2]
           Good(bc, d) == /\ bc[d] \in [action : {SuggestAction(d)}, tables : Seq(Strings)]
                          /\ \A t \in DOMAIN bc[d].tables : <<bc[d].tables[t], d>> \in Flagged
<1>1. /\ job.op = "detect" /\ pc = "collect" /\ i <= Len(matches) /\ i' = i + 1
      /\ UNCHANGED <<job, pc, answer, matches>> /\ job \in Job
      /\ byCol' = AddSuggestion(byCol, m)
      /\ order' = IF col \in DOMAIN byCol THEN order ELSE Append(order, col)
  BY PcIs DEF IInv, detectAndRespond
<1>2. /\ i \in Nat \ {0} /\ matches \in Seq(Flagged) /\ order \in Seq(Name)
      /\ \A c \in Flagged : \E k \in DOMAIN matches : matches[k] = c
      /\ \A k \in 1..(i - 1) : Collected(matches[k])
      /\ \A n \in DOMAIN order : order[n] \in DOMAIN byCol
      /\ \A d \in DOMAIN byCol : \E n \in DOMAIN order : order[n] = d
      /\ \A k, n \in DOMAIN order : order[k] = order[n] => k = n
      /\ \A d \in DOMAIN byCol : Good(byCol, d)
  BY <1>1 DEF IInv, DetectInv
<1>3. m \in Flagged /\ tab \in Strings /\ col \in Name /\ m = <<tab, col>>
  <2>1. m \in Flagged
    BY <1>1, <1>2
  <2> QED
    BY <2>1, <1>1, FlaggedIs
<1>4. Flagged' = Flagged
  BY <1>1 DEF Flagged
<1> HIDE DEF m, tab, col
<1>5. /\ DOMAIN byCol' = DOMAIN byCol \cup {col}
      /\ \A d \in DOMAIN byCol' : Good(byCol', d)
      /\ \A d \in DOMAIN byCol : \A x : Contains(byCol[d].tables, x) => Contains(byCol'[d].tables, x)
      /\ Contains(byCol'[col].tables, tab)
  <2>1. CASE col \notin DOMAIN byCol
    <3> DEFINE new == [action |-> SuggestAction(col), tables |-> <<tab>>]
    <3>1. DOMAIN byCol' = DOMAIN byCol \cup {col} /\ byCol'[col] = new
          /\ \A d \in DOMAIN byCol : byCol'[d] = byCol[d]
      BY <1>1, <2>1 DEF AddSuggestion, Assign, tab, col
    <3>2. /\ new \in [action : {SuggestAction(col)}, tables : Seq(Strings)] /\ new.tables = <<tab>>
          /\ DOMAIN <<tab>> = {1} /\ Len(<<tab>>) = 1 /\ <<tab>>[1] = tab
      BY <1>3
    <3> HIDE DEF new
    <3>3. Good(byCol', col) /\ Contains(byCol'[col].tables, tab)
      BY <3>1, <3>2, <1>3 DEF Contains
    <3> QED
      BY <3>1, <3>3, <1>2
  <2>2. CASE col \in DOMAIN byCol /\ Contains(byCol[col].tables, tab)
    <3>1. byCol' = byCol
      BY <1>1, <2>2 DEF AddSuggestion, tab, col
    <3> QED
      BY <3>1, <2>2, <1>2
  <2>3. CASE col \in DOMAIN byCol /\ ~Contains(byCol[col].tables, tab)
    <3> DEFINE old == byCol[col].tables
               new == Append(old, tab)
    <3>1. byCol' = [byCol EXCEPT ![col].tables = new]
      BY <1>1, <2>3 DEF AddSuggestion, tab, col
    <3>2. old \in Seq(Strings) /\ Len(old) \in Nat /\ DOMAIN old = 1..Len(old)
      BY <2>3, <1>2
    <3>3. /\ new \in Seq(Strings) /\ Len(new) = Len(old) + 1 /\ DOMAIN new = 1..(Len(old) + 1)
          /\ (\A t \in 1..Len(old) : new[t] = old[t]) /\ new[Len(old) + 1] = tab
      <4> HIDE DEF old
      <4> QED
        BY <3>2, <1>3, AppendProperties
    <3> HIDE DEF new
    <3>4. Contains(new, tab) /\ \A x : Contains(old, x) => Contains(new, x)
      BY <3>2, <3>3 DEF Contains
    <3>5. \A t \in DOMAIN new : <<new[t], col>> \in Flagged
      <4>1. \A t \in DOMAIN old : <<old[t], col>> \in Flagged
        BY <2>3, <1>2
      <4>2. \A t \in DOMAIN new : (t \in DOMAIN old /\ new[t] = old[t]) \/ new[t] = tab
        BY <3>2, <3>3
      <4> QED
        BY <4>1, <4>2, <1>3
    <3>6. DOMAIN byCol' = DOMAIN byCol /\ \A d \in DOMAIN byCol : d # col => byCol'[d] = byCol[d]
      BY <3>1
    <3>7. byCol'[col].tables = new /\ byCol'[col] \in [action : {SuggestAction(col)}, tables : Seq(Strings)]
      <4>1. byCol'[col] = [byCol[col] EXCEPT !.tables = new]
        BY <3>1, <2>3
      <4>2. byCol[col] \in [action : {SuggestAction(col)}, tables : Seq(Strings)]
        BY <2>3, <1>2
      <4> QED
        BY <4>1, <4>2, <3>3
    <3>8. Good(byCol', col) /\ Contains(byCol'[col].tables, tab)
          /\ \A x : Contains(byCol[col].tables, x) => Contains(byCol'[col].tables, x)
      BY <3>4, <3>5, <3>7
    <3>9. \A d \in DOMAIN byCol : d # col => Good(byCol', d)
      BY <3>6, <1>2
    <3> HIDE DEF Good
    <3> QED
      BY <3>6, <3>8, <3>9, <2>3
  <2> QED
    BY <2>1, <2>2, <2>3
<1>6. /\ order' \in Seq(Name)
      /\ \A n \in DOMAIN order' : order'[n] \in DOMAIN byCol'
      /\ \A d \in DOMAIN byCol' : \E n \in DOMAIN order' : order'[n] = d
      /\ \A k, n \in DOMAIN order' : order'[k] = order'[n] => k = n
  <2>1. CASE col \in DOMAIN byCol
    BY <2>1, <1>1, <1>2, <1>5
  <2>2. CASE col \notin DOMAIN byCol
    <3>1. Len(order) \in Nat /\ DOMAIN order = 1..Len(order) /\ order' = Append(order, col)
      BY <2>2, <1>1, <1>2
    <3>2. /\ order' \in Seq(Name) /\ DOMAIN order' = 1..(Len(order) + 1)
          /\ (\A n \in 1..Len(order) : order'[n] = order[n]) /\ order'[Len(order) + 1] = col
      BY <3>1, <1>2, <1>3, AppendProperties
    <3>3. \A n \in DOMAIN order' : (n \in DOMAIN order /\ order'[n] = order[n])
                                   \/ (n = Len(order) + 1 /\ order'[n] = col)
      BY <3>1, <3>2
    <3>4. \A n \in DOMAIN order : n \in DOMAIN order' /\ order'[n] = order[n] /\ order[n] # col
      BY <3>1, <3>2, <2>2, <1>2
    <3>5. Len(order) + 1 \in DOMAIN order' /\ order'[Len(order) + 1] = col
      BY <3>1, <3>2
    <3>6. \A n \in DOMAIN order' : order'[n] \in DOMAIN byCol'
      BY <3>3, <1>2, <1>5
    <3>7. \A d \in DOMAIN byCol' : \E n \in DOMAIN order' : order'[n] = d
      <4>1. \A d \in DOMAIN byCol : \E n \in DOMAIN order' : order'[n] = d
        BY <3>4, <1>2
      <4> QED
        BY <4>1, <3>5, <1>5
    <3>8. \A k, n \in DOMAIN order' : order'[k] = order'[n] => k = n
      BY <3>3, <3>4, <1>2
    <3> QED
      BY <3>2, <3>6, <3>7, <3>8
  <2> QED
    BY <2>1, <2>2
<1>7. \A k \in 1..i : Collected(matches[k])'
  <2>1. ASSUME NEW k \in 1..i PROVE matches[k][2] \in DOMAIN byCol' /\ Contains(byCol'[matches[k][2]].tables, matches[k][1])
    <3>1. CASE k = i
      BY <3>1, <1>5 DEF m, tab, col
    <3>2. CASE k # i
      <4>1. Collected(matches[k])
        BY <3>2, <1>2
      <4> QED
        BY <4>1, <1>5 DEF Collected
    <3> QED
      BY <3>1, <3>2
  <2> QED
    BY <2>1, <1>1 DEF Collected
<1>8. DetectInv'
  <2>1. i' \in Nat \ {0} /\ i' - 1 = i /\ i' <= Len(matches) + 1
    BY <1>1, <1>2
  <2> QED
    BY <2>1, <1>1, <1>2, <1>4, <1>5, <1>6, <1>7 DEF DetectInv
<1> QED
  BY <1>1, <1>8 DEF IInv, SearchInv, ClassifyInv, StreamInv, ConfigInv, ClassifyIsConservative,
                    KnownRuleNeverRaw, SuggestionsProtect, AcceptedIsSound, Answered

\* The suggestions that are accepted are those collected, in their order.
LEMMA AcceptStep == ASSUME IInv, Accept PROVE IInv'
<1>1. /\ job.op = "detect" /\ pc = "collect" /\ i > Len(matches) /\ i' = 1 /\ pc' = "compile"
      /\ rules' = Suggestions(byCol, order)
      /\ UNCHANGED <<job, answer, byColumn, matches, byCol, order>> /\ job \in Job
  BY PcIs DEF IInv, Accept, scanVars
<1>2. /\ i \in Nat \ {0} /\ matches \in Seq(Flagged) /\ order \in Seq(Name) /\ i <= Len(matches) + 1
      /\ \A m \in 1..(i - 1) : Collected(matches[m])
  BY <1>1 DEF IInv, DetectInv
<1>3. \A m \in DOMAIN matches : Collected(matches[m])'
  BY <1>1, <1>2 DEF Collected
<1>4. Len(rules') \in Nat /\ rules' = Suggestions(byCol, order)' /\ 1..(i' - 1) = {} /\ i' \in Nat \ {0}
  <2>1. DOMAIN rules' = 1..Len(order) /\ Len(order) \in Nat
    BY <1>1, <1>2 DEF Suggestions
  <2> QED
    BY <2>1, <1>1 DEF Suggestions
<1>5. Flagged' = Flagged
  BY <1>1 DEF Flagged
<1>6. DetectInv'
  BY <1>1, <1>3, <1>4, <1>5 DEF IInv, DetectInv
<1> QED
  BY <1>1, <1>6 DEF IInv, SearchInv, ClassifyInv, StreamInv, ConfigInv, ClassifyIsConservative,
                    KnownRuleNeverRaw, SuggestionsProtect, AcceptedIsSound, Answered

\* The rules an operator accepted, one for each suggestion.
LEMMA RulesAre ==
    ASSUME IInv, job.op = "detect", pc = "compile"
    PROVE  /\ DOMAIN rules = 1..Len(order) /\ Len(order) \in Nat /\ Len(rules) = Len(order)
           /\ DOMAIN order = 1..Len(order)
           /\ \A n \in DOMAIN rules : /\ rules[n].name = order[n] /\ order[n] \in DOMAIN byCol
                                       /\ rules[n].action = SuggestAction(rules[n].name)
                                       /\ rules[n].tables = byCol[order[n]].tables
<1>1. /\ order \in Seq(Name) /\ rules = Suggestions(byCol, order)
      /\ \A n \in DOMAIN order : order[n] \in DOMAIN byCol
      /\ \A d \in DOMAIN byCol : byCol[d].action = SuggestAction(d)
  BY DEF IInv, DetectInv
<1>2. DOMAIN order = 1..Len(order) /\ Len(order) \in Nat
  BY <1>1
<1>3. DOMAIN rules = 1..Len(order)
  BY <1>1, <1>2 DEF Suggestions
<1>4. Len(rules) = Len(order)
  BY <1>1, <1>2 DEF Suggestions
<1>5. \A n \in DOMAIN rules : /\ rules[n].name = order[n] /\ rules[n].tables = byCol[order[n]].tables
                              /\ rules[n].action = byCol[order[n]].action
  BY <1>1, <1>2, <1>3 DEF Suggestions
<1> QED
  BY <1>1, <1>2, <1>3, <1>4, <1>5

\* A round of New for accepted suggestions: those that differ in spelling only
\* suggest the same action, so none is undone by a later one.
LEMMA CompileSuggestions == ASSUME IInv, New, job.op = "detect" PROVE IInv'
<1> DEFINE col == Lower(rules[i].name)
           Done(bc, n) == /\ Lower(rules[n].name) \in DOMAIN bc
                          /\ ActionFor(bc, rules[n].name) = SuggestAction(rules[n].name)
<1>1. /\ pc = "compile" /\ i <= Len(rules) /\ i' = i + 1
      /\ byColumn' = Assign(byColumn, col, ParseAction(rules[i].action))
      /\ UNCHANGED <<job, pc, answer, rules, matches, byCol, order>> /\ job \in Job
  BY DEF New, IInv, scanVars
<1>2. i \in Nat \ {0} /\ \A n \in 1..(i - 1) : Done(byColumn, n)
  BY <1>1 DEF IInv, DetectInv
<1>3. /\ Len(rules) \in Nat /\ DOMAIN rules = 1..Len(rules)
      /\ \A n \in DOMAIN rules : rules[n].action = SuggestAction(rules[n].name)
  BY <1>1, RulesAre
<1>4. i \in DOMAIN rules /\ i' - 1 = i /\ i' \in Nat \ {0} /\ i' <= Len(rules) + 1
  BY <1>1, <1>2, <1>3
<1>5. ParseAction(rules[i].action) = SuggestAction(rules[i].name)
  BY <1>3, <1>4, SuggestIs
<1>6. /\ DOMAIN byColumn' = DOMAIN byColumn \cup {col}
      /\ \A d \in DOMAIN byColumn' : byColumn'[d] = IF d = col THEN SuggestAction(rules[i].name) ELSE byColumn[d]
  BY <1>1, <1>5 DEF Assign
<1>7. ASSUME NEW n \in 1..i PROVE Done(byColumn', n)
  <2>1. CASE Lower(rules[n].name) = col
    BY <2>1, <1>6, SuggestIs DEF ActionFor
  <2>2. CASE Lower(rules[n].name) # col
    <3>1. Done(byColumn, n)
      BY <2>2, <1>2
    <3> QED
      BY <3>1, <2>2, <1>6 DEF ActionFor
  <2> QED
    BY <2>1, <2>2
<1>8. \A n \in 1..(i' - 1) : Done(byColumn', n) /\ rules' = rules
  BY <1>1, <1>4, <1>7
<1>9. /\ Flagged' = Flagged /\ rules' = Suggestions(byCol, order)'
      /\ \A m \in DOMAIN matches : Collected(matches[m])'
  BY <1>1 DEF IInv, DetectInv, Flagged, Suggestions, Collected
<1>10. DetectInv'
  BY <1>1, <1>4, <1>8, <1>9 DEF IInv, DetectInv
<1> QED
  BY <1>1, <1>10 DEF IInv, SearchInv, ClassifyInv, StreamInv, ConfigInv, ClassifyIsConservative,
                     KnownRuleNeverRaw, SuggestionsProtect, AcceptedIsSound, Answered

\* When all rules are compiled, every flagged row is protected.
LEMMA CompiledStep == ASSUME IInv, Compiled PROVE IInv'
<1>1. /\ pc = "compile" /\ i > Len(rules) /\ job.op = "detect" /\ pc' = "done" /\ answer' = rules
      /\ UNCHANGED <<job, i, rules, byColumn, matches, byCol, order>> /\ job \in Job
  BY DEF Compiled, Answer, IInv, ruleVars, scanVars
<1>2. /\ i \in Nat \ {0} /\ i <= Len(rules) + 1
      /\ \A c \in Flagged : \E m \in DOMAIN matches : matches[m] = c
      /\ \A m \in DOMAIN matches : Collected(matches[m])
      /\ \A d \in DOMAIN byCol : \E n \in DOMAIN order : order[n] = d
      /\ \A m, n \in DOMAIN order : order[m] = order[n] => m = n
      /\ \A d \in DOMAIN byCol : \A t \in DOMAIN byCol[d].tables : <<byCol[d].tables[t], d>> \in Flagged
      /\ \A n \in 1..(i - 1) : ActionFor(byColumn, rules[n].name) = SuggestAction(rules[n].name)
  BY <1>1 DEF IInv, DetectInv
<1>3. /\ DOMAIN rules = DOMAIN order /\ DOMAIN rules = 1..Len(rules) /\ Len(rules) \in Nat
      /\ \A n \in DOMAIN rules : /\ rules[n].name = order[n] /\ order[n] \in DOMAIN byCol
                                  /\ rules[n].tables = byCol[order[n]].tables
  BY <1>1, RulesAre
<1>4. DOMAIN rules = 1..(i - 1)
  BY <1>1, <1>2, <1>3
<1>5. Flagged' = Flagged
  BY <1>1 DEF Flagged
<1>6. ASSUME NEW c \in Flagged
      PROVE  /\ ActionFor(byColumn, c[2]) = SuggestAction(c[2])
             /\ \E n \in DOMAIN rules : rules[n].name = c[2] /\ Contains(rules[n].tables, c[1])
  <2>1. c[2] \in DOMAIN byCol /\ Contains(byCol[c[2]].tables, c[1])
    BY <1>2 DEF Collected
  <2>2. PICK n \in DOMAIN order : order[n] = c[2]
    BY <2>1, <1>2
  <2>3. n \in DOMAIN rules /\ rules[n].name = c[2] /\ rules[n].tables = byCol[c[2]].tables
    BY <2>2, <1>3
  <2>4. ActionFor(byColumn, c[2]) = SuggestAction(c[2])
    BY <2>3, <1>2, <1>4
  <2> QED
    BY <2>1, <2>3, <2>4
<1>7. \A m, n \in DOMAIN rules : rules[m].name = rules[n].name => m = n
  BY <1>2, <1>3
<1>8. \A n \in DOMAIN rules : \A t \in DOMAIN rules[n].tables :
         <<rules[n].tables[t], rules[n].name>> \in Flagged
  BY <1>2, <1>3
<1>9. SuggestionsProtect'
  BY <1>1, <1>5, <1>6, <1>7, <1>8 DEF SuggestionsProtect
<1>10. DetectInv'
  BY <1>1, <1>5 DEF IInv, DetectInv
<1> QED
  BY <1>1, <1>9, <1>10 DEF IInv, SearchInv, ClassifyInv, StreamInv, ConfigInv, ClassifyIsConservative,
                           KnownRuleNeverRaw, AcceptedIsSound, Answered

-----------------------------------------------------------------------------
(* Configuration *)

\* A configuration that Load accepts is sound.
LEMMA LoadStep == ASSUME IInv, DoLoad PROVE IInv'
<1>1. /\ job.op = "load" /\ pc' = "done" /\ answer' = Load(job.file, job.env)
      /\ UNCHANGED job /\ job \in Job
  BY PcIs DEF DoLoad, Answer, IInv
<1> DEFINE e == applyEnv(job.file, job.env)
           c == applyDefaults(e)
           mode == setString(job.file.mode, job.env.mode)
           url == setString(job.file.url, job.env.url)
           timeout == setString(job.file.timeout, job.env.timeout)
<1>2. e.mode = mode /\ e.url = url /\ e.timeout = timeout
  BY DEF applyEnv
<1>3. /\ c.mode = IF e.mode # Unset THEN e.mode ELSE IF e.url # Unset THEN "http" ELSE "auto_deny"
      /\ c.url = e.url
      /\ c.timeout = IF e.timeout \in {Unset, "0"} THEN "2m" ELSE e.timeout
  BY DEF applyDefaults
<1>4. answer' # Rejected => answer' = c /\ valid(c) /\ job.file.timeout # "bad" /\ job.env.timeout # "bad"
  BY <1>1 DEF Load
<1> HIDE DEF e, c
<1>5. ASSUME answer' # Rejected
      PROVE  /\ answer'.mode = "auto_approve" <=> mode = "auto_approve"
             /\ answer'.mode = "http" => answer'.url # Unset
             /\ mode = Unset => answer'.mode = (IF url = Unset THEN "auto_deny" ELSE "http")
             /\ job.env.mode # Unset => answer'.mode = job.env.mode
             /\ answer'.tls = "acme" => answer'.hosts # Unset
             /\ answer'.tls = "file" => answer'.cert # Unset
             /\ answer'.timeout \notin {Unset, "0", "bad"}
  <2>1. /\ c.mode = "http" => c.url # Unset
        /\ c.tls = "acme" => c.hosts # Unset
        /\ c.tls = "file" => c.cert # Unset
    BY <1>4, <1>5 DEF valid, Unset
  <2>2. c.mode = "auto_approve" <=> mode = "auto_approve"
    BY <1>2, <1>3 DEF Unset
  <2>3. job.env.mode # Unset => c.mode = job.env.mode
    BY <1>2, <1>3 DEF setString
  <2>4. c.timeout \notin {Unset, "0", "bad"}
    BY <1>2, <1>3, <1>4, <1>5 DEF setString, Unset
  <2>5. mode = Unset => c.mode = (IF url = Unset THEN "auto_deny" ELSE "http")
    BY <1>2, <1>3
  <2> QED
    BY <1>4, <1>5, <2>1, <2>2, <2>3, <2>4, <2>5
<1>6. AcceptedIsSound'
  BY <1>1, <1>5 DEF AcceptedIsSound, Answered
<1> QED
  BY <1>1, <1>6 DEF IInv, SearchInv, ClassifyInv, StreamInv, DetectInv, ConfigInv, ClassifyIsConservative,
                    KnownRuleNeverRaw, SuggestionsProtect, Answered

\* A duration that parseHumanDuration accepts is positive, but for the days
\* that it does not check.
LEMMA ParseStep == ASSUME IInv, DoParse PROVE IInv'
<1>1. /\ job.op = "parse" /\ pc' = "done" /\ answer' = parseHumanDuration(job.unit, job.n)
      /\ UNCHANGED job /\ job \in Job /\ job \in ParseJob
  BY PcIs, JobIs DEF DoParse, Answer, IInv
<1>2. job.n \in Int /\ job.unit \in {"d", "go"}
  BY <1>1 DEF ParseJob
<1>3. ASSUME answer'.ok
      PROVE  answer'.d > 0 \/ (job.unit = "d" /\ (job.n = 0 \/ job.n * Day > MaxWord))
  <2>1. CASE job.unit = "d"
    <3>1. answer'.d = Wrap(job.n * Day) /\ job.n >= 0
      BY <1>1, <1>3, <2>1 DEF parseHumanDuration
    <3>2. \A h \in Nat \ {0}, n \in Nat : n < h => ((n + h) % (2 * h)) - h = n
      OBVIOUS
    <3>3. job.n # 0 /\ job.n * Day <= MaxWord => job.n * Day \in Nat \ {0} /\ job.n * Day < Half
      BY <3>1, <1>2, HalfAssumption DEF Day, MaxWord
    <3>4. job.n # 0 /\ job.n * Day <= MaxWord => Wrap(job.n * Day) = job.n * Day
      BY <3>2, <3>3, HalfAssumption DEF Wrap
    <3>5. job.n * Day \in Int /\ MaxWord \in Int
      BY <1>2, HalfAssumption DEF Day, MaxWord
    <3> QED
      BY <3>1, <3>3, <3>4, <3>5, <2>1
  <2>2. CASE job.unit = "go"
    BY <1>1, <1>2, <1>3, <2>2 DEF parseHumanDuration
  <2> QED
    BY <1>2, <2>1, <2>2
<1>4. AcceptedIsSound'
  BY <1>1, <1>3 DEF AcceptedIsSound, Answered
<1> QED
  BY <1>1, <1>4 DEF IInv, SearchInv, ClassifyInv, StreamInv, DetectInv, ConfigInv, ClassifyIsConservative,
                    KnownRuleNeverRaw, SuggestionsProtect, Answered

-----------------------------------------------------------------------------
(* The loop invariants, inductive *)

\* Each job begins as its invariant says.
LEMMA IInvInit == Init => IInv
<1> SUFFICES ASSUME Init PROVE IInv
  OBVIOUS
<1>1. /\ job \in Job /\ i = 1 /\ at = 1 /\ from = 1 /\ rules = <<>> /\ byColumn = <<>>
      /\ matches = <<>> /\ byCol = <<>> /\ order = <<>>
      /\ word = IF job.op = "search" THEN job.word ELSE <<>>
  BY JobsAssumption DEF Init
<1>2. /\ job.op = "classify" => pc = "strip"
      /\ job.op = "search" => pc = "search"
      /\ job.op = "stream" => pc = "split"
      /\ job.op = "detect" => pc = "scan"
      /\ job.op = "load" => pc = "load"
      /\ job.op = "parse" => pc = "parse"
  BY DEF Init, Begin
<1>3. pc # "done" /\ job.op \in {"classify", "search", "stream", "detect", "load", "parse"}
  BY <1>1, <1>2, JobIs
<1>4. SearchInv
  <2>1. job.op \in {"classify", "search"} => job.text \in Seq(Strings)
    BY <1>1, JobIs DEF ClassifyJob, SearchJob
  <2>2. job.op = "search" => job.word \in Word
    BY <1>1, JobIs DEF SearchJob
  <2>3. job.op \in {"classify", "search"} => 1 \in 1..End(job.text) /\ 1..(1 - 1) = {}
    BY <2>1 DEF End
  <2> QED
    BY <1>1, <1>2, <2>2, <2>3 DEF SearchInv
<1>5. ClassifyInv
  <2>1. Gaps(job.text, 1, 1)
    <3>1. {1} \in SUBSET (1..1) /\ 1 \in {1} /\ {1} \ {1} = {}
      OBVIOUS
    <3> QED
      BY <3>1 DEF Gaps
  <2> QED
    BY <1>1, <1>2, <2>1 DEF ClassifyInv
<1>6. StreamInv
  <2>1. job.op = "stream" => job.spec \in Seq(Part) /\ Len(job.spec) \in Nat
    BY <1>1, JobIs DEF StreamJob
  <2>2. \A c, a : ~FlagGives(0, c, a) /\ ~RuleGives(0, c, a)
    BY DEF FlagGives, RuleGives
  <2>3. rules \in Seq([name : Name, action : Strings]) /\ Len(rules) = 0 /\ DOMAIN byColumn = {} /\ i - 1 = 0
    BY <1>1
  <2> QED
    BY <1>1, <1>2, <2>1, <2>2, <2>3 DEF StreamInv
<1>7. DetectInv
  <2>1. job.op = "detect" => Len(job.columns) \in Nat
    BY <1>1, JobIs DEF DetectJob
  <2>2. matches \in Seq(Flagged) /\ order \in Seq(Name) /\ DOMAIN order = {} /\ DOMAIN byCol = {}
        /\ 1..(i - 1) = {}
    BY <1>1
  <2> QED
    BY <1>1, <1>2, <2>1, <2>2 DEF DetectInv
<1>8. ConfigInv
  BY <1>2 DEF ConfigInv
<1> QED
  BY <1>1, <1>3, <1>4, <1>5, <1>6, <1>7, <1>8 DEF IInv, ClassifyIsConservative, KnownRuleNeverRaw,
                                                  SuggestionsProtect, AcceptedIsSound, Answered

\* Every round of every loop keeps the invariant.
LEMMA IInvInductive == IInv /\ [Next]_vars => IInv'
<1> SUFFICES ASSUME IInv, [Next]_vars PROVE IInv'
  OBVIOUS
<1>1. CASE New
  <2>1. job.op \in {"stream", "detect"}
    BY <1>1, PcIs DEF New
  <2> QED
    BY <1>1, <2>1, CompileFlag, CompileSuggestions
<1>2. CASE UNCHANGED vars
  <2>1. UNCHANGED <<job, pc, answer, at, word, from, i, rules, byColumn, matches, byCol, order>>
    BY <1>2 DEF vars, textVars, ruleVars, scanVars
  <2>2. SearchInv' /\ ClassifyInv' /\ ClassifyIsConservative'
    BY <2>1 DEF IInv, SearchInv, ClassifyInv, ClassifyIsConservative, Answered
  <2>3. StreamInv' /\ KnownRuleNeverRaw'
    <3>1. \A k, c, a : (FlagGives(k, c, a)' <=> FlagGives(k, c, a)) /\ (RuleGives(k, c, a)' <=> RuleGives(k, c, a))
      BY <2>1 DEF FlagGives, RuleGives, LastAbout, Asked
    <3>2. StreamInv'
      BY <2>1, <3>1 DEF IInv, StreamInv
    <3>3. KnownRuleNeverRaw'
      BY <2>1 DEF IInv, KnownRuleNeverRaw, Answered, LastAbout, Asked
    <3> QED
      BY <3>2, <3>3
  <2>4. DetectInv' /\ SuggestionsProtect'
    <3>1. Flagged' = Flagged
      BY <2>1 DEF Flagged
    <3>2. DetectInv'
      BY <2>1, <3>1 DEF IInv, DetectInv, Collected
    <3>3. SuggestionsProtect'
      BY <2>1, <3>1 DEF IInv, SuggestionsProtect, Answered
    <3> QED
      BY <3>2, <3>3
  <2>5. ConfigInv' /\ AcceptedIsSound'
    BY <2>1 DEF IInv, ConfigInv, AcceptedIsSound, Answered
  <2> QED
    BY <2>1, <2>2, <2>3, <2>4, <2>5 DEF IInv
<1> QED
  BY <1>1, <1>2, StripStep, ClassifyStep, SearchStep, SplitStep, StreamStep, ScanStep, CollectStep,
     AcceptStep, CompiledStep, LoadStep, ParseStep DEF Next

\* The loop invariants hold in every state of every job.
THEOREM LoopsKeepTheirInvariants == Spec => []IInv
  BY IInvInit, IInvInductive, PTL DEF Spec

\* Classify, for texts of any length whose leading comments end for PostgreSQL
\* where they end for stripLeading: one is let through only when its first
\* statement begins, behind comments and blanks, with a read or a session
\* keyword, and one with WITH or EXPLAIN only without a data-changing keyword
\* after it; a text that is one such statement is let through.  containsWord
\* finds a word exactly when it stands between delimiters.  Of the statements
\* behind the first nothing is said.
THEOREM Conservative == Spec => []ClassifyIsConservative
<1>1. IInv => ClassifyIsConservative
  BY DEF IInv
<1> QED
  BY <1>1, LoopsKeepTheirInvariants, PTL

\* streamResult, for -pii flags of any length: a value of a column whose last
\* rule is to hash or to redact never leaves as it is.  A last rule with any
\* other action is no protection.
THEOREM KnownRuleProtects == Spec => []KnownRuleNeverRaw
<1>1. IInv => KnownRuleNeverRaw
  BY DEF IInv
<1> QED
  BY <1>1, LoopsKeepTheirInvariants, PTL

\* detectAndRespond and New, for schemas of any size: whoever accepts every
\* suggestion has every flagged column of every table protected as suggested.
THEOREM Protects == Spec => []SuggestionsProtect
<1>1. IInv => SuggestionsProtect
  BY DEF IInv
<1> QED
  BY <1>1, LoopsKeepTheirInvariants, PTL

\* Load and parseHumanDuration, for every file, environment and number: what is
\* accepted can be used as it says, a word of any width included.
THEOREM Sound == Spec => []AcceptedIsSound
<1>1. IInv => AcceptedIsSound
  BY DEF IInv
<1> QED
  BY <1>1, LoopsKeepTheirInvariants, PTL
=============================================================================
