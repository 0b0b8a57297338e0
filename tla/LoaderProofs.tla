----------------------------- MODULE LoaderProofs -----------------------------
(***************************************************************************)
(* What holds of the loader's parts for every number of descriptors,       *)
(* files, handles, downloads, boot options and images, and for every map   *)
(* of the memory.  A behaviour follows one part, so each theorem is the    *)
(* inductive invariant of that part; most need one stronger than what they *)
(* state, which is defined before the lemma that a step preserves it.      *)
(***************************************************************************)
EXTENDS LoaderParts, WellFoundedInduction, TLAPS

WithList == {"open_binding", "create_child", "free"}
WithChild == {"open_http", "configure", "url", "request", "response", "destroy"}

(***************************************************************************)
(* What is held follows from the call that is next; the body of a          *)
(* response, if it counts, is the bytes in the buffer of this download.    *)
(***************************************************************************)
HeldInv ==
    /\ pc \in {"idle", "locate"} \cup WithList \cup WithChild
    /\ lists = IF pc \in WithList \cup WithChild THEN 1 ELSE 0
    /\ children = IF pc \in WithChild THEN 1 ELSE 0
    /\ downloads \in Nat /\ body \in Nat
    /\ \A d \in DOMAIN pool : d \in Nat /\ d <= downloads
    /\ \A d \in DOMAIN sizes : d \in DOMAIN pool /\ sizes[d] <= pool[d]
    /\ pc # "idle" => downloads \in DOMAIN pool /\ downloads \notin DOMAIN sizes
    /\ pc \notin {"destroy", "free"} => body = 0
    /\ body \in 1 .. HTTP_FILE_CAP => pool[downloads] = body

(* Between the first call of a download and its end only the calls that    *)
(* hand something out or take it back change what is held.                 *)
LEMMA HeldStep == HeldInv /\ [Http!Next]_(Http!vars) => HeldInv'
<1> SUFFICES ASSUME HeldInv, [Http!Next]_(Http!vars) PROVE HeldInv'
  OBVIOUS
<1> USE HttpAssumption DEF HeldInv, WithList, WithChild
<1>1. CASE Http!Begin
  <2>1. /\ downloads' = downloads + 1 /\ pc = "idle" /\ body = 0
        /\ UNCHANGED <<lists, children, body, sizes>>
    BY <1>1 DEF Http!Begin
  <2>2. CASE pc' = "idle" /\ UNCHANGED pool
    BY <2>1, <2>2
  <2>3. CASE pc' = "locate" /\ pool' = Http!Extend(pool, downloads + 1, 0)
    <3>1. /\ DOMAIN pool' = DOMAIN pool \cup {downloads + 1}
          /\ \A d \in DOMAIN pool : d # downloads + 1 /\ pool'[d] = pool[d]
      BY <2>3 DEF Http!Extend
    <3> QED  BY <2>1, <2>3, <3>1
  <2> QED  BY <1>1, <2>2, <2>3 DEF Http!Begin
<1>2. CASE Http!Locate
  BY <1>2 DEF Http!Locate
<1>3. CASE Http!OpenBinding \/ Http!OpenHttp \/ Http!Configure \/ Http!CheckUrl \/ Http!Request
  BY <1>3 DEF Http!OpenBinding, Http!OpenHttp, Http!Configure, Http!CheckUrl, Http!Request, Http!Call
<1>4. CASE Http!CreateChild
  BY <1>4 DEF Http!CreateChild
<1>5. CASE Http!Response
  <2>1. /\ pc = "response" /\ pc' = "destroy" /\ body = 0
        /\ UNCHANGED <<lists, children, sizes, downloads>>
    BY <1>5 DEF Http!Response
  <2>2. CASE UNCHANGED <<pool, body>>
    BY <2>1, <2>2
  <2>3. CASE \E n \in 0 .. HTTP_FILE_CAP + 1 :
               /\ body' = n
               /\ pool' = [pool EXCEPT ![downloads] = IF n > HTTP_FILE_CAP THEN HTTP_FILE_CAP ELSE n]
    <3>1. PICK n \in 0 .. HTTP_FILE_CAP + 1 :
               /\ body' = n
               /\ pool' = [pool EXCEPT ![downloads] = IF n > HTTP_FILE_CAP THEN HTTP_FILE_CAP ELSE n]
      BY <2>3
    <3>2. /\ DOMAIN pool' = DOMAIN pool
          /\ \A d \in DOMAIN pool : d # downloads => pool'[d] = pool[d]
          /\ n <= HTTP_FILE_CAP => pool'[downloads] = n
      BY <2>1, <3>1
    <3> QED  BY <2>1, <3>1, <3>2
  <2> QED  BY <1>5, <2>2, <2>3 DEF Http!Response
<1>6. CASE Http!DestroyChild
  BY <1>6 DEF Http!DestroyChild
<1>7. CASE Http!Free
  <2>1. /\ pc = "free" /\ pc' = "idle" /\ lists' = 0 /\ body' = 0
        /\ UNCHANGED <<children, pool, downloads>>
    BY <1>7 DEF Http!Free
  <2>2. CASE Http!Total(body) > 0
    <3>1. body \in 1 .. HTTP_FILE_CAP /\ Http!Total(body) = body
      BY <2>2 DEF Http!Total
    <3>2. /\ DOMAIN sizes' = DOMAIN sizes \cup {downloads}
          /\ sizes'[downloads] = body
          /\ \A d \in DOMAIN sizes : sizes'[d] = sizes[d]
      BY <1>7, <2>1, <2>2, <3>1 DEF Http!Free, Http!Extend
    <3> QED  BY <2>1, <3>1, <3>2
  <2>3. CASE ~(Http!Total(body) > 0)
    BY <1>7, <2>1, <2>3 DEF Http!Free
  <2> QED  BY <2>2, <2>3
<1>8. CASE Http!Remove
  <2>1. PICK d \in DOMAIN sizes : sizes' = [x \in DOMAIN sizes \ {d} |-> sizes[x]]
    BY <1>8 DEF Http!Remove
  <2>2. pc = "idle" /\ UNCHANGED <<pc, lists, children, pool, body, downloads>>
    BY <1>8 DEF Http!Remove
  <2> QED  BY <2>1, <2>2
<1>9. CASE UNCHANGED Http!vars
  BY <1>9 DEF Http!vars
<1> QED
  BY <1>1, <1>2, <1>3, <1>4, <1>5, <1>6, <1>7, <1>8, <1>9 DEF Http!Next

(* Every step is one of the part that the behaviour follows. *)
LEMMA Moves ==
    [PartsNext]_allVars =>
        /\ part' = part
        /\ part = "native" => [Native!Next]_(Native!vars)
        /\ part = "http" => [Http!Next]_(Http!vars)
        /\ part = "option" => [Options!Next]_(Options!vars)
        /\ part = "image" => [Loading!Next]_(Loading!vars)
BY DEF PartsNext, allVars, native, http, option, loading, Native!vars, Http!vars, Options!vars, Loading!vars

(* Every behaviour begins as its part does. *)
LEMMA Starts ==
    PartsInit =>
        /\ part = "native" => Native!Init
        /\ part = "http" => Http!Init
        /\ part = "option" => Options!Init
        /\ part = "image" => Loading!Init
BY DEF PartsInit

(* An HTTP download gives back its service binding and its child, however  *)
(* it ends, and a file's size is set only to bytes that have arrived.      *)
THEOREM DownloadsLeaveNothing == PartsSpec => []LeavesNothing
<1> DEFINE Inv == part = "http" => HeldInv
<1>1. PartsInit => Inv
  BY Starts DEF Http!Init, HeldInv, WithList, WithChild
<1>2. Inv /\ [PartsNext]_allVars => Inv'
  BY HeldStep, Moves
<1>3. Inv => LeavesNothing
  BY DEF LeavesNothing, HeldInv, Http!LeavesNothing, WithList, WithChild
<1> QED  BY <1>1, <1>2, <1>3, PTL DEF PartsSpec
-----------------------------------------------------------------------------
(* Any set of natural numbers that is not empty has a least one. *)
LEMMA Least ==
    ASSUME NEW S, S \subseteq Nat, S # {}
    PROVE  \E m \in S : \A k \in S : m <= k
<1> DEFINE Less == {p \in Nat \X Nat : p[1] < p[2]}
<1>1. IsWellFoundedOn(Less, Nat)
  BY NatLessThanWellFounded DEF OpToRel
<1>2. PICK m \in S : \A k \in S : ~(<<k, m>> \in Less)
  <2> HIDE DEF Less
  <2> QED  BY <1>1, WFMin
<1>3. ASSUME NEW k \in S PROVE m <= k
  <2>1. <<k, m>> \in Nat \X Nat /\ <<k, m>>[1] = k /\ <<k, m>>[2] = m
    BY <1>3
  <2>2. ~(k < m)
    BY <1>2, <2>1
  <2> QED  BY <2>2
<1> QED  BY <1>3

(* Sequences of one length with the same elements are one. *)
LEMMA SameSequence ==
    ASSUME NEW S, NEW s \in Seq(S), NEW t \in Seq(S), Len(s) = Len(t),
           \A i \in 1 .. Len(s) : s[i] = t[i]
    PROVE  s = t
  OBVIOUS

(* A concatenation has the first sequence's elements before the second's. *)
LEMMA JoinIs ==
    ASSUME NEW S, NEW s \in Seq(S), NEW t \in Seq(S), NEW q, q = s \o t
    PROVE  /\ q \in Seq(S)
           /\ Len(q) = Len(s) + Len(t)
           /\ \A i \in 1 .. Len(s) + Len(t) : q[i] = IF i <= Len(s) THEN s[i] ELSE t[i - Len(s)]
<1>1. q \in Seq(S)
  OBVIOUS
<1>2. Len(q) = Len(s) + Len(t)
  OBVIOUS
<1>3. \A i \in 1 .. Len(s) + Len(t) : q[i] = IF i <= Len(s) THEN s[i] ELSE t[i - Len(s)]
  OBVIOUS
<1> QED  BY <1>1, <1>2, <1>3

(***************************************************************************)
(* Listing: a prefix of the boot order after another, every step appends   *)
(* at most one option, and that is the variable's.                         *)
(***************************************************************************)
ListRow(f, n) ==
    IF n = 0 THEN <<>>
    ELSE LET number == nvram.order[n]
             before == f[n - 1]
         IN  IF Options!Readable(number) /\ Len(before) < MAX_BOOT_OPTIONS
             THEN Append(before, [number |-> number, opt |-> nvram.vars[number]]) ELSE before

Row == [number : Number, opt : Options!Option]
AsStored(rows) == \A i \in DOMAIN rows : rows[i].opt = nvram.vars[rows[i].number]

LEMMA ListedIs ==
    ASSUME nvram \in Options!Nvram
    PROVE  Options!Listed \in Seq(Row) /\ AsStored(Options!Listed)
<1> DEFINE all == Len(nvram.order)
           Good(f, n) == f = [i \in 0 .. n |-> ListRow(f, i)]
<1>1. nvram.order \in Seq(Number) /\ all \in Nat /\ nvram.vars \in [Number -> Options!Option \cup {None}]
  <2>1. nvram.order \in Options!Orders /\ nvram.vars \in [Number -> Options!Option \cup {None}]
    BY DEF Options!Nvram
  <2>2. PICK n \in 0 .. 2 : nvram.order \in [1 .. n -> Number]
    BY <2>1 DEF Options!Orders
  <2> QED  BY <2>1, <2>2
<1>2. \E f : Good(f, all)
  <2> DEFINE Bad == {n \in 0 .. all : \A f : ~Good(f, n)}
  <2> SUFFICES ASSUME Bad # {} PROVE FALSE
    BY <1>1
  <2>1. PICK n \in Bad : \A k \in Bad : n <= k
    <3>1. Bad \subseteq Nat
      BY <1>1
    <3> HIDE DEF Bad
    <3> QED  BY <3>1, Least
  <2>2. CASE n = 0
    <3> DEFINE g == [i \in 0 .. 0 |-> <<>>]
    <3>1. Good(g, 0)
      BY DEF ListRow
    <3> QED  BY <2>2, <3>1
  <2>3. CASE n # 0
    <3>1. n - 1 \in 0 .. all /\ n - 1 \notin Bad /\ n \in Nat
      BY <1>1, <1>2, <2>1, <2>3
    <3>2. PICK f : Good(f, n - 1)
      BY <3>1
    <3> DEFINE g == [i \in 0 .. n |-> IF i = n THEN ListRow(f, n) ELSE f[i]]
    <3>3. \A i \in 0 .. n - 1 : g[i] = f[i]
      BY <3>1
    <3>4. \A i \in 0 .. n : ListRow(g, i) = ListRow(f, i)
      BY <3>1, <3>3, SMT DEF ListRow
    <3>5. \A i \in 0 .. n - 1 : f[i] = ListRow(f, i)
      BY <3>2
    <3>6. \A i \in 0 .. n : g[i] = ListRow(g, i)
      BY <3>1, <3>4, <3>5
    <3>7. Good(g, n)
      BY <3>6
    <3> QED  BY <2>1, <3>7
  <2> QED  BY <2>2, <2>3
<1>3. Options!ListedOf = CHOOSE f : Good(f, all)
  BY Zenon DEF Options!ListedOf, ListRow
<1>4. Good(Options!ListedOf, all)
  <2> HIDE DEF Good
  <2> QED  BY <1>2, <1>3, Zenon
<1> DEFINE rows(n) == Options!ListedOf[n]
<1>5. \A n \in 0 .. all : rows(n) = ListRow(Options!ListedOf, n)
  BY <1>4
<1> DEFINE Right(s) == s \in Seq(Row) /\ AsStored(s)
           Wrong == {n \in 0 .. all : ~Right(rows(n))}
<1>6. ASSUME Wrong # {} PROVE FALSE
  <2> USE <1>6
  <2>1. PICK n \in Wrong : \A k \in Wrong : n <= k
    <3>1. Wrong \subseteq Nat
      BY <1>1
    <3> HIDE DEF Wrong
    <3> QED  BY <3>1, Least
  <2>2. n # 0
    <3>1. Right(<<>>)
      BY DEF AsStored
    <3>2. rows(0) = <<>>
      <4>1. 0 \in 0 .. all
        BY <1>1
      <4>2. ListRow(Options!ListedOf, 0) = <<>>
        BY DEF ListRow
      <4> QED  BY <1>5, <4>1, <4>2
    <3> QED  BY <2>1, <3>1, <3>2
  <2>3. n \in 1 .. all /\ n - 1 \in 0 .. all /\ Right(rows(n - 1))
    BY <1>1, <2>1, <2>2
  <2>4. nvram.order[n] \in Number
    BY <1>1, <2>3
  <2> DEFINE number == nvram.order[n]
             row == [number |-> number, opt |-> nvram.vars[number]]
  <2>5. rows(n) = rows(n - 1) \/ (Options!Readable(number) /\ rows(n) = Append(rows(n - 1), row))
    BY <1>5, <2>2, <2>3 DEF ListRow
  <2>6. Options!Readable(number) => row \in Row
    BY <1>1, <2>4 DEF Options!Readable, Row
  <2> HIDE DEF rows, row
  <2>7. ASSUME Options!Readable(number), rows(n) = Append(rows(n - 1), row) PROVE Right(rows(n))
    <3>1. row.opt = nvram.vars[row.number]
      BY DEF row
    <3> QED  BY <2>3, <2>6, <2>7, <3>1 DEF AsStored
  <2>8. Right(rows(n))
    BY <2>3, <2>5, <2>7
  <2> QED  BY <2>1, <2>8
<1>7. Right(rows(all))
  BY <1>1, <1>6
<1> QED  BY <1>7 DEF Options!Listed
(***************************************************************************)
(* Paths.  A walk is what comes before the first end or bad node, so that  *)
(* of a path without bad nodes the default path keeps all that is walked.  *)
(***************************************************************************)
Node == Options!PathNode

Stops(p, n) ==
    /\ n \in 0 .. Len(p)
    /\ \A i \in 1 .. n : p[i] \notin {"end", "bad"}
    /\ n < Len(p) => p[n + 1] \in {"end", "bad"}

LEMMA WalkIs ==
    ASSUME NEW p \in Seq(Node)
    PROVE  \E n \in 0 .. Len(p) : Stops(p, n) /\ Options!Walk(p) = SubSeq(p, 1, n)
<1> DEFINE stops == {i \in DOMAIN p : p[i] \in {"end", "bad"}}
<1>1. CASE stops = {}
  <2>1. Options!Walk(p) = SubSeq(p, 1, Len(p))
    BY <1>1 DEF Options!Walk
  <2> QED  BY <1>1, <2>1 DEF Stops
<1>2. CASE stops # {}
  <2>1. stops \subseteq Nat
    OBVIOUS
  <2> DEFINE first == CHOOSE i \in stops : \A j \in stops : i <= j
  <2>2. first \in stops /\ \A j \in stops : first <= j
    <3> HIDE DEF stops
    <3> QED  BY <1>2, <2>1, Least
  <2>3. Options!Walk(p) = SubSeq(p, 1, first - 1)
    BY <1>2 DEF Options!Walk
  <2> HIDE DEF first
  <2>4. first \in 1 .. Len(p) /\ p[first] \in {"end", "bad"}
    BY <2>2
  <2>5. \A i \in 1 .. first - 1 : p[i] \notin {"end", "bad"}
    BY <2>2, <2>4
  <2> QED  BY <2>3, <2>4, <2>5 DEF Stops
<1> QED  BY <1>1, <1>2

(* Where the walk stops is one place. *)
LEMMA StopsOnce ==
    ASSUME NEW p \in Seq(Node), NEW n, Stops(p, n)
    PROVE  Options!Walk(p) = SubSeq(p, 1, n)
<1>1. PICK m \in 0 .. Len(p) : Stops(p, m) /\ Options!Walk(p) = SubSeq(p, 1, m)
  BY WalkIs
<1>2. m = n
  <2>1. m < n => FALSE
    BY <1>1 DEF Stops
  <2>2. n < m => FALSE
    BY <1>1 DEF Stops
  <2> QED  BY <1>1, <2>1, <2>2 DEF Stops
<1> QED  BY <1>1, <1>2

LEMMA DefaultBoots ==
    ASSUME NEW opt, opt.path \in Seq(Node), ~Options!Contains(opt.path, "bad"), ~Options!HasFile(opt.path)
    PROVE  Options!Boots(Options!DefaultFile(opt.path), opt)
<1> DEFINE p == opt.path
           q == Options!DefaultFile(p)
<1>1. PICK n \in 0 .. Len(p) : Stops(p, n) /\ Options!Walk(p) = SubSeq(p, 1, n)
  BY WalkIs
<1> DEFINE w == SubSeq(p, 1, n)
<1>2. w \in Seq(Node) /\ Len(w) = n /\ \A i \in 1 .. n : w[i] = p[i]
  BY <1>1
<1>3. n < Len(p) => p[n + 1] = "end"
  BY <1>1 DEF Stops, Options!Contains
<1>4. Options!Trimmed(p) = w
  <2>1. CASE n < Len(p)
    BY <1>1, <1>2, <1>3, <2>1 DEF Options!Trimmed, Options!Ended
  <2>2. CASE n = Len(p)
    <3>1. ~Options!Ended(p)
      BY <1>1, <1>2, <2>2 DEF Options!Ended
    <3>2. w = p
      BY <2>2
    <3> QED  BY <3>1, <3>2 DEF Options!Trimmed
  <2> QED  BY <1>1, <2>1, <2>2
<1>5. q = w \o <<"default", "end">>
  BY <1>4 DEF Options!DefaultFile
<1>6. /\ q \in Seq(Node) /\ Len(q) = n + 2
      /\ \A i \in 1 .. n : q[i] = w[i]
      /\ q[n + 1] = "default" /\ q[n + 2] = "end"
  <2> HIDE DEF q, w
  <2> DEFINE tail == <<"default", "end">>
  <2>1. tail \in Seq(Node) /\ Len(tail) = 2 /\ tail[1] = "default" /\ tail[2] = "end"
    BY DEF Node, Options!PathNode
  <2> HIDE DEF tail
  <2>2. q = w \o tail
    BY <1>5 DEF tail
  <2>3. /\ q \in Seq(Node)
        /\ Len(q) = Len(w) + Len(tail)
        /\ \A i \in 1 .. Len(w) + Len(tail) : q[i] = IF i <= Len(w) THEN w[i] ELSE tail[i - Len(w)]
    <3>1. w \in Seq(Node)
      BY <1>2
    <3>2. tail \in Seq(Node)
      BY <2>1
    <3>3. q = w \o tail
      BY <2>2
    <3> QED  BY <3>1, <3>2, <3>3, JoinIs
  <2> QED  BY <1>1, <1>2, <2>1, <2>3
<1>7. Stops(q, n + 1)
  BY <1>1, <1>2, <1>6 DEF Stops
<1>8. Options!Walk(q) = SubSeq(q, 1, n + 1)
  BY <1>6, <1>7, StopsOnce
<1> HIDE DEF q, p, w
<1>9. /\ Len(Options!Walk(q)) = n + 1 /\ DOMAIN Options!Walk(q) = 1 .. n + 1
      /\ \A i \in 1 .. n + 1 : Options!Walk(q)[i] = q[i]
  BY <1>6, <1>8
<1>10. \A i \in 1 .. n + 1 : (w \o <<"default">>)[i] = q[i]
  BY <1>2, <1>6
<1>11. Options!Ended(q) /\ Options!Contains(Options!Walk(q), "default")
  BY <1>6, <1>9 DEF Options!Ended, Options!Contains
<1>12. \A i \in DOMAIN Options!Walk(q) : Options!Walk(q)[i] = (Options!Walk(p) \o <<"default">>)[i]
  BY <1>1, <1>9, <1>10 DEF w, p
<1> QED  BY <1>11, <1>12 DEF Options!Boots, p, q

-----------------------------------------------------------------------------
(***************************************************************************)
(* BootsThePicked is not inductive: from the listing to the end of the     *)
(* boot the rows are the variables as they are (nothing but an image that  *)
(* runs changes one, and then the menu comes first), the path is the       *)
(* option's until LoadImage did not find it, and BootNext the number of    *)
(* its row.                                                                *)
(***************************************************************************)
ItsPath(opt) ==
    \/ path = opt.path
    \/ ~Options!HasFile(opt.path) /\ path = Options!DefaultFile(opt.path)

OptionInv ==
    /\ nvram \in Options!Nvram
    /\ pc \in {"menu", "choose", "load", "again", "start", "next", "reset"}
    /\ pc # "menu" => options \in Seq(Row) /\ AsStored(options)
    /\ pc \in {"load", "again", "start", "next", "reset"} => picked \in DOMAIN options
    /\ pc = "load" => path = options[picked].opt.path
    /\ pc \in {"again", "start"} => ItsPath(options[picked].opt)
    /\ pc = "reset" => boot_next = options[picked].number

LEMMA NvramChanges ==
    ASSUME nvram \in Options!Nvram, Options!Start
    PROVE  nvram' \in Options!Nvram
<1>1. nvram.order \in Options!Orders /\ nvram.vars \in [Number -> Options!Option \cup {None}]
  BY DEF Options!Nvram
<1>2. CASE UNCHANGED nvram
  BY <1>2 DEF Options!Nvram, Options!Orders, Options!Option
<1>3. ASSUME NEW n \in Number, nvram' = [nvram EXCEPT !.vars[n] = None] PROVE nvram' \in Options!Nvram
  BY <1>3 DEF Options!Nvram, Options!Orders, Options!Option
<1>4. CASE nvram' = [nvram EXCEPT !.order = Options!Reverse(@)]
  <2> DEFINE o == nvram.order
             r == Options!Reverse(o)
  <2>1. PICK n \in 0 .. 2 : o \in [1 .. n -> Number]
    BY <1>1 DEF Options!Orders
  <2>2. Len(o) = n /\ \A i, j \in 1 .. n : o[i] = o[j] => i = j
    BY <2>1 DEF Options!Nvram
  <2>3. r = [i \in 1 .. n |-> o[(n - i) + 1]]
    BY <2>1, <2>2 DEF Options!Reverse
  <2> HIDE DEF o, r
  <2>4. \A i \in 1 .. n : (n - i) + 1 \in 1 .. n
    BY <2>1
  <2>5. r \in [1 .. n -> Number]
    BY <2>1, <2>3, <2>4
  <2>6. \A i, j \in 1 .. n : r[i] = r[j] => i = j
    BY <2>2, <2>3, <2>4
  <2>7. r \in Options!Orders /\ \A i, j \in DOMAIN r : r[i] = r[j] => i = j
    BY <2>5, <2>6 DEF Options!Orders
  <2>8. nvram' = [order |-> r, vars |-> nvram.vars]
    BY <1>4 DEF r, o, Options!Nvram
  <2> QED  BY <1>1, <2>7, <2>8 DEF Options!Nvram
<1> QED  BY <1>2, <1>3, <1>4 DEF Options!Start

LEMMA OptionStep == OptionInv /\ [Options!Next]_(Options!vars) => OptionInv'
<1> SUFFICES ASSUME OptionInv, [Options!Next]_(Options!vars) PROVE OptionInv'
  OBVIOUS
<1> USE DEF OptionInv, ItsPath
<1>1. CASE Options!ShowOptions
  <2>1. options' = Options!Listed /\ nvram' = nvram /\ pc' = "choose"
    BY <1>1 DEF Options!ShowOptions
  <2>2. options' \in Seq(Row) /\ AsStored(options')
    BY <2>1, ListedIs
  <2> QED  BY <2>1, <2>2 DEF AsStored
<1>2. CASE Options!Cancel
  BY <1>2 DEF Options!Cancel
<1>3. CASE Options!Choose
  BY <1>3 DEF Options!Choose, AsStored
<1>4. CASE Options!Load
  BY <1>4 DEF Options!Load, AsStored
<1>5. CASE Options!Again
  BY <1>5 DEF Options!Again, AsStored
<1>6. CASE Options!Start
  <2>1. nvram' \in Options!Nvram
    BY <1>6, NvramChanges
  <2> QED  BY <1>6, <2>1 DEF Options!Start
<1>7. CASE Options!SetNext
  BY <1>7 DEF Options!SetNext, Options!OptionNumber, AsStored
<1>8. CASE UNCHANGED Options!vars
  BY <1>8 DEF Options!vars, AsStored
<1> QED
  BY <1>1, <1>2, <1>3, <1>4, <1>5, <1>6, <1>7, <1>8 DEF Options!Next

(* The option of the key that was pressed is what is loaded, by its own    *)
(* path or the default file in its place, or what BootNext names after the *)
(* reset: for every boot order, every set of paths and every row.          *)
THEOREM PickedIsBooted == PartsSpec => []BootsThePicked
<1> DEFINE Inv == part = "option" => OptionInv
<1>1. PartsInit => Inv
  BY Starts DEF Options!Init, OptionInv
<1>2. Inv /\ [PartsNext]_allVars => Inv'
  BY OptionStep, Moves
<1>3. Inv => BootsThePicked
  <2> SUFFICES ASSUME OptionInv PROVE Options!BootsThePicked
    BY DEF BootsThePicked
  <2>1. ASSUME pc \in {"load", "again", "start", "next", "reset"}
        PROVE  /\ options[picked].opt.path \in Seq(Node)
               /\ options[picked].opt = nvram.vars[options[picked].number]
    <3>1. options[picked] \in Row
      BY <2>1 DEF OptionInv
    <3> QED  BY <2>1, <3>1, PathAssumption DEF OptionInv, AsStored, Row, Options!Option, Node
  <2>2. ASSUME pc \in {"load", "again", "start"}, ~Options!Contains(options[picked].opt.path, "bad")
        PROVE  Options!Boots(path, options[picked].opt)
    <3>1. ItsPath(options[picked].opt)
      BY <2>2 DEF OptionInv, ItsPath
    <3>2. CASE path = options[picked].opt.path
      BY <3>2 DEF Options!Boots
    <3>3. CASE ~Options!HasFile(options[picked].opt.path) /\ path = Options!DefaultFile(options[picked].opt.path)
      BY <2>1, <2>2, <3>3, DefaultBoots
    <3> QED  BY <3>1, <3>2, <3>3 DEF ItsPath
  <2>3. pc = "reset" => nvram.vars[boot_next] = options[picked].opt
    BY <2>1 DEF OptionInv
  <2> QED  BY <2>2, <2>3 DEF Options!BootsThePicked
<1> QED  BY <1>1, <1>2, <1>3, PTL DEF PartsSpec
-----------------------------------------------------------------------------
(* The larger and the smaller of two numbers. *)
LEMMA MaxOfTwo ==
    ASSUME NEW a \in Int, NEW b \in Int
    PROVE  Loading!Max({a, b}) = IF a >= b THEN a ELSE b
<1> DEFINE m == Loading!Max({a, b})
<1>1. \E x \in {a, b} : \A y \in {a, b} : x >= y
  OBVIOUS
<1>2. m \in {a, b} /\ \A y \in {a, b} : m >= y
  BY <1>1 DEF Loading!Max
<1> QED  BY <1>2

LEMMA MinOfTwo ==
    ASSUME NEW a \in Int, NEW b \in Int
    PROVE  Loading!Min({a, b}) = IF a <= b THEN a ELSE b
<1> DEFINE m == Loading!Min({a, b})
<1>1. \E x \in {a, b} : \A y \in {a, b} : x <= y
  OBVIOUS
<1>2. m \in {a, b} /\ \A y \in {a, b} : m <= y
  BY <1>1 DEF Loading!Min
<1> QED  BY <1>2

(* What is left of an entry of the map. *)
LEMMA Clamped ==
    ASSUME NEW e \in MapEntry
    PROVE  /\ Loading!From(e) = IF e.base >= BOOT_END THEN e.base ELSE BOOT_END
           /\ Loading!To(e) = IF e.base + e.length <= FOUR_GB THEN e.base + e.length ELSE FOUR_GB
           /\ Loading!From(e) \in Nat /\ Loading!To(e) \in Nat /\ Loading!Room(e) \in Int
           /\ Loading!Room(e) = Loading!To(e) - Loading!From(e) /\ Loading!Room(e) <= FOUR_GB
<1>1. e.base \in Nat /\ e.length \in Nat /\ BOOT_END \in Nat /\ FOUR_GB \in Nat
  BY PlaceAssumption DEF MapEntry
<1>2. Loading!From(e) = IF e.base >= BOOT_END THEN e.base ELSE BOOT_END
  BY <1>1, MaxOfTwo DEF Loading!From
<1>3. Loading!To(e) = IF e.base + e.length <= FOUR_GB THEN e.base + e.length ELSE FOUR_GB
  BY <1>1, MinOfTwo DEF Loading!To
<1> QED  BY <1>1, <1>2, <1>3 DEF Loading!Room

ImageOK == target \in {"bios", "arm64"} /\ map \in Maps /\ image \in Images

(* Of the regions with room, one is the largest and the first of those. *)
LEMMA BestIs ==
    ASSUME ImageOK, Loading!Regions # {}
    PROVE  Loading!Best \in Loading!Regions
<1> DEFINE R == Loading!Regions
           Left(i) == FOUR_GB - Loading!Room(map[i])
<1>1. /\ \A i \in R : i \in Nat /\ map[i] \in MapEntry
      /\ FOUR_GB \in Nat
  BY ImageAssumption, PlaceAssumption DEF ImageOK, Loading!Regions
<1>2. \A i \in R : Left(i) \in Nat /\ Loading!Room(map[i]) \in Int
  BY <1>1, Clamped
<1>3. PICK i \in R : \A j \in R : Left(i) <= Left(j)
  <2> DEFINE S == {Left(j) : j \in R}
  <2>1. S \subseteq Nat /\ S # {}
    BY <1>2
  <2>2. PICK m \in S : \A k \in S : m <= k
    <3> HIDE DEF S
    <3> QED  BY <2>1, Least
  <2> QED  BY <2>2
<1>4. PICK f \in {j \in R : Left(j) = Left(i)} : \A k \in {j \in R : Left(j) = Left(i)} : f <= k
  <2> DEFINE S == {j \in R : Left(j) = Left(i)}
  <2>1. S \subseteq Nat /\ S # {}
    BY <1>1, <1>3
  <2> HIDE DEF S
  <2>2. \E m \in S : \A k \in S : m <= k
    BY <2>1, Least
  <2> QED  BY <2>2 DEF S
<1>5. \A j \in R : \/ Loading!Room(map[f]) > Loading!Room(map[j])
                   \/ Loading!Room(map[f]) = Loading!Room(map[j]) /\ f <= j
  BY <1>1, <1>2, <1>3, <1>4
<1> QED  BY <1>4, <1>5 DEF Loading!Best

(* Wherever the boot file goes, that is behind the loader. *)
LEMMA PlacedBehind ==
    ASSUME ImageOK
    PROVE  Loading!Base \in Nat /\ Loading!Base >= BOOT_END /\ Loading!Base + SIZE_HINT <= Top + 1
<1>1. /\ SIZE_HINT \in Nat \ {0} /\ Top \in Nat /\ BOOT_END \in Nat /\ FOUR_GB \in Nat
      /\ FALLBACK \in Nat /\ ARM_BASE \in Nat /\ ARM_BASE >= BOOT_END /\ FOUR_GB <= Top + 1
      /\ BOOT_END + SIZE_HINT <= Top + 1 /\ FALLBACK + SIZE_HINT <= Top + 1
      /\ ARM_BASE + SIZE_HINT <= Top + 1
  BY PlaceAssumption
<1>2. CASE target = "arm64"
  BY <1>1, <1>2 DEF Loading!Base
<1>3. CASE target # "arm64" /\ Loading!Regions = {}
  BY <1>1, <1>3, MaxOfTwo DEF Loading!Base
<1>4. CASE target # "arm64" /\ Loading!Regions # {}
  <2> DEFINE e == map[Loading!Best]
  <2>1. Loading!Best \in Loading!Regions
    BY <1>4, BestIs
  <2>2. e \in MapEntry /\ Loading!Room(e) >= SIZE_HINT
    BY <2>1, ImageAssumption DEF ImageOK, Loading!Regions
  <2>3. Loading!Base = Loading!From(e)
    BY <1>4 DEF Loading!Base
  <2> HIDE DEF e
  <2>4. e.base \in Nat /\ e.length \in Nat
    BY <2>2 DEF MapEntry
  <2> QED  BY <1>1, <2>2, <2>3, <2>4, Clamped
<1> QED  BY <1>2, <1>3, <1>4

-----------------------------------------------------------------------------
(***************************************************************************)
(* Where a boot file is put says what InUsableMemory needs; the room that  *)
(* the map has is room in a region.                                        *)
(***************************************************************************)
PlacedInv ==
    /\ ImageOK
    /\ pc \in {"place", "segments", "script", "entered", "shown", "failed", "lost"}
    /\ pc # "place" => base = Loading!Base /\ capacity = SIZE_HINT

LEMMA MapRests ==
    ASSUME UNCHANGED <<target, map, image>>
    PROVE  UNCHANGED Loading!Base /\ (ImageOK => ImageOK')
<1>1. UNCHANGED Loading!Regions /\ UNCHANGED Loading!Best
  BY DEF Loading!Regions, Loading!Best
<1> QED  BY <1>1 DEF Loading!Base, ImageOK

LEMMA PlacedStep == PlacedInv /\ [Loading!Next]_(Loading!vars) => PlacedInv'
<1> SUFFICES ASSUME PlacedInv, [Loading!Next]_(Loading!vars) PROVE PlacedInv'
  OBVIOUS
<1>1. CASE Loading!Place
  <2>1. /\ UNCHANGED <<target, map, image>> /\ base' = Loading!Base /\ capacity' = SIZE_HINT
        /\ pc' \in {"failed", "script", "segments", "shown"}
    BY <1>1 DEF Loading!Place
  <2> QED  BY <2>1, MapRests DEF PlacedInv
<1>2. CASE Loading!LoadSegment \/ Loading!Enter \/ Loading!FetchByte \/ UNCHANGED Loading!vars
  <2>1. /\ UNCHANGED <<target, map, image, base, capacity>>
        /\ pc' \in {pc, "lost", "entered"} /\ (pc = "place" => pc' = "place")
    BY <1>2 DEF Loading!LoadSegment, Loading!Enter, Loading!FetchByte, Loading!vars
  <2> QED  BY <2>1, MapRests DEF PlacedInv
<1> QED  BY <1>1, <1>2 DEF Loading!Next

(* The boot file goes into memory that only usable entries claim, behind   *)
(* the loader and below 4 GB, when one of them has room for it: for every  *)
(* map whose reserved entries keep off the usable ones.                    *)
THEOREM PlacedInUsable == PartsSpec => []InUsableMemory
<1> DEFINE Inv == part = "image" => PlacedInv
<1>1. PartsInit => Inv
  BY Starts DEF Loading!Init, PlacedInv, ImageOK
<1>2. Inv /\ [PartsNext]_allVars => Inv'
  BY PlacedStep, Moves
<1>3. Inv => InUsableMemory
  <2> SUFFICES ASSUME PlacedInv, target = "bios", pc # "place", Loading!HasRoom,
                      Loading!ReservedApart, NEW a \in Loading!Cells(base, capacity)
               PROVE  Loading!Usable(a) /\ a >= BOOT_END /\ a < FOUR_GB
    BY DEF InUsableMemory, Loading!InUsableMemory, Loading!KeepsOffReserved
  <2>1. /\ SIZE_HINT \in Nat \ {0} /\ BOOT_END \in Nat /\ FOUR_GB \in Nat
        /\ map \in Seq(MapEntry) /\ base = Loading!Base /\ capacity = SIZE_HINT
    BY PlaceAssumption, ImageAssumption DEF PlacedInv, ImageOK
  <2>2. Loading!Regions # {}
    <3>1. PICK i \in DOMAIN map, b \in BOOT_END .. FOUR_GB - SIZE_HINT :
                    \A c \in Loading!Cells(b, SIZE_HINT) : Loading!Covers(i, c) /\ Loading!Usable(c)
      BY DEF Loading!HasRoom
    <3> DEFINE e == map[i]
    <3>3. e \in MapEntry
      BY <2>1, <3>1
    <3>4. b \in Loading!Cells(b, SIZE_HINT) /\ b + SIZE_HINT - 1 \in Loading!Cells(b, SIZE_HINT)
      BY <2>1 DEF Loading!Cells
    <3>5. e.base \in Nat /\ e.length \in Nat
      BY <3>3 DEF MapEntry
    <3>6. b \in Loading!Cells(e.base, e.length) /\ b + SIZE_HINT - 1 \in Loading!Cells(e.base, e.length)
      BY <3>1, <3>4 DEF Loading!Covers
    <3>2. e.usable
      BY <3>1, <3>4 DEF Loading!Usable
    <3> HIDE DEF e
    <3>7. e.base <= b /\ b + SIZE_HINT <= e.base + e.length
      BY <2>1, <3>5, <3>6 DEF Loading!Cells
    <3>8. /\ Loading!From(e) = IF e.base >= BOOT_END THEN e.base ELSE BOOT_END
          /\ Loading!To(e) = IF e.base + e.length <= FOUR_GB THEN e.base + e.length ELSE FOUR_GB
          /\ Loading!Room(e) = Loading!To(e) - Loading!From(e)
      BY <3>3, Clamped
    <3>9. Loading!From(e) < Loading!To(e) /\ Loading!Room(e) >= SIZE_HINT
      BY <2>1, <3>5, <3>7, <3>8
    <3> QED  BY <3>2, <3>9 DEF Loading!Regions, e
  <2> DEFINE i == Loading!Best
             e == map[i]
  <2>3. i \in Loading!Regions
    BY <2>2, BestIs DEF PlacedInv
  <2>4. i \in DOMAIN map /\ e.usable /\ Loading!Room(e) >= SIZE_HINT /\ e \in MapEntry
    BY <2>1, <2>3 DEF Loading!Regions
  <2>5. base = Loading!From(e)
    BY <2>1, <2>2 DEF Loading!Base
  <2> HIDE DEF e, i
  <2>6. e.base \in Nat /\ e.length \in Nat
    BY <2>4 DEF MapEntry
  <2>7. /\ Loading!From(e) = IF e.base >= BOOT_END THEN e.base ELSE BOOT_END
        /\ Loading!To(e) = IF e.base + e.length <= FOUR_GB THEN e.base + e.length ELSE FOUR_GB
        /\ Loading!Room(e) = Loading!To(e) - Loading!From(e)
    BY <2>4, Clamped
  <2>8. a >= BOOT_END /\ a < FOUR_GB /\ a \in Loading!Cells(e.base, e.length)
    <3> DEFINE f == Loading!From(e)
               t == Loading!To(e)
    <3>1. /\ f \in Nat /\ t \in Nat /\ t - f >= SIZE_HINT
          /\ f >= BOOT_END /\ f >= e.base /\ t <= FOUR_GB /\ t <= e.base + e.length
      BY <2>1, <2>4, <2>6, <2>7
    <3>2. a \in f .. f + SIZE_HINT - 1
      BY <2>1, <2>5 DEF Loading!Cells
    <3> HIDE DEF f, t
    <3> QED  BY <2>1, <2>6, <3>1, <3>2 DEF Loading!Cells
  <2>9. Loading!Covers(i, a)
    BY <2>8 DEF Loading!Covers, e
  <2> QED  BY <2>4, <2>8, <2>9 DEF Loading!Usable, Loading!ReservedApart, Loading!Covers, e
<1> QED  BY <1>1, <1>2, <1>3, PTL DEF PartsSpec

-----------------------------------------------------------------------------
(***************************************************************************)
(* LoadedAsLinked is not inductive: while the segments are copied, those   *)
(* before the next header are in place, and the boot file and the loader   *)
(* are still whole, so that what is copied next is what the file says.     *)
(***************************************************************************)
SegmentIn(i) ==
    LET s == image.segs[i] IN
    \A k \in 0 .. s.memsz - 1 :
        ram[s.paddr + k] = IF k < s.filesz THEN s.off + k + 1 ELSE Loading!Zero
FileWhole == \A c \in 1 .. image.size : ram[base + c - 1] = c
LoaderWhole == \A a \in 0 .. BOOT_END - 1 : ram[a] = Loading!Loader

CopyInv ==
    /\ PlacedInv
    /\ pc = "place" => ram = [a \in Loading!Addr |-> IF a < BOOT_END THEN Loading!Loader ELSE Loading!Nothing]
                       /\ seg = 1
    /\ pc \in {"segments", "entered"} => seg \in Nat \ {0} /\ image.size <= SIZE_HINT
    /\ pc = "entered" => ~Loading!MoreHeaders
    /\ pc \in {"segments", "entered"} /\ Loading!Apart =>
        /\ \A i \in Loading!Segments : i < seg => SegmentIn(i)
        /\ FileWhole /\ LoaderWhole

LEMMA ImageIs ==
    ASSUME ImageOK
    PROVE  /\ image.size \in Nat /\ image.table \in Nat \ {0} /\ image.segs \in Seq(ProgramHeader)
           /\ \A i \in DOMAIN image.segs :
                LET s == image.segs[i] IN
                /\ s.off \in Nat /\ s.filesz \in Nat /\ s.memsz \in Nat /\ s.paddr \in Nat
                /\ s.paddr + s.memsz <= Top + 1
           /\ Top \in Nat /\ BOOT_END \in Nat /\ SIZE_HINT \in Nat \ {0}
<1>1. /\ image.size \in Nat /\ image.table \in Nat \ {0} /\ image.segs \in Seq(ProgramHeader)
      /\ \A i \in DOMAIN image.segs : image.segs[i].paddr + image.segs[i].memsz <= Top + 1
  BY ImageAssumption DEF ImageOK
<1>2. \A i \in DOMAIN image.segs : image.segs[i] \in ProgramHeader
  BY <1>1
<1> QED  BY <1>1, <1>2, PlaceAssumption DEF ProgramHeader

(* One segment is copied: it is in place then, and the others, the file    *)
(* and the loader, which it keeps clear of, are as they were.              *)
LEMMA CopiedIn ==
    ASSUME CopyInv, pc = "segments", Loading!Apart, seg \in Loading!Segments,
           ~Loading!Lost(image.segs[seg]), ram' = Loading!Copied(image.segs[seg]),
           UNCHANGED <<image, base>>
    PROVE  /\ \A i \in Loading!Segments : i <= seg => SegmentIn(i)'
           /\ FileWhole' /\ LoaderWhole'
<1> DEFINE s == image.segs[seg]
<1>1. /\ s.off \in Nat /\ s.filesz \in Nat /\ s.memsz \in Nat /\ s.paddr \in Nat
      /\ s.paddr + s.memsz <= Top + 1 /\ s.filesz <= s.memsz /\ s.off + s.filesz <= image.size
      /\ s.paddr >= BOOT_END
  <2>1. seg \in DOMAIN image.segs /\ s.load /\ Loading!InFile(s)
    BY DEF Loading!Segments
  <2>2. /\ s.off \in Nat /\ s.filesz \in Nat /\ s.memsz \in Nat /\ s.paddr \in Nat
        /\ s.paddr + s.memsz <= Top + 1 /\ BOOT_END \in Nat
    BY <2>1, ImageIs DEF CopyInv, PlacedInv
  <2>3. s.filesz <= s.memsz
    BY DEF Loading!Apart
  <2>4. ~(s.paddr < BOOT_END) /\ ~Loading!Wrapped(s)
    BY <2>1 DEF Loading!Lost
  <2>5. s.off + s.filesz <= image.size
    <3> DEFINE end == s.off + s.filesz
    <3>w. WORD \in Nat \ {0}
      BY PlaceAssumption
    <3>i. end % WORD <= image.size /\ ~(end >= WORD) /\ end \in Nat
      BY <2>1, <2>2, <2>4 DEF Loading!Wrapped, Loading!InFile
    <3> HIDE DEF end
    <3>1. WORD \in Nat \ {0} /\ end \in Nat /\ end < WORD /\ end % WORD <= image.size
      BY <3>w, <3>i
    <3>2. end % WORD = end
      BY <3>1
    <3>3. end <= image.size
      BY <3>1, <3>2
    <3> QED  BY <3>3 DEF end
  <2> QED  BY <2>2, <2>3, <2>4, <2>5
<1>2. /\ image.size \in Nat /\ image.size <= SIZE_HINT /\ Top \in Nat /\ BOOT_END \in Nat
      /\ SIZE_HINT \in Nat /\ base \in Nat /\ base >= BOOT_END /\ base + SIZE_HINT <= Top + 1
  BY ImageIs, PlacedBehind DEF CopyInv, PlacedInv
<1>3. /\ \A i \in Loading!Segments : i < seg => SegmentIn(i)
      /\ FileWhole /\ LoaderWhole
  BY DEF CopyInv
<1>4. \A c \in Loading!Addr :
        ram'[c] = IF s.memsz > s.filesz /\ c \in Loading!Bss(s) THEN Loading!Zero
                  ELSE IF c \in Loading!Target(s) THEN ram[base + s.off + c - s.paddr] ELSE ram[c]
  BY DEF Loading!Copied
<1>5. \A c \in Loading!Addr : c \notin Loading!Span(s) => ram'[c] = ram[c]
  BY <1>1, <1>4 DEF Loading!Span, Loading!Bss, Loading!Target, Loading!Cells, Loading!Addr
<1>6. \A k \in 0 .. s.memsz - 1 :
        ram'[s.paddr + k] = IF k < s.filesz THEN s.off + k + 1 ELSE Loading!Zero
  <2> SUFFICES ASSUME NEW k \in 0 .. s.memsz - 1
               PROVE  ram'[s.paddr + k] = IF k < s.filesz THEN s.off + k + 1 ELSE Loading!Zero
    OBVIOUS
  <2> HIDE DEF s
  <2>1. s.paddr + k \in Loading!Addr
    BY <1>1, <1>2 DEF Loading!Addr
  <2>2. CASE k < s.filesz
    <3>1. s.paddr + k \notin Loading!Bss(s) /\ s.paddr + k \in Loading!Target(s)
      BY <1>1, <2>2 DEF Loading!Bss, Loading!Target, Loading!Cells
    <3>2. ram'[s.paddr + k] = ram[base + s.off + (s.paddr + k) - s.paddr]
      BY <1>4, <2>1, <3>1
    <3>3. base + s.off + (s.paddr + k) - s.paddr = base + (s.off + k + 1) - 1 /\ s.off + k + 1 \in 1 .. image.size
      BY <1>1, <1>2, <2>2
    <3> QED  BY <1>3, <2>2, <3>2, <3>3 DEF FileWhole
  <2>3. CASE ~(k < s.filesz)
    <3>1. s.paddr + k \in Loading!Bss(s) /\ s.memsz > s.filesz
      BY <1>1, <2>3 DEF Loading!Bss, Loading!Cells
    <3> QED  BY <1>4, <2>1, <2>3, <3>1
  <2> QED  BY <2>2, <2>3
<1>7. ASSUME NEW i \in Loading!Segments, i = seg PROVE SegmentIn(i)'
  BY <1>6, <1>7 DEF SegmentIn
<1>8. ASSUME NEW i \in Loading!Segments, i < seg PROVE SegmentIn(i)'
  <2> DEFINE t == image.segs[i]
  <2>1. /\ t.paddr \in Nat /\ t.memsz \in Nat /\ t.paddr + t.memsz <= Top + 1
        /\ Loading!Span(t) \cap Loading!Span(s) = {} /\ i # seg
    <3>1. i \in DOMAIN image.segs /\ seg \in DOMAIN image.segs
      BY DEF Loading!Segments
    <3>2. i # seg
      BY <1>8, <3>1, ImageIs DEF CopyInv, PlacedInv
    <3> QED  BY <3>1, <3>2, ImageIs DEF CopyInv, PlacedInv, Loading!Apart
  <2>2. \A k \in 0 .. t.memsz - 1 : ram'[t.paddr + k] = ram[t.paddr + k]
    <3> HIDE DEF s, t
    <3>1. \A k \in 0 .. t.memsz - 1 : t.paddr + k \in Loading!Addr /\ t.paddr + k \in Loading!Span(t)
      BY <1>2, <2>1 DEF Loading!Addr, Loading!Span, Loading!Cells
    <3> QED  BY <1>5, <2>1, <3>1
  <2> QED  BY <1>3, <1>8, <2>2 DEF SegmentIn
<1>9. FileWhole'
  <2>1. Loading!Span(s) \cap Loading!Cells(base, image.size) = {}
    BY DEF Loading!Apart
  <2>2. \A c \in 1 .. image.size : base + c - 1 \in Loading!Addr /\ base + c - 1 \in Loading!Cells(base, image.size)
    BY <1>2 DEF Loading!Addr, Loading!Cells
  <2> HIDE DEF s
  <2>3. \A c \in 1 .. image.size : ram'[base + c - 1] = ram[base + c - 1]
    BY <1>5, <2>1, <2>2
  <2> QED  BY <1>3, <2>3 DEF FileWhole
<1>10. LoaderWhole'
  <2> HIDE DEF s
  <2>1. \A a \in 0 .. BOOT_END - 1 : a \in Loading!Addr /\ a \notin Loading!Span(s)
    BY <1>1, <1>2 DEF Loading!Addr, Loading!Span, Loading!Cells
  <2>2. \A a \in 0 .. BOOT_END - 1 : ram'[a] = ram[a]
    BY <1>5, <2>1
  <2> QED  BY <1>3, <2>2 DEF LoaderWhole
<1>11. \A i \in Loading!Segments : i <= seg => i < seg \/ i = seg
  BY ImageIs DEF CopyInv, PlacedInv, Loading!Segments
<1> QED  BY <1>7, <1>8, <1>9, <1>10, <1>11

(* The download itself puts the whole file in place, behind the loader. *)
LEMMA FilePlaced ==
    ASSUME CopyInv, Loading!Place, pc' = "segments"
    PROVE  FileWhole' /\ LoaderWhole' /\ seg' = 1 /\ image.size <= SIZE_HINT
<1> DEFINE n == Loading!Min({image.size, SIZE_HINT})
           B == Loading!Base
<1>1. /\ pc = "place" /\ UNCHANGED <<target, map, image, seg>> /\ base' = B
      /\ ram' = [a \in Loading!Addr |-> IF a \in Loading!Cells(B, n) THEN a - B + 1 ELSE ram[a]]
      /\ ~(image.size > SIZE_HINT)
  BY DEF Loading!Place
<1>2. /\ image.size \in Nat /\ Top \in Nat /\ BOOT_END \in Nat
      /\ SIZE_HINT \in Nat /\ B \in Nat /\ B >= BOOT_END /\ B + SIZE_HINT <= Top + 1
  BY ImageIs, PlacedBehind DEF CopyInv, PlacedInv
<1>3. n = image.size
  BY <1>1, <1>2, MinOfTwo
<1>4. seg' = 1 /\ \A a \in 0 .. BOOT_END - 1 : ram[a] = Loading!Loader
  BY <1>1, <1>2 DEF CopyInv, Loading!Addr
<1> HIDE DEF n, B
<1>5. ASSUME NEW c \in 1 .. image.size PROVE ram'[B + c - 1] = c
  <2>1. B + c - 1 \in Loading!Addr /\ B + c - 1 \in Loading!Cells(B, n) /\ (B + c - 1) - B + 1 = c
    BY <1>1, <1>2, <1>3 DEF Loading!Addr, Loading!Cells
  <2> QED  BY <1>1, <2>1
<1>6. ASSUME NEW a \in 0 .. BOOT_END - 1 PROVE ram'[a] = Loading!Loader
  <2>1. a \in Loading!Addr /\ a \notin Loading!Cells(B, n)
    BY <1>2 DEF Loading!Addr, Loading!Cells
  <2> QED  BY <1>1, <1>4, <2>1
<1> QED  BY <1>1, <1>2, <1>4, <1>5, <1>6 DEF FileWhole, LoaderWhole

LEMMA CopyStep == CopyInv /\ [Loading!Next]_(Loading!vars) => CopyInv'
<1> SUFFICES ASSUME CopyInv, [Loading!Next]_(Loading!vars) PROVE CopyInv'
  OBVIOUS
<1>1. PlacedInv'
  BY PlacedStep DEF CopyInv
<1>2. CASE Loading!Place
  <2>1. pc' \in {"failed", "script", "segments", "shown"}
    BY <1>2 DEF Loading!Place
  <2>2. pc' = "segments" => FileWhole' /\ LoaderWhole' /\ seg' = 1 /\ image'.size <= SIZE_HINT
    BY <1>2, FilePlaced DEF Loading!Place
  <2>3. \A i \in Loading!Segments' : i \in Nat \ {0}
    <3>1. image' = image /\ image.segs \in Seq(ProgramHeader)
      BY <1>2, ImageIs DEF CopyInv, PlacedInv, Loading!Place
    <3> QED  BY <3>1 DEF Loading!Segments
  <2> QED  BY <1>1, <2>1, <2>2, <2>3 DEF CopyInv
<1>3. CASE Loading!LoadSegment
  <2> DEFINE s == image.segs[seg]
  <2>1. /\ pc = "segments" /\ Loading!MoreHeaders
        /\ UNCHANGED <<target, map, image, base, capacity>>
    BY <1>3 DEF Loading!LoadSegment
  <2>2. CASE Loading!Lost(s)
    <3>1. pc' = "lost"
      BY <1>3, <2>2 DEF Loading!LoadSegment
    <3> QED  BY <1>1, <3>1 DEF CopyInv
  <2>3. CASE ~Loading!Lost(s)
    <3>1. /\ pc' = pc /\ seg' = seg + 1
          /\ ram' = IF s.load /\ Loading!InFile(s) THEN Loading!Copied(s) ELSE ram
      BY <1>3, <2>3 DEF Loading!LoadSegment
    <3>2. seg \in Nat \ {0} /\ image.size <= SIZE_HINT
      BY <2>1 DEF CopyInv
    <3>3. (Loading!Apart <=> Loading!Apart') /\ Loading!Segments' = Loading!Segments
      BY <2>1 DEF Loading!Apart, Loading!Segments, Loading!Span, Loading!InFile, Loading!Cells
    <3>4. ASSUME Loading!Apart
          PROVE  (\A i \in Loading!Segments : i < seg + 1 => SegmentIn(i)') /\ FileWhole' /\ LoaderWhole'
      <4>1. \A i \in Loading!Segments : i \in Nat
        BY ImageIs DEF CopyInv, PlacedInv, Loading!Segments
      <4>2. CASE seg \in Loading!Segments
        <5>1. s.load /\ Loading!InFile(s)
          BY <4>2 DEF Loading!Segments
        <5>2. \A i \in Loading!Segments : i < seg + 1 => i <= seg
          BY <3>2, <4>1
        <5>3. ram' = Loading!Copied(s)
          BY <3>1, <5>1
        <5> QED  BY <2>1, <2>3, <3>4, <4>2, <5>2, <5>3, CopiedIn
      <4>3. CASE seg \notin Loading!Segments
        <5>1. ram' = ram
          BY <2>1, <3>1, <3>2, <4>3, ImageIs
             DEF Loading!Segments, Loading!MoreHeaders, Loading!HeaderByte, CopyInv, PlacedInv
        <5>2. \A i \in Loading!Segments : i < seg + 1 => i < seg
          BY <3>2, <4>1, <4>3
        <5> QED  BY <2>1, <3>4, <5>1, <5>2 DEF CopyInv, SegmentIn, FileWhole, LoaderWhole
      <4> QED  BY <4>2, <4>3
    <3> QED  BY <1>1, <2>1, <3>1, <3>2, <3>3, <3>4 DEF CopyInv
  <2> QED  BY <2>2, <2>3
<1>4. CASE Loading!Enter \/ UNCHANGED Loading!vars
  <2>1. /\ UNCHANGED <<target, map, image, base, capacity, ram, seg>>
        /\ \/ pc = "segments" /\ pc' = "entered" /\ ~Loading!MoreHeaders
           \/ pc' = pc
    BY <1>4 DEF Loading!Enter, Loading!vars
  <2>2. /\ (Loading!Apart <=> Loading!Apart') /\ Loading!Segments' = Loading!Segments
        /\ Loading!MoreHeaders' <=> Loading!MoreHeaders
        /\ FileWhole => FileWhole'
        /\ LoaderWhole => LoaderWhole'
        /\ \A i : SegmentIn(i) => SegmentIn(i)'
    BY <2>1 DEF Loading!Apart, Loading!Segments, Loading!Span, Loading!InFile, Loading!Cells,
                Loading!MoreHeaders, Loading!HeaderByte, FileWhole, LoaderWhole, SegmentIn
  <2> QED  BY <1>1, <2>1, <2>2 DEF CopyInv
<1>5. CASE Loading!FetchByte
  <2>1. pc = "script" /\ pc' = pc
    BY <1>5 DEF Loading!FetchByte
  <2> QED  BY <1>1, <2>1 DEF CopyInv
<1> QED  BY <1>2, <1>3, <1>4, <1>5 DEF Loading!Next

(* The segments of an image that is entered are where its headers say, with *)
(* the bytes of the file and zeros behind them, for every list of headers. *)
THEOREM SegmentsAsLinked == PartsSpec => []LoadedAsLinked
<1> DEFINE Inv == part = "image" => CopyInv
<1>1. PartsInit => Inv
  BY Starts DEF Loading!Init, CopyInv, PlacedInv, ImageOK
<1>2. Inv /\ [PartsNext]_allVars => Inv'
  BY CopyStep, Moves
<1>3. Inv => LoadedAsLinked
  <2> SUFFICES ASSUME CopyInv, pc = "entered", Loading!Apart
               PROVE  /\ \A i \in Loading!Segments : SegmentIn(i)
                      /\ FileWhole /\ LoaderWhole
    BY DEF LoadedAsLinked, Loading!LoadedAsLinked, SegmentIn, FileWhole, LoaderWhole
  <2>1. ~Loading!MoreHeaders /\ seg \in Nat \ {0}
    BY DEF CopyInv
  <2>2. \A i \in Loading!Segments : i < seg
    BY <2>1, ImageIs, SMTT(30) DEF CopyInv, PlacedInv, Loading!MoreHeaders, Loading!HeaderByte, Loading!Segments
  <2> QED  BY <2>2 DEF CopyInv
<1> QED  BY <1>1, <1>2, <1>3, PTL DEF PartsSpec
-----------------------------------------------------------------------------
(***************************************************************************)
(* Lists of files.  What is found under a name is what its entry has, when *)
(* it has at most one (One); an entry that is put, appended or taken out   *)
(* changes what is found under no other name.                              *)
(***************************************************************************)
Bytes == Seq(Native!Byte)
FileEntry == [name : FileName, data : Bytes]
One(fl, n) == \A i, j \in Native!At(fl, n) : i = j

LEMMA FirstIs ==
    ASSUME NEW S, S \subseteq Nat, S # {}
    PROVE  Native!FirstOf(S) \in S /\ \A k \in S : Native!FirstOf(S) <= k
<1>1. \E m \in S : \A k \in S : m <= k
  BY Least
<1> QED  BY <1>1 DEF Native!FirstOf

LEMMA AtIs ==
    ASSUME NEW fl \in Seq(FileEntry), NEW n
    PROVE  /\ Native!At(fl, n) \subseteq 1 .. Len(fl) /\ Native!At(fl, n) \subseteq Nat
           /\ \A i \in 1 .. Len(fl) : i \in Native!At(fl, n) <=> fl[i].name = n
BY DEF Native!At

LEMMA FindIs ==
    ASSUME NEW fl \in Seq(FileEntry), NEW n
    PROVE  /\ Native!At(fl, n) = {} => Native!Find(fl, n) = Absent
           /\ \A i \in Native!At(fl, n) : One(fl, n) => Native!Find(fl, n) = fl[i].data
           /\ Native!At(fl, n) # {} => Native!Find(fl, n) \in Bytes
<1>1. ASSUME NEW i \in Native!At(fl, n), One(fl, n) PROVE Native!Find(fl, n) = fl[i].data
  <2>1. Native!FirstOf(Native!At(fl, n)) \in Native!At(fl, n)
    BY <1>1, AtIs, FirstIs
  <2>2. Native!FirstOf(Native!At(fl, n)) = i
    BY <1>1, <2>1 DEF One
  <2> QED  BY <1>1, <2>2 DEF Native!Find
<1>2. ASSUME Native!At(fl, n) # {} PROVE Native!Find(fl, n) \in Bytes
  <2>1. Native!FirstOf(Native!At(fl, n)) \in 1 .. Len(fl)
    BY <1>2, AtIs, FirstIs
  <2>2. fl[Native!FirstOf(Native!At(fl, n))] \in FileEntry
    BY <2>1
  <2> QED  BY <1>2, <2>2 DEF Native!Find, FileEntry
<1>3. Native!At(fl, n) = {} => Native!Find(fl, n) = Absent
  BY DEF Native!Find
<1> QED  BY <1>1, <1>2, <1>3

(* Lists with the same entries of a name, wherever those are. *)
LEMMA SameFound ==
    ASSUME NEW fl \in Seq(FileEntry), NEW q \in Seq(FileEntry), NEW n, One(fl, n),
           \A j \in Native!At(q, n) : \E i \in Native!At(fl, n) : fl[i].data = q[j].data,
           One(q, n), Native!At(fl, n) # {} => Native!At(q, n) # {}
    PROVE  Native!Find(q, n) = Native!Find(fl, n)
<1>1. CASE Native!At(q, n) = {}
  BY <1>1, FindIs
<1>2. CASE Native!At(q, n) # {}
  <2>1. PICK j \in Native!At(q, n) : TRUE
    BY <1>2
  <2>2. PICK i \in Native!At(fl, n) : fl[i].data = q[j].data
    BY <2>1
  <2> QED  BY <2>1, <2>2, FindIs
<1> QED  BY <1>1, <1>2

LEMMA AppendIs ==
    ASSUME NEW fl \in Seq(FileEntry), NEW e \in FileEntry
    PROVE  LET q == Append(fl, e) IN
           /\ q \in Seq(FileEntry)
           /\ Native!At(fl, e.name) = {} => One(q, e.name) /\ Native!Find(q, e.name) = e.data
           /\ Native!At(q, e.name) # {}
           /\ \A n : n # e.name /\ One(fl, n) => One(q, n) /\ Native!Find(q, n) = Native!Find(fl, n)
<1> DEFINE q == Append(fl, e)
           N == Len(fl) + 1
<1>1. /\ q \in Seq(FileEntry) /\ Len(q) = N /\ q[N] = e /\ Len(fl) \in Nat
      /\ \A i \in 1 .. Len(fl) : q[i] = fl[i]
  OBVIOUS
<1> HIDE DEF q
<1>2. ASSUME NEW n, n # e.name PROVE Native!At(q, n) = Native!At(fl, n)
  BY <1>1, <1>2 DEF Native!At
<1>3. Native!At(q, e.name) = Native!At(fl, e.name) \cup {N}
  BY <1>1 DEF Native!At
<1>4. ASSUME Native!At(fl, e.name) = {} PROVE One(q, e.name) /\ Native!Find(q, e.name) = e.data
  <2>1. Native!At(q, e.name) = {N}
    BY <1>3, <1>4
  <2>2. One(q, e.name) /\ N \in Native!At(q, e.name)
    BY <2>1 DEF One
  <2> QED  BY <1>1, <2>2, FindIs
<1>5. ASSUME NEW n, n # e.name, One(fl, n) PROVE One(q, n) /\ Native!Find(q, n) = Native!Find(fl, n)
  <2>1. Native!At(q, n) = Native!At(fl, n)
    BY <1>2, <1>5
  <2>2. One(q, n)
    BY <1>5, <2>1 DEF One
  <2>3. \A j \in Native!At(q, n) : q[j].data = fl[j].data
    BY <1>1, <2>1, AtIs
  <2> QED  BY <1>1, <1>5, <2>1, <2>2, <2>3, SameFound
<1> QED  BY <1>1, <1>3, <1>4, <1>5 DEF q

LEMMA PutIs ==
    ASSUME NEW fl \in Seq(FileEntry), NEW n \in FileName, NEW d \in Bytes, One(fl, n)
    PROVE  LET q == Native!Put(fl, n, d) IN
           /\ q \in Seq(FileEntry)
           /\ One(q, n) /\ Native!Find(q, n) = d
           /\ \A m : m # n /\ One(fl, m) => One(q, m) /\ Native!Find(q, m) = Native!Find(fl, m)
<1> DEFINE q == Native!Put(fl, n, d)
           e == [name |-> n, data |-> d]
<1>1. CASE Native!At(fl, n) = {}
  <2>1. e \in FileEntry /\ e.name = n /\ e.data = d
    BY DEF FileEntry
  <2>2. q = Append(fl, e)
    BY <1>1 DEF Native!Put
  <2> HIDE DEF e
  <2> QED  BY <1>1, <2>1, <2>2, AppendIs
<1>2. CASE Native!At(fl, n) # {}
  <2> DEFINE i == Native!FirstOf(Native!At(fl, n))
  <2>1. q = [fl EXCEPT ![i].data = d]
    BY <1>2 DEF Native!Put
  <2>2. i \in Native!At(fl, n) /\ i \in 1 .. Len(fl) /\ fl[i].name = n /\ fl[i] \in FileEntry
    BY <1>2, AtIs, FirstIs
  <2> HIDE DEF q, i
  <2>3. [fl[i] EXCEPT !.data = d] \in FileEntry /\ [fl[i] EXCEPT !.data = d].name = n
        /\ [fl[i] EXCEPT !.data = d].data = d
    BY <2>2 DEF FileEntry
  <2>4. /\ q \in Seq(FileEntry) /\ Len(q) = Len(fl) /\ q[i].name = n /\ q[i].data = d
        /\ \A j \in 1 .. Len(fl) : j # i => q[j] = fl[j]
    BY <2>1, <2>2, <2>3
  <2>5. \A m : Native!At(q, m) = Native!At(fl, m)
    <3>1. \A j \in 1 .. Len(fl) : q[j].name = fl[j].name
      BY <2>2, <2>4
    <3>2. DOMAIN q = 1 .. Len(fl) /\ DOMAIN fl = 1 .. Len(fl)
      BY <2>4
    <3> QED  BY <3>1, <3>2 DEF Native!At
  <2>6. \A m : One(fl, m) => One(q, m)
    BY <2>5 DEF One
  <2>7. Native!Find(q, n) = d
    BY <2>2, <2>4, <2>5, <2>6, FindIs
  <2>8. ASSUME NEW m, m # n, One(fl, m) PROVE Native!Find(q, m) = Native!Find(fl, m)
    <3>1. \A j \in Native!At(q, m) : j \in Native!At(fl, m) /\ j # i /\ j \in 1 .. Len(fl)
      BY <2>2, <2>5, <2>8, AtIs
    <3>2. \A j \in Native!At(q, m) : q[j].data = fl[j].data
      BY <2>4, <3>1
    <3> QED  BY <2>4, <2>5, <2>6, <2>8, <3>2, SameFound
  <2> QED  BY <2>4, <2>6, <2>7, <2>8 DEF q
<1> QED  BY <1>1, <1>2

LEMMA WithoutIs ==
    ASSUME files \in Seq(FileEntry), NEW n, One(files, n), Native!At(files, n) # {}
    PROVE  LET q == Native!Without(n) IN
           /\ q \in Seq(FileEntry)
           /\ Native!At(q, n) = {}
           /\ \A m : m # n /\ One(files, m) => One(q, m) /\ Native!Find(q, m) = Native!Find(files, m)
<1> DEFINE q == Native!Without(n)
           i == Native!FirstOf(Native!At(files, n))
           N == Len(files)
           From(j) == IF j < i THEN j ELSE j + 1
           front == SubSeq(files, 1, i - 1)
           back == SubSeq(files, i + 1, N)
<1>1. i \in Native!At(files, n) /\ i \in 1 .. N /\ N \in Nat
  BY AtIs, FirstIs
<1>2. q = front \o back
  BY DEF Native!Without
<1> HIDE DEF q, i
<1>3. front \in Seq(FileEntry) /\ Len(front) = i - 1 /\ \A j \in 1 .. i - 1 : front[j] = files[j]
  BY <1>1
<1>4. back \in Seq(FileEntry) /\ Len(back) = N - i /\ \A j \in 1 .. N - i : back[j] = files[i + j]
  BY <1>1
<1> HIDE DEF front, back
<1>5. /\ q \in Seq(FileEntry)
      /\ Len(q) = Len(front) + Len(back)
      /\ \A j \in 1 .. Len(front) + Len(back) : q[j] = IF j <= Len(front) THEN front[j] ELSE back[j - Len(front)]
  <2>1. front \in Seq(FileEntry)
    BY <1>3
  <2>2. back \in Seq(FileEntry)
    BY <1>4
  <2> QED  BY <1>2, <2>1, <2>2, JoinIs
<1>6. /\ Len(q) = N - 1
      /\ \A j \in 1 .. N - 1 : q[j] = files[From(j)] /\ From(j) \in 1 .. N /\ From(j) # i
  <2>1. Len(q) = N - 1
    BY <1>1, <1>3, <1>4, <1>5
  <2>2. ASSUME NEW j \in 1 .. N - 1 PROVE q[j] = files[From(j)] /\ From(j) \in 1 .. N /\ From(j) # i
    <3>1. q[j] = IF j <= i - 1 THEN front[j] ELSE back[j - (i - 1)]
      BY <1>1, <1>3, <1>4, <1>5
    <3>2. CASE j < i
      BY <1>1, <1>3, <3>1, <3>2
    <3>3. CASE ~(j < i)
      <4>1. j - (i - 1) \in 1 .. N - i /\ i + (j - (i - 1)) = j + 1
        BY <1>1, <3>3
      <4> QED  BY <1>1, <1>4, <3>1, <3>3, <4>1
    <3> QED  BY <3>2, <3>3
  <2> QED  BY <2>1, <2>2
<1>7. \A m : \A j \in Native!At(q, m) : From(j) \in Native!At(files, m) /\ q[j] = files[From(j)] /\ j \in 1 .. N - 1
  BY <1>1, <1>5, <1>6, AtIs
<1>8. ASSUME NEW m, NEW k \in Native!At(files, m), k # i
      PROVE  \E j \in Native!At(q, m) : From(j) = k
  <2> DEFINE j == IF k < i THEN k ELSE k - 1
  <2>1. k \in 1 .. N
    BY <1>8, AtIs
  <2>2. j \in 1 .. N - 1 /\ From(j) = k
    BY <1>1, <1>8, <2>1
  <2>3. q[j] = files[k]
    BY <1>6, <2>2
  <2>4. j \in Native!At(q, m)
    BY <1>5, <1>6, <1>8, <2>1, <2>2, <2>3, AtIs, SMTT(30)
  <2> QED  BY <2>2, <2>4
<1>9. Native!At(q, n) = {}
  BY <1>1, <1>6, <1>7 DEF One
<1>10. ASSUME NEW m, m # n, One(files, m) PROVE One(q, m) /\ Native!Find(q, m) = Native!Find(files, m)
  <2>1. i \notin Native!At(files, m)
    BY <1>1, <1>10, AtIs
  <2>2. One(q, m)
    <3>1. \A a, b \in Native!At(q, m) : From(a) = From(b)
      BY <1>7, <1>10 DEF One
    <3> QED  BY <1>1, <1>7, <3>1 DEF One
  <2>3. \A j \in Native!At(q, m) : \E k \in Native!At(files, m) : files[k].data = q[j].data
    BY <1>7
  <2>4. Native!At(files, m) # {} => Native!At(q, m) # {}
    BY <1>8, <2>1
  <2> QED  BY <1>5, <1>10, <2>2, <2>3, <2>4, SameFound
<1> QED  BY <1>5, <1>9, <1>10 DEF q
-----------------------------------------------------------------------------
(***************************************************************************)
(* Handles.  Each is a cursor in its own bytes, and what it has read is    *)
(* all before the cursor, as long as the lines fit the buffer.             *)
(***************************************************************************)
Handle == [name : FileName \cup {NoName}, data : Bytes, pos : Nat,
           closed : BOOLEAN, writable : BOOLEAN, got : Bytes]
HasRead(f) ==
    /\ f.pos <= Len(f.data)
    /\ Native!LinesFit(f.data) => f.got = SubSeq(f.data, 1, f.pos)

NativeTypes ==
    /\ files \in Seq(FileEntry)
    /\ open_files \in Seq(Handle)
    /\ \A h \in DOMAIN open_files : HasRead(open_files[h])

(* A change of one handle, and a handle more. *)
LEMMA OneChanged ==
    ASSUME NEW hs \in Seq(Handle), NEW h \in DOMAIN hs, NEW f \in Handle, NEW q, q = [hs EXCEPT ![h] = f]
    PROVE  /\ q \in Seq(Handle) /\ Len(q) = Len(hs) /\ DOMAIN q = DOMAIN hs /\ q[h] = f
           /\ \A g \in DOMAIN hs : g # h => q[g] = hs[g]
  OBVIOUS

LEMMA OneMore ==
    ASSUME NEW hs \in Seq(Handle), NEW f \in Handle, NEW q, q = Append(hs, f)
    PROVE  /\ q \in Seq(Handle) /\ Len(q) = Len(hs) + 1 /\ Len(hs) \in Nat
           /\ DOMAIN q = DOMAIN hs \cup {Len(hs) + 1} /\ Len(hs) + 1 \notin DOMAIN hs
           /\ q[Len(hs) + 1] = f /\ \A g \in DOMAIN hs : q[g] = hs[g]
<1>1. q \in Seq(Handle) /\ Len(q) = Len(hs) + 1 /\ Len(hs) \in Nat
  OBVIOUS
<1>2. DOMAIN q = 1 .. Len(hs) + 1 /\ DOMAIN hs = 1 .. Len(hs)
  BY <1>1
<1>3. q[Len(hs) + 1] = f /\ \A g \in 1 .. Len(hs) : q[g] = hs[g]
  OBVIOUS
<1> QED  BY <1>1, <1>2, <1>3

(* Bytes that are appended make no line fit that did not fit before. *)
LEMMA FitBefore ==
    ASSUME NEW d \in Bytes, NEW c \in Native!Byte, Native!LinesFit(Append(d, c))
    PROVE  Native!LinesFit(d)
<1> DEFINE q == Append(d, c)
<1>1. Len(q) = Len(d) + 1 /\ (\A i \in 1 .. Len(d) : q[i] = d[i]) /\ Len(d) \in Nat /\ STR_CAP \in Nat
      /\ DOMAIN d = 1 .. Len(d) /\ DOMAIN q = 1 .. Len(d) + 1
  BY NativeAssumption DEF Bytes
<1>2. \A i \in 1 .. Len(d) + 1 : i + STR_CAP > Len(d) + 1 \/ \E k \in 0 .. STR_CAP : q[i + k] = EndOfLine
  BY <1>1 DEF Native!LinesFit
<1> HIDE DEF q
<1>3. ASSUME NEW i \in 1 .. Len(d), ~(i + STR_CAP > Len(d))
      PROVE  \E k \in 0 .. STR_CAP : d[i + k] = EndOfLine
  <2>1. PICK k \in 0 .. STR_CAP : q[i + k] = EndOfLine \/ i + STR_CAP > Len(d) + 1
    BY <1>1, <1>2
  <2>2. i + k \in 1 .. Len(d) /\ ~(i + STR_CAP > Len(d) + 1)
    BY <1>1, <1>3
  <2> QED  BY <1>1, <2>1, <2>2
<1> QED  BY <1>1, <1>3 DEF Native!LinesFit

(* What reading a line from the cursor passes over: the line and its end. *)
LEMMA LineIs ==
    ASSUME NEW f \in Handle, f.pos < Len(f.data)
    PROVE  /\ Native!Line(f) \in Bytes /\ Len(Native!Line(f)) \in Nat
           /\ f.pos + Len(Native!Line(f)) <= Len(f.data)
           /\ Native!Line(f) = SubSeq(f.data, f.pos + 1, f.pos + Len(Native!Line(f)))
           /\ \A i \in f.pos + 1 .. f.pos + Len(Native!Line(f)) : f.data[i] # EndOfLine
           /\ f.pos + Len(Native!Line(f)) < Len(f.data) => f.data[f.pos + Len(Native!Line(f)) + 1] = EndOfLine
<1> DEFINE d == f.data
           p == f.pos
           rest == Native!Rest(f)
           ends == {k \in DOMAIN rest : rest[k] = EndOfLine}
           line == Native!Line(f)
<1>1. d \in Bytes /\ p \in Nat /\ Len(d) \in Nat /\ p < Len(d)
  BY DEF Handle, Bytes
<1>2. rest = SubSeq(d, p + 1, Len(d))
  BY DEF Native!Rest
<1> HIDE DEF d, p, rest, line
<1>3. rest \in Bytes /\ Len(rest) = Len(d) - p /\ \A k \in 1 .. Len(d) - p : rest[k] = d[p + k]
  BY <1>1, <1>2 DEF Bytes
<1>4. CASE ends = {}
  <2>1. line = rest
    BY <1>4 DEF Native!Line, line, rest
  <2>2. \A i \in p + 1 .. Len(d) : d[i] # EndOfLine
    <3> SUFFICES ASSUME NEW i \in p + 1 .. Len(d) PROVE d[i] # EndOfLine
      OBVIOUS
    <3>1. i - p \in 1 .. Len(d) - p /\ p + (i - p) = i
      BY <1>1
    <3>2. i - p \in DOMAIN rest
      BY <1>3, <3>1 DEF Bytes
    <3> QED  BY <1>3, <1>4, <3>1, <3>2
  <2>3. p + Len(line) = Len(d)
    BY <1>1, <1>3, <2>1
  <2>4. line = SubSeq(d, p + 1, p + Len(line)) /\ line \in Bytes /\ Len(line) \in Nat
    BY <1>1, <1>2, <1>3, <2>1, <2>3
  <2> QED  BY <1>1, <2>2, <2>3, <2>4, SMTT(30) DEF line, d, p
<1>5. CASE ends # {}
  <2> DEFINE m == Native!FirstOf(ends)
  <2>1. ends \subseteq 1 .. Len(d) - p /\ ends \subseteq Nat
    BY <1>1, <1>3 DEF Bytes
  <2>2. m \in ends /\ \A k \in ends : m <= k
    <3> HIDE DEF ends
    <3> QED  BY <1>5, <2>1, FirstIs
  <2>3. line = SubSeq(rest, 1, m - 1)
    BY <1>5 DEF Native!Line, line, rest
  <2>4. m \in 1 .. Len(d) - p /\ rest[m] = EndOfLine
    BY <2>1, <2>2
  <2>5. \A k \in 1 .. m - 1 : rest[k] # EndOfLine
    <3> SUFFICES ASSUME NEW k \in 1 .. m - 1, rest[k] = EndOfLine PROVE FALSE
      OBVIOUS
    <3>1. k \in DOMAIN rest /\ ~(m <= k)
      BY <1>1, <1>3, <2>4 DEF Bytes
    <3> QED  BY <2>2, <3>1
  <2> HIDE DEF m, ends
  <2>6. line \in Bytes /\ Len(line) = m - 1 /\ \A k \in 1 .. m - 1 : line[k] = rest[k]
    BY <1>1, <1>3, <2>3, <2>4 DEF Bytes
  <2>7. line = SubSeq(d, p + 1, p + Len(line))
    <3> DEFINE s == SubSeq(d, p + 1, p + (m - 1))
    <3>1. s \in Bytes /\ Len(s) = m - 1 /\ \A k \in 1 .. m - 1 : s[k] = d[p + k]
      BY <1>1, <2>4, SMTT(30) DEF Bytes
    <3>2. \A k \in 1 .. m - 1 : line[k] = s[k]
      BY <1>1, <1>3, <2>4, <2>6, <3>1
    <3> HIDE DEF s
    <3>3. line = s
      BY <2>6, <3>1, <3>2 DEF Bytes
    <3> QED  BY <2>6, <3>3 DEF s
  <2>8. \A i \in p + 1 .. p + (m - 1) : d[i] # EndOfLine
    <3> SUFFICES ASSUME NEW i \in p + 1 .. p + (m - 1) PROVE d[i] # EndOfLine
      OBVIOUS
    <3>1. i - p \in 1 .. m - 1 /\ i - p \in 1 .. Len(d) - p /\ p + (i - p) = i
      BY <1>1, <2>4
    <3> QED  BY <1>3, <2>5, <3>1
  <2>9. d[p + (m - 1) + 1] = EndOfLine
    <3>1. p + (m - 1) + 1 = p + m
      BY <1>1, <2>4
    <3> QED  BY <1>3, <2>4, <3>1
  <2> QED  BY <1>1, <2>4, <2>6, <2>7, <2>8, <2>9 DEF line, d, p
<1> QED  BY <1>4, <1>5
(* One read, of bytes or of a line, and the cursor is still honest. *)
LEMMA BytesRead ==
    ASSUME NEW f \in Handle, HasRead(f), NEW n \in Nat,
           NEW bytes, bytes = Native!Part(Native!Rest(f), n), f.pos < Len(f.data),
           NEW g, g = [f EXCEPT !.pos = @ + Len(bytes), !.got = @ \o bytes]
    PROVE  g \in Handle /\ HasRead(g) /\ g.name = f.name /\ g.data = f.data
           /\ g.closed = f.closed /\ g.writable = f.writable
<1> DEFINE d == f.data
           p == f.pos
           m == IF n < Len(d) - p THEN n ELSE Len(d) - p
<1>1. d \in Bytes /\ p \in Nat /\ Len(d) \in Nat /\ p < Len(d) /\ f.got \in Bytes
  BY DEF Handle, Bytes
<1>2. m \in Nat /\ p + m <= Len(d)
  BY <1>1
<1>3. bytes \in Bytes /\ Len(bytes) = m /\ \A k \in 1 .. m : bytes[k] = d[p + k]
  <2> DEFINE rest == Native!Rest(f)
  <2>1. rest \in Bytes /\ Len(rest) = Len(d) - p /\ \A k \in 1 .. Len(d) - p : rest[k] = d[p + k]
    <3>1. rest = SubSeq(d, p + 1, Len(d))
      BY DEF Native!Rest
    <3> HIDE DEF rest, d, p
    <3> QED  BY <1>1, <3>1 DEF Bytes
  <2> HIDE DEF rest, d, p
  <2>2. bytes = SubSeq(rest, 1, m)
    BY <1>1, <2>1 DEF Native!Part, rest
  <2> QED  BY <1>1, <1>2, <2>1, <2>2, SMTT(30) DEF Bytes
<1> HIDE DEF m
<1>4. /\ g.pos = p + m /\ g.got = f.got \o bytes /\ g.name = f.name /\ g.data = d
      /\ g.closed = f.closed /\ g.writable = f.writable
  BY <1>3 DEF Handle
<1>5. g \in Handle
  <2>1. f.got \o bytes \in Bytes /\ p + m \in Nat
    BY <1>1, <1>2, <1>3 DEF Bytes
  <2> QED  BY <1>3, <2>1 DEF Handle
<1>6. ASSUME Native!LinesFit(d) PROVE g.got = SubSeq(d, 1, p + m)
  <2>1. f.got = SubSeq(d, 1, p)
    BY <1>6 DEF HasRead
  <2> HIDE DEF d, p
  <2>2. f.got \in Bytes /\ Len(f.got) = p /\ \A k \in 1 .. p : f.got[k] = d[k]
    BY <1>1, <2>1 DEF Bytes
  <2>3. /\ g.got \in Bytes /\ Len(g.got) = Len(f.got) + Len(bytes)
        /\ \A i \in 1 .. Len(f.got) + Len(bytes) :
            g.got[i] = IF i <= Len(f.got) THEN f.got[i] ELSE bytes[i - Len(f.got)]
    <3>1. f.got \in Bytes
      BY <2>2
    <3>2. bytes \in Bytes
      BY <1>3
    <3> QED  BY <1>4, <3>1, <3>2, JoinIs DEF Bytes
  <2> DEFINE s == SubSeq(d, 1, p + m)
  <2>4. s \in Bytes /\ Len(s) = p + m /\ \A k \in 1 .. p + m : s[k] = d[k]
    BY <1>1, <1>2 DEF Bytes
  <2> HIDE DEF s
  <2>5. \A i \in 1 .. p + m : g.got[i] = d[i]
    <3> SUFFICES ASSUME NEW i \in 1 .. p + m PROVE g.got[i] = d[i]
      OBVIOUS
    <3>1. CASE i <= p
      BY <1>1, <1>2, <1>3, <2>2, <2>3, <3>1
    <3>2. CASE ~(i <= p)
      <4>1. i - p \in 1 .. m /\ p + (i - p) = i
        BY <1>1, <1>2, <3>2
      <4> QED  BY <1>1, <1>2, <1>3, <2>2, <2>3, <3>2, <4>1, SMTT(30)
    <3> QED  BY <3>1, <3>2
  <2>6. g.got = s
    <3>1. Len(g.got) = p + m
      BY <1>1, <1>2, <1>3, <2>2, <2>3
    <3>2. Len(g.got) = Len(s) /\ \A i \in 1 .. Len(g.got) : g.got[i] = s[i]
      BY <2>4, <2>5, <3>1
    <3> QED  BY <2>3, <2>4, <3>2, SameSequence DEF Bytes
  <2> QED  BY <2>6 DEF s
<1> QED  BY <1>1, <1>2, <1>4, <1>5, <1>6 DEF HasRead

LEMMA LineRead ==
    ASSUME NEW f \in Handle, HasRead(f), f.pos < Len(f.data),
           NEW g, g = Native!Took(f, Native!Part(Native!Line(f), STR_CAP), Native!LineEnd(f))
    PROVE  g \in Handle /\ HasRead(g) /\ g.name = f.name /\ g.data = f.data
           /\ g.closed = f.closed /\ g.writable = f.writable
<1> DEFINE d == f.data
           p == f.pos
           line == Native!Line(f)
           L == Len(line)
           bytes == Native!Part(line, STR_CAP)
           end == IF p + L < Len(d) THEN <<EndOfLine>> ELSE <<>>
           to == Native!LineEnd(f)
<1>1. d \in Bytes /\ p \in Nat /\ Len(d) \in Nat /\ p < Len(d) /\ f.got \in Bytes /\ STR_CAP \in Nat
      /\ DOMAIN d = 1 .. Len(d)
  BY NativeAssumption DEF Handle, Bytes
<1>2. /\ line \in Bytes /\ L \in Nat /\ p + L <= Len(d) /\ line = SubSeq(d, p + 1, p + L)
      /\ \A i \in p + 1 .. p + L : d[i] # EndOfLine
      /\ p + L < Len(d) => d[p + L + 1] = EndOfLine
  BY LineIs
<1>3. to = (IF p + L < Len(d) THEN p + L + 1 ELSE p + L) /\ to \in Nat /\ to <= Len(d)
  <2>1. to = IF p + L < Len(d) THEN p + L + 1 ELSE p + L
    BY DEF Native!LineEnd
  <2> HIDE DEF to, L, d, p
  <2> QED  BY <1>1, <1>2, <2>1
<1>4. bytes \in Bytes /\ (L <= STR_CAP => bytes = line)
  BY <1>1, <1>2 DEF Native!Part, Bytes
<1>5. end \in Bytes /\ Len(end) = (IF p + L < Len(d) THEN 1 ELSE 0) /\ (p + L < Len(d) => end[1] = EndOfLine)
  <2>1. EndOfLine \in Native!Byte
    BY DEF Native!Byte
  <2>2. CASE p + L < Len(d)
    BY <2>1, <2>2 DEF Bytes
  <2>3. CASE ~(p + L < Len(d))
    BY <2>3 DEF Bytes
  <2> QED  BY <2>2, <2>3
<1>6. /\ g.pos = to /\ g.got = f.got \o bytes \o end /\ g.name = f.name /\ g.data = d
      /\ g.closed = f.closed /\ g.writable = f.writable
  BY DEF Native!Took, Handle
<1> HIDE DEF line, bytes, end, to
<1>7. g \in Handle
  <2>1. f.got \o bytes \in Bytes
    BY <1>1, <1>4 DEF Bytes
  <2>2. f.got \o bytes \o end \in Bytes
    BY <1>5, <2>1 DEF Bytes
  <2>3. g = [f EXCEPT !.pos = to, !.got = f.got \o bytes \o end]
    BY DEF Native!Took, Handle, bytes, end, to, line
  <2> QED  BY <1>3, <2>2, <2>3 DEF Handle
<1>8. ASSUME Native!LinesFit(d) PROVE g.got = SubSeq(d, 1, to)
  <2>1. f.got = SubSeq(d, 1, p)
    BY <1>8 DEF HasRead
  <2> HIDE DEF d, p
  <2>2. L <= STR_CAP
    <3> SUFFICES ASSUME L > STR_CAP PROVE FALSE
      BY <1>1, <1>2
    <3>1. p + 1 \in 1 .. Len(d) /\ ~((p + 1) + STR_CAP > Len(d))
      BY <1>1, <1>2
    <3>2. PICK k \in 0 .. STR_CAP : d[(p + 1) + k] = EndOfLine
      BY <1>1, <1>8, <3>1 DEF Native!LinesFit
    <3>3. (p + 1) + k \in p + 1 .. p + L
      BY <1>1, <1>2
    <3> QED  BY <1>2, <3>2, <3>3
  <2>3. bytes = line
    BY <1>4, <2>2
  <2>4. f.got \in Bytes /\ Len(f.got) = p /\ \A k \in 1 .. p : f.got[k] = d[k]
    BY <1>1, <2>1 DEF Bytes
  <2>5. \A k \in 1 .. L : line[k] = d[p + k]
    BY <1>1, <1>2, SMTT(30) DEF Bytes
  <2> DEFINE both == f.got \o line
  <2>6. /\ both \in Bytes /\ Len(both) = Len(f.got) + Len(line)
        /\ \A i \in 1 .. Len(f.got) + Len(line) :
            both[i] = IF i <= Len(f.got) THEN f.got[i] ELSE line[i - Len(f.got)]
    <3>1. f.got \in Bytes
      BY <2>4
    <3>2. line \in Bytes
      BY <1>2
    <3> QED  BY <3>1, <3>2, JoinIs DEF Bytes
  <2> HIDE DEF both
  <2>7. /\ g.got \in Bytes /\ Len(g.got) = Len(both) + Len(end)
        /\ \A i \in 1 .. Len(both) + Len(end) :
            g.got[i] = IF i <= Len(both) THEN both[i] ELSE end[i - Len(both)]
    <3>1. g.got = both \o end
      BY <1>6, <2>3 DEF both
    <3>2. both \in Bytes
      BY <2>6
    <3>3. end \in Bytes
      BY <1>5
    <3> QED  BY <3>1, <3>2, <3>3, JoinIs DEF Bytes
  <2>8. \A i \in 1 .. p + L : both[i] = d[i]
    <3> SUFFICES ASSUME NEW i \in 1 .. p + L PROVE both[i] = d[i]
      OBVIOUS
    <3>1. CASE i <= p
      BY <1>1, <1>2, <2>4, <2>6, <3>1
    <3>2. CASE ~(i <= p)
      <4>1. i - p \in 1 .. L /\ p + (i - p) = i
        BY <1>1, <1>2, <3>2
      <4> QED  BY <1>1, <1>2, <2>4, <2>5, <2>6, <3>2, <4>1
    <3> QED  BY <3>1, <3>2
  <2>9. Len(both) = p + L /\ Len(g.got) = to
    BY <1>1, <1>2, <1>3, <1>5, <2>4, <2>6, <2>7
  <2>10. \A i \in 1 .. to : g.got[i] = d[i]
    <3>1. CASE ~(p + L < Len(d))
      <4>1. to = p + L /\ Len(end) = 0
        BY <1>3, <1>5, <3>1
      <4>2. \A i \in 1 .. p + L : g.got[i] = both[i]
        BY <1>1, <1>2, <2>7, <2>9, <4>1
      <4> QED  BY <2>8, <4>1, <4>2
    <3>2. CASE p + L < Len(d)
      <4>1. to = p + L + 1 /\ Len(end) = 1 /\ end[1] = EndOfLine /\ d[p + L + 1] = EndOfLine
        BY <1>2, <1>3, <1>5, <3>2
      <4>2. \A i \in 1 .. p + L : g.got[i] = both[i]
        BY <1>1, <1>2, <2>7, <2>9, <4>1, SMTT(30)
      <4>3. g.got[p + L + 1] = end[1]
        BY <1>1, <1>2, <2>7, <2>9, <4>1
      <4>4. \A i \in 1 .. p + L + 1 : i \in 1 .. p + L \/ i = p + L + 1
        <5>1. p \in Nat /\ L \in Nat
          BY <1>1, <1>2
        <5> HIDE DEF L
        <5> QED  BY <5>1
      <4> QED  BY <2>8, <4>1, <4>2, <4>3, <4>4
    <3> QED  BY <3>1, <3>2
  <2> DEFINE s == SubSeq(d, 1, to)
  <2>11. s \in Bytes /\ Len(s) = to /\ \A k \in 1 .. to : s[k] = d[k]
    BY <1>1, <1>3 DEF Bytes
  <2> HIDE DEF s
  <2>12. g.got = s
    <3>1. Len(g.got) = Len(s) /\ \A i \in 1 .. Len(g.got) : g.got[i] = s[i]
      BY <2>9, <2>10, <2>11
    <3> QED  BY <2>7, <2>11, <3>1, SameSequence DEF Bytes
  <2> QED  BY <2>12 DEF s
<1> QED  BY <1>1, <1>3, <1>6, <1>7, <1>8 DEF HasRead
-----------------------------------------------------------------------------
(***************************************************************************)
(* FilesAsWritten is not inductive: a handle that is closed puts back the  *)
(* bytes that it has, so until then these must be what was written; it     *)
(* must be the only handle that will do so; and a file that is removed or  *)
(* moved must not leave another one under its name.                        *)
(***************************************************************************)
Kept(n) ==
    /\ One(files, n)
    /\ Native!Writers(n) = {} => Native!Find(files, n) = meant[n]
    /\ \A h \in Native!Writers(n) : open_files[h].data = meant[n]
    /\ \A g, h \in Native!Writers(n) : g = h

NativeInv ==
    /\ NativeTypes
    /\ meant \in [FileName -> Bytes \cup {Absent}]
    /\ \A n \in FileName \ odd : Kept(n)

(* A step that leaves a name's entries, writers and meaning leaves it kept. *)
LEMMA SameKept ==
    ASSUME NEW n, Kept(n), One(files, n)', Native!Writers(n)' = Native!Writers(n),
           Native!Find(files, n)' = Native!Find(files, n), meant'[n] = meant[n],
           \A h \in Native!Writers(n) : open_files'[h].data = open_files[h].data
    PROVE  Kept(n)'
BY DEF Kept

LEMMA WritersAre ==
    ASSUME open_files \in Seq(Handle), NEW n
    PROVE  /\ Native!Writers(n) \subseteq DOMAIN open_files
           /\ \A h \in Native!Writers(n) : open_files[h] \in Handle
BY DEF Native!Writers

(* Reading and seeking change no handle's name, bytes or mode. *)
LEMMA CursorMoves ==
    ASSUME NativeInv, odd = {}, NEW h \in DOMAIN open_files, NEW f \in Handle,
           open_files' = [open_files EXCEPT ![h] = f], HasRead(f),
           f.name = open_files[h].name, f.data = open_files[h].data,
           f.closed = open_files[h].closed, f.writable = open_files[h].writable,
           UNCHANGED <<files, meant, odd>>
    PROVE  NativeInv'
<1>1. /\ open_files' \in Seq(Handle) /\ DOMAIN open_files' = DOMAIN open_files /\ open_files'[h] = f
      /\ \A g \in DOMAIN open_files : g # h => open_files'[g] = open_files[g]
  BY OneChanged DEF NativeInv, NativeTypes
<1>2. NativeTypes'
  BY <1>1 DEF NativeInv, NativeTypes
<1>3. /\ \A n : Native!Writers(n)' = Native!Writers(n)
      /\ \A g \in DOMAIN open_files : open_files'[g].data = open_files[g].data
  BY <1>1 DEF Native!Writers
<1>4. ASSUME NEW n \in FileName \ odd' PROVE Kept(n)'
  <2>1. Kept(n) /\ One(files, n)' /\ Native!Find(files, n)' = Native!Find(files, n) /\ meant'[n] = meant[n]
    BY DEF NativeInv, Kept, One
  <2>2. Native!Writers(n) \subseteq DOMAIN open_files
    BY DEF Native!Writers
  <2> QED  BY <1>3, <2>1, <2>2, SameKept
<1> QED  BY <1>2, <1>4 DEF NativeInv

LEMMA ReadStep == ASSUME NativeInv, odd = {}, Native!Read PROVE NativeInv'
<1>1. PICK h \in DOMAIN open_files :
        LET f == open_files[h] IN
        /\ ~f.closed /\ f.pos < Len(f.data)
        /\ \/ \E n \in 1 .. STR_CAP :
                LET bytes == Native!Part(Native!Rest(f), n) IN
                open_files' = [open_files EXCEPT ![h].pos = @ + Len(bytes), ![h].got = @ \o bytes]
           \/ open_files' = [open_files EXCEPT ![h] = Native!Took(f, Native!Part(Native!Line(f), STR_CAP), Native!LineEnd(f))]
  BY DEF Native!Read
<1> DEFINE f == open_files[h]
<1>2. f \in Handle /\ HasRead(f) /\ f.pos < Len(f.data) /\ UNCHANGED <<files, meant, odd>>
  <2>1. f \in Handle /\ HasRead(f)
    BY DEF NativeInv, NativeTypes
  <2>2. f.pos < Len(f.data)
    BY <1>1
  <2>3. UNCHANGED <<files, meant, odd>>
    BY DEF Native!Read
  <2> QED  BY <2>1, <2>2, <2>3
<1>3. ASSUME NEW n \in 1 .. STR_CAP,
             open_files' = [open_files EXCEPT ![h].pos = @ + Len(Native!Part(Native!Rest(f), n)),
                                              ![h].got = @ \o Native!Part(Native!Rest(f), n)]
      PROVE  NativeInv'
  <2> DEFINE bytes == Native!Part(Native!Rest(f), n)
             g == [f EXCEPT !.pos = @ + Len(bytes), !.got = @ \o bytes]
  <2>1. open_files' = [open_files EXCEPT ![h] = g]
    BY <1>2, <1>3 DEF Handle, NativeInv, NativeTypes
  <2>2. n \in Nat
    BY NativeAssumption
  <2>3. g \in Handle /\ HasRead(g) /\ g.name = f.name /\ g.data = f.data
        /\ g.closed = f.closed /\ g.writable = f.writable
    <3> HIDE DEF f
    <3>1. f \in Handle /\ HasRead(f) /\ f.pos < Len(f.data)
      BY <1>2
    <3> QED  BY <2>2, <3>1, BytesRead
  <2> HIDE DEF g
  <2> QED  BY <1>2, <2>1, <2>3, CursorMoves
<1>4. ASSUME open_files' = [open_files EXCEPT ![h] = Native!Took(f, Native!Part(Native!Line(f), STR_CAP), Native!LineEnd(f))]
      PROVE  NativeInv'
  <2> DEFINE g == Native!Took(f, Native!Part(Native!Line(f), STR_CAP), Native!LineEnd(f))
  <2>1. g \in Handle /\ HasRead(g) /\ g.name = f.name /\ g.data = f.data
        /\ g.closed = f.closed /\ g.writable = f.writable
    BY <1>2, LineRead
  <2> QED  BY <1>2, <1>4, <2>1, CursorMoves
<1> QED  BY <1>1, <1>3, <1>4

LEMMA SeekStep == ASSUME NativeInv, odd = {}, Native!Seek PROVE NativeInv'
<1>1. PICK h \in DOMAIN open_files : \E p \in 0 .. Len(open_files[h].data) :
        open_files' = [open_files EXCEPT ![h].pos = p, ![h].got = SubSeq(open_files[h].data, 1, p)]
  BY DEF Native!Seek
<1>2. PICK p \in 0 .. Len(open_files[h].data) :
        open_files' = [open_files EXCEPT ![h].pos = p, ![h].got = SubSeq(open_files[h].data, 1, p)]
  BY <1>1
<1> DEFINE f == open_files[h]
           g == [f EXCEPT !.pos = p, !.got = SubSeq(f.data, 1, p)]
<1>3. f \in Handle /\ UNCHANGED <<files, meant, odd>>
  BY DEF NativeInv, NativeTypes, Native!Seek
<1>4. open_files' = [open_files EXCEPT ![h] = g]
  BY <1>2, <1>3 DEF Handle, NativeInv, NativeTypes
<1>5. SubSeq(f.data, 1, p) \in Bytes /\ p \in Nat
  BY <1>3 DEF Handle, Bytes
<1>6. g \in Handle /\ HasRead(g) /\ g.name = f.name /\ g.data = f.data
      /\ g.closed = f.closed /\ g.writable = f.writable
  <2> HIDE DEF f
  <2>1. /\ g \in Handle /\ g.name = f.name /\ g.data = f.data /\ g.pos = p /\ g.got = SubSeq(f.data, 1, p)
        /\ g.closed = f.closed /\ g.writable = f.writable
    BY <1>3, <1>5 DEF Handle
  <2>2. Len(f.data) \in Nat /\ p <= Len(f.data)
    BY <1>3, <1>5 DEF f, Handle, Bytes
  <2> QED  BY <2>1, <2>2 DEF HasRead
<1> HIDE DEF g
<1> QED  BY <1>3, <1>4, <1>6, CursorMoves

(* What is written is meant, and is in the only handle that will put it back. *)
LEMMA WriteStep == ASSUME NativeInv, odd = {}, Native!Write PROVE NativeInv'
<1>1. PICK h \in DOMAIN open_files : \E c \in Native!Byte :
        /\ open_files[h].writable /\ ~open_files[h].closed
        /\ open_files' = [open_files EXCEPT ![h].data = Append(@, c)]
        /\ meant' = IF open_files[h].name = NoName THEN meant
                    ELSE [meant EXCEPT ![open_files[h].name] = Append(Native!Or(@, <<>>), c)]
  BY DEF Native!Write
<1>2. PICK c \in Native!Byte :
        /\ open_files[h].writable /\ ~open_files[h].closed
        /\ open_files' = [open_files EXCEPT ![h].data = Append(@, c)]
        /\ meant' = IF open_files[h].name = NoName THEN meant
                    ELSE [meant EXCEPT ![open_files[h].name] = Append(Native!Or(@, <<>>), c)]
  BY <1>1
<1> DEFINE f == open_files[h]
           g == [f EXCEPT !.data = Append(@, c)]
<1>3. f \in Handle /\ HasRead(f) /\ UNCHANGED <<files, odd>> /\ open_files \in Seq(Handle)
  BY DEF NativeInv, NativeTypes, Native!Write
<1>4. open_files' = [open_files EXCEPT ![h] = g]
  BY <1>2, <1>3 DEF Handle
<1>5. /\ f.data \in Bytes /\ f.pos \in Nat /\ f.got \in Bytes /\ Append(f.data, c) \in Bytes
      /\ Len(f.data) \in Nat /\ Len(Append(f.data, c)) = Len(f.data) + 1
  BY <1>3 DEF Handle, Bytes
<1>6. /\ g \in Handle /\ g.name = f.name /\ g.data = Append(f.data, c) /\ g.pos = f.pos /\ g.got = f.got
      /\ g.closed = f.closed /\ g.writable = f.writable
  BY <1>3, <1>5 DEF Handle
<1>7. HasRead(g)
  <2>1. ASSUME Native!LinesFit(Append(f.data, c)) PROVE f.got = SubSeq(Append(f.data, c), 1, f.pos)
    <3>1. f.got = SubSeq(f.data, 1, f.pos) /\ f.pos <= Len(f.data)
      BY <1>3, <1>5, <2>1, FitBefore DEF HasRead
    <3> DEFINE s == SubSeq(Append(f.data, c), 1, f.pos)
    <3>2. s \in Bytes /\ Len(s) = f.pos /\ \A i \in 1 .. f.pos : s[i] = f.data[i]
      BY <1>5, <3>1 DEF Bytes
    <3>3. Len(f.got) = f.pos /\ \A i \in 1 .. f.pos : f.got[i] = f.data[i]
      BY <1>5, <3>1 DEF Bytes
    <3> HIDE DEF s
    <3>4. f.got = s
      BY <1>5, <3>2, <3>3, SameSequence DEF Bytes
    <3> QED  BY <3>4 DEF s
  <2> QED  BY <1>3, <1>5, <1>6, <2>1 DEF HasRead
<1> HIDE DEF g
<1>8. /\ open_files' \in Seq(Handle) /\ DOMAIN open_files' = DOMAIN open_files /\ open_files'[h] = g
      /\ \A k \in DOMAIN open_files : k # h => open_files'[k] = open_files[k]
  BY <1>3, <1>4, <1>6, OneChanged
<1>9. NativeTypes'
  BY <1>3, <1>7, <1>8 DEF NativeInv, NativeTypes
<1>10. \A n : Native!Writers(n)' = Native!Writers(n)
  BY <1>6, <1>8 DEF Native!Writers
<1>11. ASSUME f.name # NoName
       PROVE  /\ f.name \in FileName /\ meant[f.name] = f.data
              /\ meant' \in [FileName -> Bytes \cup {Absent}]
              /\ meant'[f.name] = Append(f.data, c)
              /\ \A n \in FileName : n # f.name => meant'[n] = meant[n]
  <2>1. f.name \in FileName
    BY <1>3, <1>11 DEF Handle
  <2>2. h \in Native!Writers(f.name)
    BY <1>2 DEF Native!Writers
  <2>3. meant[f.name] = f.data
    BY <2>1, <2>2 DEF NativeInv, Kept
  <2>4. Native!Or(meant[f.name], <<>>) = f.data
    BY <1>5, <2>3, NativeAssumption DEF Native!Or, Bytes
  <2>5. meant' = [meant EXCEPT ![f.name] = Append(f.data, c)]
    BY <1>2, <1>11, <2>4
  <2> QED  BY <1>5, <2>1, <2>3, <2>5 DEF NativeInv
<1>12. meant' \in [FileName -> Bytes \cup {Absent}]
  BY <1>2, <1>11 DEF NativeInv
<1>13. ASSUME NEW n \in FileName \ odd' PROVE Kept(n)'
  <2>1. Kept(n) /\ One(files, n)' /\ Native!Find(files, n)' = Native!Find(files, n)
    BY <1>3 DEF NativeInv, Kept, One
  <2>2. CASE f.name = n
    <3>1. f.name # NoName
      BY <2>2, NativeAssumption
    <3>2. h \in Native!Writers(n)
      BY <1>2, <2>2 DEF Native!Writers
    <3>3. \A k \in Native!Writers(n)' : k = h
      BY <1>10, <2>1, <3>2 DEF Kept
    <3>4. meant'[n] = open_files'[h].data
      BY <1>6, <1>8, <1>11, <2>2, <3>1
    <3>5. Native!Writers(n)' # {}
      BY <1>10, <3>2
    <3> QED  BY <2>1, <3>3, <3>4, <3>5 DEF Kept
  <2>3. CASE f.name # n
    <3>1. h \notin Native!Writers(n)
      BY <2>3 DEF Native!Writers
    <3>2. \A k \in Native!Writers(n) : open_files'[k].data = open_files[k].data
      BY <1>8, <3>1 DEF Native!Writers
    <3>3. meant'[n] = meant[n]
      BY <1>2, <1>11, <2>3
    <3> QED  BY <1>10, <2>1, <3>2, <3>3, SameKept
  <2> QED  BY <2>2, <2>3
<1> QED  BY <1>9, <1>12, <1>13 DEF NativeInv
(* Steps that change the files only: the names they touch are odd from then *)
(* on, or have no writer and what is meant is what is found.               *)
LEMMA FilesChange ==
    ASSUME NativeInv, odd = {}, open_files' = open_files,
           files' \in Seq(FileEntry), meant' \in [FileName -> Bytes \cup {Absent}],
           \A n \in FileName \ odd' :
                \/ /\ One(files, n)' /\ Native!Find(files, n)' = Native!Find(files, n)
                   /\ meant'[n] = meant[n]
                \/ /\ One(files, n)' /\ Native!Writers(n) = {} /\ Native!Find(files, n)' = meant'[n]
    PROVE  NativeInv'
<1>1. NativeTypes'
  BY DEF NativeInv, NativeTypes
<1>2. \A n : Native!Writers(n)' = Native!Writers(n)
  BY DEF Native!Writers
<1>3. ASSUME NEW n \in FileName \ odd' PROVE Kept(n)'
  <2>1. Kept(n)
    BY DEF NativeInv
  <2>2. CASE /\ One(files, n)' /\ Native!Find(files, n)' = Native!Find(files, n)
             /\ meant'[n] = meant[n]
    BY <1>2, <2>1, <2>2, SameKept
  <2>3. CASE One(files, n)' /\ Native!Writers(n) = {} /\ Native!Find(files, n)' = meant'[n]
    BY <1>2, <2>3 DEF Kept
  <2> QED  BY <2>2, <2>3
<1> QED  BY <1>1, <1>3 DEF NativeInv

LEMMA FetchStep == ASSUME NativeInv, odd = {}, Native!Fetch PROVE NativeInv'
<1>1. PICK save \in FileName : \E data \in {<<>>, <<EndOfLine>>} :
        /\ files' = Append(files, [name |-> save, data |-> data])
        /\ odd' = IF Native!At(files, save) # {} \/ Native!Writers(save) # {} THEN odd \cup {save} ELSE odd
        /\ meant' = [meant EXCEPT ![save] = data]
  BY DEF Native!Fetch
<1>2. PICK data \in {<<>>, <<EndOfLine>>} :
        /\ files' = Append(files, [name |-> save, data |-> data])
        /\ odd' = IF Native!At(files, save) # {} \/ Native!Writers(save) # {} THEN odd \cup {save} ELSE odd
        /\ meant' = [meant EXCEPT ![save] = data]
  BY <1>1
<1>3. data \in Bytes
  <2>1. EndOfLine \in Native!Byte
    BY DEF Native!Byte
  <2>2. <<>> \in Bytes
    BY DEF Bytes
  <2>3. <<EndOfLine>> \in Bytes
    BY <2>1 DEF Bytes
  <2> QED  BY <1>2, <2>2, <2>3
<1> DEFINE e == [name |-> save, data |-> data]
<1>4. e \in FileEntry /\ e.name = save /\ e.data = data /\ files \in Seq(FileEntry) /\ open_files' = open_files
  BY <1>3 DEF FileEntry, NativeInv, NativeTypes, Native!Fetch
<1> HIDE DEF e
<1>5. /\ files' \in Seq(FileEntry)
      /\ Native!At(files, save) = {} => One(files', save) /\ Native!Find(files', save) = data
      /\ \A n : n # save /\ One(files, n) => One(files', n) /\ Native!Find(files', n) = Native!Find(files, n)
  BY <1>2, <1>4, AppendIs DEF e
<1>6. meant' \in [FileName -> Bytes \cup {Absent}] /\ meant'[save] = data
      /\ \A n \in FileName : n # save => meant'[n] = meant[n]
  BY <1>2, <1>3 DEF NativeInv
<1>7. \A n \in FileName : One(files, n)
  BY DEF NativeInv, Kept
<1>8. ASSUME NEW n \in FileName \ odd'
      PROVE  \/ /\ One(files', n) /\ Native!Find(files', n) = Native!Find(files, n)
                /\ meant'[n] = meant[n]
             \/ /\ One(files', n) /\ Native!Writers(n) = {} /\ Native!Find(files', n) = meant'[n]
  <2>1. CASE n = save
    BY <1>2, <1>5, <1>6, <2>1
  <2>2. CASE n # save
    BY <1>5, <1>6, <1>7, <2>2
  <2> QED  BY <2>1, <2>2
<1> QED  BY <1>4, <1>5, <1>6, <1>8, FilesChange DEF One

LEMMA RemoveStep == ASSUME NativeInv, odd = {}, Native!Remove PROVE NativeInv'
<1>1. PICK name \in FileName :
        /\ Native!At(files, name) # {}
        /\ files' = Native!Without(name)
        /\ meant' = [meant EXCEPT ![name] = Absent]
        /\ odd' = IF Native!Writers(name) # {} THEN odd \cup {name} ELSE odd
  BY DEF Native!Remove
<1>2. \A n \in FileName : One(files, n)
  BY DEF NativeInv, Kept
<1>3. files \in Seq(FileEntry) /\ open_files' = open_files
  BY DEF NativeInv, NativeTypes, Native!Remove
<1>4. /\ files' \in Seq(FileEntry)
      /\ Native!At(files', name) = {}
      /\ \A n : n # name /\ One(files, n) => One(files', n) /\ Native!Find(files', n) = Native!Find(files, n)
  BY <1>1, <1>2, <1>3, WithoutIs
<1>5. One(files', name) /\ Native!Find(files', name) = Absent
  BY <1>4, FindIs DEF One
<1>6. meant' \in [FileName -> Bytes \cup {Absent}] /\ meant'[name] = Absent
      /\ \A n \in FileName : n # name => meant'[n] = meant[n]
  BY <1>1 DEF NativeInv
<1>7. ASSUME NEW n \in FileName \ odd'
      PROVE  \/ /\ One(files', n) /\ Native!Find(files', n) = Native!Find(files, n)
                /\ meant'[n] = meant[n]
             \/ /\ One(files', n) /\ Native!Writers(n) = {} /\ Native!Find(files', n) = meant'[n]
  <2>1. CASE n = name
    BY <1>1, <1>5, <1>6, <2>1
  <2>2. CASE n # name
    BY <1>2, <1>4, <1>6, <2>2
  <2> QED  BY <2>1, <2>2
<1> QED  BY <1>3, <1>4, <1>6, <1>7, FilesChange DEF One

LEMMA RenameStep == ASSUME NativeInv, odd = {}, Native!Rename PROVE NativeInv'
<1>1. PICK old \in FileName : \E new \in FileName :
        /\ Native!At(files, old) # {}
        /\ files' = Native!Put(Native!Without(old), new, Native!Find(files, old))
        /\ meant' = [meant EXCEPT ![old] = IF old = new THEN @ ELSE Absent, ![new] = meant[old]]
        /\ odd' = IF Native!Writers(old) \cup Native!Writers(new) # {}
                  THEN odd \cup {old, new} ELSE odd
  BY DEF Native!Rename
<1>2. PICK new \in FileName :
        /\ Native!At(files, old) # {}
        /\ files' = Native!Put(Native!Without(old), new, Native!Find(files, old))
        /\ meant' = [meant EXCEPT ![old] = IF old = new THEN @ ELSE Absent, ![new] = meant[old]]
        /\ odd' = IF Native!Writers(old) \cup Native!Writers(new) # {}
                  THEN odd \cup {old, new} ELSE odd
  BY <1>1
<1> DEFINE w == Native!Without(old)
           d == Native!Find(files, old)
<1>3. \A n \in FileName : One(files, n)
  BY DEF NativeInv, Kept
<1>4. files \in Seq(FileEntry) /\ open_files' = open_files
  BY DEF NativeInv, NativeTypes, Native!Rename
<1>5. /\ w \in Seq(FileEntry)
      /\ Native!At(w, old) = {}
      /\ \A n : n # old /\ One(files, n) => One(w, n) /\ Native!Find(w, n) = Native!Find(files, n)
  BY <1>2, <1>3, <1>4, WithoutIs
<1>6. d \in Bytes
  BY <1>2, <1>4, FindIs
<1> HIDE DEF w, d
<1>7. One(w, old) /\ One(w, new) /\ Native!Find(w, old) = Absent
  <2>1. One(w, old) /\ Native!Find(w, old) = Absent
    BY <1>5, FindIs DEF One
  <2> QED  BY <1>3, <1>5, <2>1
<1>8. /\ files' \in Seq(FileEntry)
      /\ One(files', new) /\ Native!Find(files', new) = d
      /\ \A n : n # new /\ One(w, n) => One(files', n) /\ Native!Find(files', n) = Native!Find(w, n)
  BY <1>2, <1>5, <1>6, <1>7, PutIs DEF w, d
<1>9. /\ meant' \in [FileName -> Bytes \cup {Absent}] /\ meant'[new] = meant[old]
      /\ old # new => meant'[old] = Absent
      /\ \A n \in FileName : n # old /\ n # new => meant'[n] = meant[n]
  <2>1. meant \in [FileName -> Bytes \cup {Absent}] /\ meant[old] \in Bytes \cup {Absent}
    BY DEF NativeInv
  <2> QED  BY <1>2, <2>1
<1>10. Native!Writers(old) = {} => d = meant[old]
  BY DEF NativeInv, Kept, d
<1>11. ASSUME NEW n \in FileName \ odd'
       PROVE  \/ /\ One(files', n) /\ Native!Find(files', n) = Native!Find(files, n)
                 /\ meant'[n] = meant[n]
              \/ /\ One(files', n) /\ Native!Writers(n) = {} /\ Native!Find(files', n) = meant'[n]
  <2>1. CASE n = new
    BY <1>2, <1>8, <1>9, <1>10, <2>1
  <2>2. CASE n # new /\ n = old
    BY <1>2, <1>7, <1>8, <1>9, <2>2
  <2>3. CASE n # new /\ n # old
    BY <1>3, <1>5, <1>8, <1>9, <2>3
  <2> QED  BY <2>1, <2>2, <2>3
<1> QED  BY <1>4, <1>8, <1>9, <1>11, FilesChange DEF One

LEMMA ContextStep == ASSUME NativeInv, odd = {}, Native!SetContext PROVE NativeInv'
<1>1. /\ files' = <<>> /\ open_files' = open_files /\ meant' = [n \in FileName |-> Absent]
      /\ odd' = {n \in FileName : Native!Writers(n) # {}}
  BY DEF Native!SetContext
<1>2. files' \in Seq(FileEntry) /\ \A n : Native!At(files', n) = {}
  BY <1>1 DEF Native!At
<1>3. \A n : One(files', n) /\ Native!Find(files', n) = Absent
  BY <1>2, FindIs DEF One
<1>4. meant' \in [FileName -> Bytes \cup {Absent}] /\ \A n \in FileName : meant'[n] = Absent
  BY <1>1
<1>5. \A n \in FileName \ odd' : Native!Writers(n) = {}
  BY <1>1
<1> QED  BY <1>1, <1>2, <1>3, <1>4, <1>5, FilesChange DEF One

-----------------------------------------------------------------------------
(* Closing a handle for writing puts back what was meant. *)
LEMMA CloseStep == ASSUME NativeInv, odd = {}, Native!Close PROVE NativeInv'
<1>1. PICK h \in DOMAIN open_files :
        /\ files' = Native!PutBack(h)
        /\ open_files' = [open_files EXCEPT ![h].closed = TRUE]
        /\ odd' = IF open_files[h].closed /\ open_files[h].writable THEN odd \cup {open_files[h].name} ELSE odd
  BY DEF Native!Close
<1> DEFINE f == open_files[h]
           g == [f EXCEPT !.closed = TRUE]
<1>2. f \in Handle /\ HasRead(f) /\ meant' = meant /\ open_files \in Seq(Handle) /\ files \in Seq(FileEntry)
  BY DEF NativeInv, NativeTypes, Native!Close
<1>3. open_files' = [open_files EXCEPT ![h] = g]
  BY <1>1, <1>2 DEF Handle
<1>4. /\ g \in Handle /\ g.name = f.name /\ g.data = f.data /\ g.pos = f.pos /\ g.got = f.got
      /\ g.closed /\ g.writable = f.writable
  BY <1>2 DEF Handle
<1>5. HasRead(g)
  BY <1>2, <1>4 DEF HasRead
<1> HIDE DEF g
<1>6. /\ open_files' \in Seq(Handle) /\ DOMAIN open_files' = DOMAIN open_files /\ open_files'[h] = g
      /\ \A k \in DOMAIN open_files : k # h => open_files'[k] = open_files[k]
  BY <1>2, <1>3, <1>4, OneChanged
<1>7. \A n : Native!Writers(n)' = Native!Writers(n) \ {h}
  BY <1>4, <1>6 DEF Native!Writers
<1>8. \A n \in FileName : One(files, n)
  BY DEF NativeInv, Kept
<1>9. CASE f.writable /\ f.name # NoName
  <2>1. f.name \in FileName /\ f.data \in Bytes
    BY <1>2, <1>9 DEF Handle
  <2>2. /\ files' \in Seq(FileEntry)
        /\ One(files', f.name) /\ Native!Find(files', f.name) = f.data
        /\ \A n : n # f.name /\ One(files, n) => One(files', n) /\ Native!Find(files', n) = Native!Find(files, n)
    BY <1>1, <1>2, <1>8, <1>9, <2>1, PutIs DEF Native!PutBack
  <2>3. NativeTypes'
    BY <1>5, <1>6, <2>2 DEF NativeInv, NativeTypes
  <2>4. ASSUME NEW n \in FileName \ odd' PROVE Kept(n)'
    <3>1. Kept(n)
      BY DEF NativeInv
    <3>2. CASE n = f.name
      <4>1. h \in Native!Writers(n)
        BY <1>1, <1>9, <2>4, <3>2 DEF Native!Writers
      <4>2. f.data = meant[n] /\ Native!Writers(n)' = {}
        BY <1>7, <3>1, <4>1 DEF Kept
      <4> QED  BY <1>2, <2>2, <3>2, <4>2 DEF Kept, One
    <3>3. CASE n # f.name
      <4>1. h \notin Native!Writers(n) /\ Native!Writers(n)' = Native!Writers(n)
        BY <1>7, <3>3 DEF Native!Writers
      <4>2. \A k \in Native!Writers(n) : open_files'[k].data = open_files[k].data
        BY <1>6, <4>1 DEF Native!Writers
      <4>3. One(files, n)' /\ Native!Find(files, n)' = Native!Find(files, n)
        BY <1>8, <2>2, <3>3 DEF One
      <4> QED  BY <1>2, <3>1, <4>1, <4>2, <4>3, SameKept
    <3> QED  BY <3>2, <3>3
  <2> QED  BY <1>2, <2>3, <2>4 DEF NativeInv
<1>10. CASE ~(f.writable /\ f.name # NoName)
  <2>1. files' = files
    BY <1>1, <1>10 DEF Native!PutBack
  <2>2. NativeTypes'
    BY <1>2, <1>5, <1>6, <2>1 DEF NativeInv, NativeTypes
  <2>3. ASSUME NEW n \in FileName \ odd' PROVE Kept(n)'
    <3>1. Kept(n) /\ n # NoName
      BY NativeAssumption DEF NativeInv
    <3>2. h \notin Native!Writers(n) /\ Native!Writers(n)' = Native!Writers(n)
      BY <1>7, <1>10, <3>1 DEF Native!Writers
    <3>3. \A k \in Native!Writers(n) : open_files'[k].data = open_files[k].data
      BY <1>6, <3>2 DEF Native!Writers
    <3>4. One(files, n)' /\ Native!Find(files, n)' = Native!Find(files, n)
      BY <2>1, <3>1 DEF Kept, One
    <3> QED  BY <1>2, <3>1, <3>2, <3>3, <3>4, SameKept
  <2> QED  BY <1>2, <2>2, <2>3 DEF NativeInv
<1> QED  BY <1>9, <1>10

-----------------------------------------------------------------------------
(* A handle that is opened has read nothing yet. *)
LEMMA OpenedIs ==
    ASSUME files \in Seq(FileEntry), NEW name \in FileName \cup {NoName}, NEW mode
    PROVE  LET f == Native!Opened(name, mode) IN
           /\ f \in Handle /\ HasRead(f) /\ f.name = name /\ ~f.closed
           /\ f.writable = Native!Writes(mode)
           /\ f.data = IF mode \in {"r", "a"} THEN Native!Or(Native!Find(files, name), <<>>) ELSE <<>>
<1> DEFINE f == Native!Opened(name, mode)
           d == IF mode \in {"r", "a"} THEN Native!Or(Native!Find(files, name), <<>>) ELSE <<>>
<1>1. <<>> \in Bytes
  BY DEF Bytes
<1>2. Native!Or(Native!Find(files, name), <<>>) \in Bytes
  BY <1>1, FindIs DEF Native!Or
<1>3. d \in Bytes
  BY <1>1, <1>2
<1>4. Native!Writes(mode) \in BOOLEAN
  BY DEF Native!Writes
<1>5. f = [name |-> name, data |-> d, pos |-> 0, closed |-> FALSE, writable |-> Native!Writes(mode), got |-> <<>>]
  BY DEF Native!Opened
<1> HIDE DEF d, f
<1>6. /\ f \in Handle /\ f.name = name /\ f.data = d /\ f.pos = 0 /\ f.got = <<>>
      /\ ~f.closed /\ f.writable = Native!Writes(mode)
  BY <1>1, <1>3, <1>4, <1>5 DEF Handle
<1>7. SubSeq(d, 1, 0) = <<>> /\ Len(d) \in Nat
  BY <1>3 DEF Bytes
<1> QED  BY <1>6, <1>7 DEF HasRead, d, f

LEMMA OpenStep ==
    ASSUME NativeInv, odd = {}, NEW name \in FileName \cup {NoName}, NEW mode, Native!IoOpen(name, mode)
    PROVE  NativeInv'
<1> DEFINE f == Native!Opened(name, mode)
           written == Native!Writes(mode) /\ name # NoName
           room == Len(open_files) < MAX_OPEN
           N == Len(open_files) + 1
<1>1. files \in Seq(FileEntry) /\ open_files \in Seq(Handle) /\ \A n \in FileName : One(files, n) /\ Kept(n)
  BY DEF NativeInv, NativeTypes, Kept
<1>2. /\ f \in Handle /\ HasRead(f) /\ f.name = name /\ ~f.closed /\ f.writable = Native!Writes(mode)
      /\ f.data = IF mode \in {"r", "a"} THEN Native!Or(Native!Find(files, name), <<>>) ELSE <<>>
  BY <1>1, OpenedIs
<1>3. /\ files' = IF written /\ Native!At(files, name) = {} THEN Native!Put(files, name, f.data) ELSE files
      /\ open_files' = IF room THEN Append(open_files, f) ELSE open_files
      /\ meant' = IF written
                  THEN [meant EXCEPT ![name] = IF mode = "a" \/ ~room THEN Native!Or(@, <<>>) ELSE <<>>]
                  ELSE meant
      /\ odd' = IF name # NoName /\ (mode = "r+" \/ (Native!Writes(mode) /\ Native!Writers(name) # {}))
                THEN odd \cup {name} ELSE odd
  <2>1. Len(open_files) >= MAX_OPEN <=> ~room
    <3>1. Len(open_files) \in Nat /\ MAX_OPEN \in Nat
      BY <1>1, NativeAssumption
    <3> QED  BY <3>1
  <2> QED  BY <2>1, Zenon DEF Native!IoOpen
<1> HIDE DEF f
<1>4. f.data \in Bytes /\ <<>> \in Bytes
  BY <1>2 DEF Handle, Bytes
<1>5. /\ files' \in Seq(FileEntry)
      /\ \A n \in FileName : One(files', n)
      /\ written /\ Native!At(files, name) = {} => Native!Find(files', name) = f.data
      /\ ~(written /\ Native!At(files, name) = {}) => Native!Find(files', name) = Native!Find(files, name)
      /\ \A n \in FileName : n # name => Native!Find(files', n) = Native!Find(files, n)
  <2>1. CASE written /\ Native!At(files, name) = {}
    <3>1. name \in FileName /\ files' = Native!Put(files, name, f.data)
      BY <1>3, <2>1
    <3>2. /\ files' \in Seq(FileEntry)
          /\ One(files', name) /\ Native!Find(files', name) = f.data
          /\ \A n : n # name /\ One(files, n) => One(files', n) /\ Native!Find(files', n) = Native!Find(files, n)
      BY <1>1, <1>4, <3>1, PutIs
    <3> QED  BY <1>1, <2>1, <3>2
  <2>2. CASE ~(written /\ Native!At(files, name) = {})
    BY <1>1, <1>3, <2>2
  <2> QED  BY <2>1, <2>2
<1>6. /\ open_files' \in Seq(Handle) /\ \A k \in DOMAIN open_files' : HasRead(open_files'[k])
      /\ \A k \in DOMAIN open_files : k \in DOMAIN open_files' /\ open_files'[k] = open_files[k]
      /\ room => /\ DOMAIN open_files' = DOMAIN open_files \cup {N} /\ open_files'[N] = f
                 /\ N \notin DOMAIN open_files
      /\ ~room => open_files' = open_files
  <2>1. CASE room
    <3>1. open_files' = Append(open_files, f)
      BY <1>3, <2>1
    <3> HIDE DEF room
    <3>2. /\ open_files' \in Seq(Handle)
          /\ DOMAIN open_files' = DOMAIN open_files \cup {N} /\ N \notin DOMAIN open_files
          /\ open_files'[N] = f /\ \A k \in DOMAIN open_files : open_files'[k] = open_files[k]
      BY <1>1, <1>2, <3>1, OneMore
    <3> HIDE DEF N
    <3> QED  BY <1>2, <2>1, <3>2 DEF NativeInv, NativeTypes
  <2>2. CASE ~room
    BY <1>1, <1>3, <2>2 DEF NativeInv, NativeTypes
  <2> QED  BY <2>1, <2>2
<1>7. NativeTypes'
  BY <1>5, <1>6 DEF NativeTypes
<1>8. ASSUME written
      PROVE  /\ name \in FileName
             /\ meant[name] \in Bytes \cup {Absent}
             /\ Native!Or(meant[name], <<>>) \in Bytes
             /\ meant' \in [FileName -> Bytes \cup {Absent}]
             /\ meant'[name] = IF mode = "a" \/ ~room THEN Native!Or(meant[name], <<>>) ELSE <<>>
             /\ \A n \in FileName : n # name => meant'[n] = meant[n]
  <2>1. name \in FileName /\ meant \in [FileName -> Bytes \cup {Absent}]
    BY <1>8 DEF NativeInv
  <2>2. meant[name] \in Bytes \cup {Absent}
    BY <2>1
  <2>3. Native!Or(meant[name], <<>>) \in Bytes
    BY <1>4, <2>2 DEF Native!Or
  <2>4. meant' = [meant EXCEPT ![name] = IF mode = "a" \/ ~room THEN Native!Or(meant[name], <<>>) ELSE <<>>]
    BY <1>3, <1>8
  <2> HIDE DEF room
  <2> QED  BY <1>4, <2>1, <2>2, <2>3, <2>4
<1>9. meant' \in [FileName -> Bytes \cup {Absent}]
  BY <1>3, <1>8 DEF NativeInv
<1> HIDE DEF room, N
<1>10. ASSUME NEW n \in FileName \ odd', ~(written /\ n = name) PROVE Kept(n)'
  <2>1. f \in Handle /\ ~(f.name = n /\ f.writable)
    BY <1>2, <1>10, NativeAssumption
  <2>2. Native!Writers(n)' = Native!Writers(n)
    BY <1>6, <2>1 DEF Native!Writers
  <2>3. \A k \in Native!Writers(n) : open_files'[k].data = open_files[k].data
    BY <1>6 DEF Native!Writers
  <2>4. meant'[n] = meant[n] /\ Native!Find(files, n)' = Native!Find(files, n) /\ One(files, n)'
    <3>1. meant'[n] = meant[n]
      BY <1>3, <1>8, <1>10
    <3> QED  BY <1>5, <1>10, <3>1 DEF One
  <2> QED  BY <1>1, <2>2, <2>3, <2>4, SameKept
<1>11. ASSUME NEW n \in FileName \ odd', written, n = name PROVE Kept(n)'
  <2>1. mode # "r+" /\ Native!Writers(n) = {}
    BY <1>3, <1>11
  <2>2. Native!Find(files, n) = meant[n] /\ meant[n] \in Bytes \cup {Absent}
    BY <1>1, <1>8, <1>11, <2>1 DEF Kept
  <2>3. mode # "r"
    BY <1>11 DEF Native!Writes
  <2>4. f.data = IF mode = "a" THEN Native!Or(meant[n], <<>>) ELSE <<>>
    BY <1>2, <1>11, <2>2, <2>3
  <2>5. One(files, n)'
    BY <1>5 DEF One
  <2>6. CASE room
    <3>1. Native!Writers(n)' = {N}
      BY <1>2, <1>6, <1>11, <2>1, <2>6 DEF Native!Writers
    <3>2. open_files'[N].data = meant'[n]
      BY <1>6, <1>8, <1>11, <2>4, <2>6
    <3> QED  BY <2>5, <3>1, <3>2 DEF Kept
  <2>7. CASE ~room
    <3>1. Native!Writers(n)' = {}
      BY <1>6, <2>1, <2>7 DEF Native!Writers
    <3>2. meant'[n] = Native!Or(meant[n], <<>>)
      BY <1>8, <1>11, <2>7
    <3>3. CASE Native!At(files, n) = {}
      <4>1. meant[n] = Absent
        BY <1>1, <2>2, <3>3, FindIs
      <4>2. f.data = <<>> /\ meant'[n] = <<>>
        BY <2>4, <3>2, <4>1 DEF Native!Or
      <4>3. Native!Find(files', n) = f.data
        BY <1>5, <1>11, <3>3
      <4> QED  BY <2>5, <3>1, <4>2, <4>3 DEF Kept
    <3>4. CASE Native!At(files, n) # {}
      <4>1. meant[n] \in Bytes /\ meant[n] # Absent
        BY <1>1, <2>2, <3>4, FindIs, NativeAssumption DEF Bytes
      <4>2. meant'[n] = meant[n]
        BY <3>2, <4>1 DEF Native!Or
      <4>3. Native!Find(files', n) = Native!Find(files, n)
        BY <1>5, <1>11, <3>4
      <4> QED  BY <2>2, <2>5, <3>1, <4>2, <4>3 DEF Kept
    <3> QED  BY <3>3, <3>4
  <2> QED  BY <2>6, <2>7
<1> QED  BY <1>7, <1>9, <1>10, <1>11 DEF NativeInv

-----------------------------------------------------------------------------
LEMMA NativeStep == NativeInv /\ [Native!Next]_(Native!vars) => NativeInv'
<1> SUFFICES ASSUME NativeInv, [Native!Next]_(Native!vars) PROVE NativeInv'
  OBVIOUS
<1>1. ASSUME odd = {}, Native!Open PROVE NativeInv'
  <2>1. \E name \in FileName \cup {NoName}, mode \in Native!Mode : Native!IoOpen(name, mode)
    BY <1>1 DEF Native!Open, Native!Mode
  <2> QED  BY <1>1, <2>1, OpenStep
<1>2. CASE UNCHANGED Native!vars
  <2>1. UNCHANGED <<files, open_files, meant, odd>>
    BY <1>2 DEF Native!vars
  <2> QED  BY <2>1 DEF NativeInv, NativeTypes, Kept, One, Native!Writers
<1> QED
  BY <1>1, <1>2, CloseStep, WriteStep, ReadStep, SeekStep, FetchStep, RemoveStep, RenameStep, ContextStep
     DEF Native!Next

LEMMA NativeStart == Native!Init => NativeInv
<1> SUFFICES ASSUME Native!Init PROVE NativeInv
  OBVIOUS
<1>1. PICK name \in FileName, data \in {Absent, <<EndOfLine>>} :
        /\ files = IF data = Absent THEN <<>> ELSE <<[name |-> name, data |-> data]>>
        /\ meant = [n \in FileName |-> IF n = name THEN data ELSE Absent]
  BY DEF Native!Init
<1>2. open_files = <<>> /\ odd = {}
  BY DEF Native!Init
<1>3. <<EndOfLine>> \in Bytes
  <2>1. EndOfLine \in Native!Byte
    BY DEF Native!Byte
  <2> QED  BY <2>1 DEF Bytes
<1>4. \A n : Native!Writers(n) = {}
  BY <1>2 DEF Native!Writers
<1>5. files \in Seq(FileEntry) /\ \A n \in FileName : One(files, n) /\ Native!Find(files, n) = meant[n]
  <2>1. CASE data = Absent
    <3>1. files = <<>> /\ \A n \in FileName : meant[n] = Absent
      BY <1>1, <2>1
    <3>2. files \in Seq(FileEntry) /\ \A n : Native!At(files, n) = {}
      BY <3>1 DEF Native!At
    <3> QED  BY <3>1, <3>2, FindIs DEF One
  <2>2. CASE data # Absent
    <3> DEFINE e == [name |-> name, data |-> data]
    <3>1. e \in FileEntry /\ e.name = name /\ e.data = data
      BY <1>1, <1>3, <2>2 DEF FileEntry
    <3>2. files = <<e>>
      BY <1>1, <2>2
    <3> HIDE DEF e
    <3>3. files \in Seq(FileEntry) /\ DOMAIN files = {1} /\ files[1] = e
      BY <3>1, <3>2
    <3>4. \A n : Native!At(files, n) = IF n = name THEN {1} ELSE {}
      BY <3>1, <3>3 DEF Native!At
    <3>5. \A n : One(files, n)
      BY <3>4 DEF One
    <3>6. Native!Find(files, name) = data /\ \A n : n # name => Native!Find(files, n) = Absent
      BY <3>1, <3>3, <3>4, <3>5, FindIs
    <3> QED  BY <1>1, <3>3, <3>5, <3>6
  <2> QED  BY <2>1, <2>2
<1>6. meant \in [FileName -> Bytes \cup {Absent}]
  BY <1>1, <1>3
<1>7. NativeTypes
  BY <1>2, <1>5 DEF NativeTypes
<1> QED  BY <1>4, <1>5, <1>6, <1>7 DEF NativeInv, Kept

LEMMA NativeHolds == PartsSpec => [](part = "native" => NativeInv)
<1>1. PartsInit => (part = "native" => NativeInv)
  BY Starts, NativeStart
<1>2. (part = "native" => NativeInv) /\ [PartsNext]_allVars => (part = "native" => NativeInv)'
  BY NativeStep, Moves
<1> QED  BY <1>1, <1>2, PTL DEF PartsSpec

(* Under every name is what was written there, once no handle writes it. *)
THEOREM NamesKeepTheirFiles == PartsSpec => []FilesAsWritten
<1>1. (part = "native" => NativeInv) => FilesAsWritten
  BY DEF FilesAsWritten, Native!FilesAsWritten, NativeInv, Kept
<1> QED  BY <1>1, NativeHolds, PTL

(* A handle has read all before its cursor, however it was read. *)
THEOREM PiecesMakeTheWhole == PartsSpec => []ReadsWhole
<1>1. (part = "native" => NativeInv) => ReadsWhole
  BY DEF ReadsWhole, Native!ReadsWhole, NativeInv, NativeTypes, HasRead
<1> QED  BY <1>1, NativeHolds, PTL
-----------------------------------------------------------------------------
(***************************************************************************)
(* The card.  The driver's own proofs (E1000Proofs) hold of the copy of it *)
(* that is instantiated with them; its steps and this module's are one.    *)
(***************************************************************************)
Driver == INSTANCE E1000Proofs

LEMMA SameDriver == [Card!DriverNext]_(Card!driverVars) => [Driver!DriverNext]_(Driver!driverVars)
<1>1. Card!InitDevice <=> Driver!InitDevice
  BY DEF Card!InitDevice, Driver!InitDevice
<1>2. Card!TryReceive <=> Driver!TryReceive
  BY DEF Card!TryReceive, Card!Poll, Card!ScanEmpty, Card!ScanAgain, Card!Timeout, Card!ScanHit, Card!Copy,
         Card!ClearStatus, Card!AdvanceTail, Card!NextDesc, Card!NoFrame, Card!nic,
         Driver!TryReceive, Driver!Poll, Driver!ScanEmpty, Driver!ScanAgain, Driver!Timeout, Driver!ScanHit,
         Driver!Copy, Driver!ClearStatus, Driver!AdvanceTail, Driver!NextDesc, Driver!NoFrame, Driver!nic
<1>3. Card!NicReceive <=> Driver!NicReceive
  BY DEF Card!NicReceive, Card!NicFill, Card!NicStatus, Card!Unread, Card!Desc, Card!NextDesc, Card!Cardinality,
         Driver!NicReceive, Driver!NicFill, Driver!NicStatus, Driver!Unread, Driver!Desc, Driver!NextDesc, Driver!Cardinality
<1>4. Card!Tx!TxInitDevice <=> Driver!Tx!TxInitDevice
  BY DEF Card!Tx!TxInitDevice, Driver!Tx!TxInitDevice
<1>5. Card!Tx!Send <=> Driver!Tx!Send
  BY DEF Card!Tx!Send, Card!Tx!SendStart, Card!Tx!Fill, Card!Tx!WriteDesc, Card!Tx!Kick, Card!Tx!SendDone,
         Card!Tx!SendGivesUp, Card!Tx!NoBytes, Card!Tx!txCard,
         Driver!Tx!Send, Driver!Tx!SendStart, Driver!Tx!Fill, Driver!Tx!WriteDesc, Driver!Tx!Kick,
         Driver!Tx!SendDone, Driver!Tx!SendGivesUp, Driver!Tx!NoBytes, Driver!Tx!txCard
<1>6. Card!Tx!NicTransmit <=> Driver!Tx!NicTransmit
  BY DEF Card!Tx!NicTransmit, Driver!Tx!NicTransmit
<1> QED
  BY <1>1, <1>2, <1>3, <1>4, <1>5, <1>6
  DEF Card!DriverNext, Card!DriverInitDevice, Card!DriverReceive, Card!DriverSend, Card!CardReceive,
      Card!CardTransmit, Card!driverVars, Card!vars, Card!ring,
      Driver!DriverNext, Driver!DriverInitDevice, Driver!DriverReceive, Driver!DriverSend, Driver!CardReceive,
      Driver!CardTransmit, Driver!driverVars, Driver!vars, Driver!ring

LEMMA SameStart == Card!DriverInit => Driver!DriverInit
BY DEF Card!DriverInit, Card!Init, Card!Tx!TxInit, Card!Desc, Card!NoFrame, Card!Tx!TxDesc, Card!Tx!NoBytes,
       Driver!DriverInit, Driver!Init, Driver!Tx!TxInit, Driver!Desc, Driver!NoFrame, Driver!Tx!TxDesc,
       Driver!Tx!NoBytes

LEMMA CardStarts == PartsInit /\ part = "card" => Driver!DupInv /\ Driver!SendInv
BY SameStart, CardAssumption, Driver!DupStart, Driver!SendInit DEF PartsInit, Driver!DriverInit

LEMMA CardMoves ==
    [PartsNext]_allVars /\ part = "card" => [Driver!DriverNext]_(Driver!driverVars)
BY SameDriver DEF PartsNext, allVars, card, Card!driverVars, Card!vars, Card!nic, Card!ring

(* try_receive returns a frame stored in an emptied descriptor at most     *)
(* once, whatever send and init do meanwhile, however many frames the card *)
(* has stored before it looks and wherever its two writes fall.            *)
THEOREM CardReceivesOnce == PartsSpec => []ReturnedOnce
<1> DEFINE Inv == part = "card" => Driver!DupInv
<1>1. PartsInit => Inv
  BY CardStarts
<1>2. Inv /\ [PartsNext]_allVars => Inv'
  BY CardMoves, CardAssumption, Driver!DriverDup, Moves
<1>3. Inv => ReturnedOnce
  BY DEF ReturnedOnce, Card!ReturnedOnce, Driver!DupInv, Driver!ReturnedOnce
<1> QED  BY <1>1, <1>2, <1>3, PTL DEF PartsSpec

(* A send that reports success has put its frame on the wire, whatever was *)
(* left in the ring by the sends before it that gave up.                   *)
THEOREM CardReportsSent == PartsSpec => []ReportedSent
<1> DEFINE Inv == part = "card" => Driver!SendInv
<1>1. PartsInit => Inv
  BY CardStarts
<1>2. Inv /\ [PartsNext]_allVars => Inv'
  BY CardMoves, CardAssumption, Driver!DriverSent, Moves
<1>3. Inv => ReportedSent
  BY DEF ReportedSent, Card!ReportedSent, Card!Tx!ReportedSent,
         Driver!SendInv, Driver!ReportedSent, Driver!Tx!ReportedSent
<1> QED  BY <1>1, <1>2, <1>3, PTL DEF PartsSpec
=============================================================================
