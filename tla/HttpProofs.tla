----------------------------- MODULE HttpProofs -----------------------------
(***************************************************************************)
(* Theorems about the HTTP layer.                                          *)
(*                                                                         *)
(* HttpServer: ServletDispatch serves every path as the history of the     *)
(* calls asks for, for any names, patterns and servlets and any number of  *)
(* changes.  m_data and m_globs are compared with the calls that are still *)
(* alive, those that no later call on the same name has replaced or        *)
(* undone: each entry has its call and each such call its entry, and       *)
(* m_globs keeps them in the order of the calls, although a pattern that   *)
(* is registered again moves to the end.                                   *)
(*                                                                         *)
(* HttpClient: HttpConnectionPool keeps its books.  Connections only       *)
(* change hands (idle list, caller, list of doomed ones), and where a      *)
(* caller stands in doRequest tells what it holds.                         *)
(***************************************************************************)
EXTENDS HttpServer, ConnectionPool, SequenceTheorems, FiniteSetTheorems, WellFoundedInduction, TLAPS

-----------------------------------------------------------------------------
(* ServletDispatch                                                         *)
AdminRec == [op : {"add", "del", "addGlob", "delGlob"}, uri : Uris \cup Globs,
             servlet : Servlets \cup {"404"}]
GlobRec == [uri : Globs, servlet : Servlets]

TablesTyped ==
    /\ admin \in Seq(AdminRec) /\ globs \in Seq(GlobRec)
    /\ exact \in [DOMAIN exact -> Servlets]

NameForm ==
    /\ \A u \in DOMAIN exact : \E k \in AliveNames :
            admin[k].uri = u /\ admin[k].servlet = exact[u]
    /\ \A k \in AliveNames : admin[k].uri \in DOMAIN exact

Unique(gs) == \A i, j \in DOMAIN gs : gs[i].uri = gs[j].uri => i = j
Listed(calls, alive, gs) ==
    /\ Unique(gs)
    /\ \A i \in DOMAIN gs : \E k \in alive :
            calls[k].uri = gs[i].uri /\ calls[k].servlet = gs[i].servlet
    /\ \A k \in alive : \E i \in DOMAIN gs : gs[i].uri = calls[k].uri
    /\ \A i, j \in DOMAIN gs : \A k, l \in alive :
            i < j /\ calls[k].uri = gs[i].uri /\ calls[l].uri = gs[j].uri => k < l
GlobForm == Listed(admin, AliveGlobs, globs)

DispatchInv == TablesTyped /\ NameForm /\ GlobForm

-----------------------------------------------------------------------------
(* The first place of a set of places, and the list without one.           *)

LEMMA MinIsFirst ==
    ASSUME NEW places, places \subseteq Nat, places # {}
    PROVE  Min(places) \in places /\ \A y \in places : Min(places) <= y
<1>1. PICK x \in places : \A y \in places : ~(<<y, x>> \in OpToRel(<, Nat))
  <2> HIDE DEF OpToRel
  <2> QED BY NatLessThanWellFounded, WFMin
<1>2. ASSUME NEW y \in places PROVE x <= y
  <2>1. ~(<<y, x>> \in OpToRel(<, Nat)) /\ x \in Nat /\ y \in Nat
    BY <1>1
  <2>2. ~(y < x)
    BY <2>1 DEF OpToRel
  <2>3. x \in Nat /\ y \in Nat
    OBVIOUS
  <2> QED BY <2>2, <2>3
<1>3. \E z \in places : \A y \in places : z <= y
  BY <1>2
<1> QED BY <1>3 DEF Min

LEMMA Removed ==
    ASSUME NEW G, NEW s \in Seq(G), NEW i \in DOMAIN s
    PROVE  /\ RemoveAt(s, i) \in Seq(G) /\ Len(RemoveAt(s, i)) = Len(s) - 1
           /\ \A j \in DOMAIN RemoveAt(s, i) :
                RemoveAt(s, i)[j] = IF j < i THEN s[j] ELSE s[j + 1]
<1>1. i \in Nat /\ 1 <= i /\ i <= Len(s) /\ Len(s) \in Nat
  OBVIOUS
<1> DEFINE a == SubSeq(s, 1, i - 1)
           b == SubSeq(s, i + 1, Len(s))
<1>2. a \in Seq(G) /\ Len(a) = i - 1 /\ \A j \in 1..(i - 1) : a[j] = s[j]
  BY <1>1
<1>3. b \in Seq(G) /\ Len(b) = Len(s) - i /\ \A j \in 1..(Len(s) - i) : b[j] = s[i + j]
  BY <1>1
<1>4. RemoveAt(s, i) = a \o b
  BY DEF RemoveAt
<1> HIDE DEF a, b
<1>5. a \o b \in Seq(G) /\ Len(a \o b) = Len(s) - 1
  BY <1>1, <1>2, <1>3
<1>6. ASSUME NEW j \in 1..(Len(s) - 1) PROVE (a \o b)[j] = IF j < i THEN s[j] ELSE s[j + 1]
  <2>1. CASE j < i
    BY <1>1, <1>2, <1>3, <2>1
  <2>2. CASE ~(j < i)
    <3>0. j \in 1..(Len(a) + Len(b)) /\ ~(j <= Len(a)) /\ j - (i - 1) \in 1..(Len(s) - i)
      BY <1>1, <1>2, <1>3, <2>2
    <3>1. (a \o b)[j] = b[j - Len(a)] /\ j - Len(a) = j - (i - 1)
      <4>1. \A x \in 1..(Len(a) + Len(b)) : (a \o b)[x] = IF x <= Len(a) THEN a[x] ELSE b[x - Len(a)]
        BY <1>2, <1>3, ConcatProperties
      <4> QED BY <1>2, <3>0, <4>1
    <3>2. b[j - (i - 1)] = s[i + (j - (i - 1))]
      BY <1>3, <3>0, Zenon
    <3>3. i + (j - (i - 1)) = j + 1
      BY <1>1
    <3> QED BY <2>2, <3>1, <3>2, <3>3
  <2> QED BY <2>1, <2>2
<1>7. DOMAIN (a \o b) = 1..(Len(s) - 1)
  BY <1>5
<1> QED BY <1>4, <1>5, <1>6, <1>7

(* The erase of addGlobServlet and delGlobServlett, on a list without two  *)
(* entries of one name: the name is gone, the others are there and in      *)
(* their order.                                                            *)
LEMMA WithoutIs ==
    ASSUME globs \in Seq(GlobRec), Unique(globs), NEW u
    PROVE  LET w == Without(u) IN
           /\ w \in Seq(GlobRec)
           /\ \A a \in DOMAIN w : w[a].uri # u /\ \E i \in DOMAIN globs : w[a] = globs[i]
           /\ \A i \in DOMAIN globs : globs[i].uri # u => \E a \in DOMAIN w : w[a] = globs[i]
           /\ \A a, b \in DOMAIN w : a < b =>
                \E i, j \in DOMAIN globs : i < j /\ w[a] = globs[i] /\ w[b] = globs[j]
<1> DEFINE places == {i \in DOMAIN globs : globs[i].uri = u}
           w == Without(u)
<1>1. CASE places = {}
  <2>1. w = globs
    BY <1>1 DEF Without
  <2> HIDE DEF w
  <2> QED BY <1>1, <2>1 DEF w
<1>2. CASE places # {}
  <2> DEFINE m == Min(places)
  <2>1. places \subseteq Nat
    OBVIOUS
  <2>2. m \in places
    BY <1>2, <2>1, MinIsFirst
  <2>3. w = RemoveAt(globs, m)
    BY <1>2 DEF Without
  <2>4. m \in DOMAIN globs /\ globs[m].uri = u /\ Len(globs) \in Nat /\ DOMAIN globs = 1..Len(globs)
    BY <2>2
  <2> HIDE DEF m, w, places
  <2>5. /\ w \in Seq(GlobRec) /\ Len(w) = Len(globs) - 1
        /\ \A a \in DOMAIN w : w[a] = IF a < m THEN globs[a] ELSE globs[a + 1]
    BY <2>3, <2>4, Removed
  <2>6. DOMAIN w = 1..(Len(globs) - 1)
    BY <2>5
  <2> DEFINE at(a) == IF a < m THEN a ELSE a + 1
  <2>7. ASSUME NEW a \in DOMAIN w PROVE at(a) \in DOMAIN globs /\ at(a) # m /\ w[a] = globs[at(a)]
    BY <2>4, <2>5, <2>6
  <2>8. ASSUME NEW i \in DOMAIN globs, i # m PROVE \E a \in DOMAIN w : w[a] = globs[i]
    <3>1. CASE i < m
      <4>1. i \in DOMAIN w /\ w[i] = globs[i]
        BY <2>4, <2>5, <2>6, <3>1
      <4> QED BY <4>1
    <3>2. CASE ~(i < m)
      <4>1. i - 1 \in DOMAIN w /\ ~(i - 1 < m) /\ (i - 1) + 1 = i
        BY <2>4, <2>6, <2>8, <3>2
      <4>2. w[i - 1] = globs[i]
        BY <2>5, <4>1
      <4> QED BY <4>1, <4>2
    <3> QED BY <3>1, <3>2
  <2>9. ASSUME NEW a \in DOMAIN w, NEW b \in DOMAIN w, a < b
        PROVE  \E i, j \in DOMAIN globs : i < j /\ w[a] = globs[i] /\ w[b] = globs[j]
    <3>1. at(a) < at(b)
      BY <2>4, <2>6, <2>9
    <3> HIDE DEF at
    <3> QED BY <2>7, <3>1
  <2>10. \A a \in DOMAIN w : w[a].uri # u /\ \E i \in DOMAIN globs : w[a] = globs[i]
    <3> HIDE DEF at
    <3> QED BY <2>4, <2>7 DEF Unique
  <2> QED BY <2>4, <2>5, <2>8, <2>9, <2>10 DEF w
<1> QED BY <1>1, <1>2

-----------------------------------------------------------------------------
(* The calls.                                                              *)

LEMMA AliveUnique ==
    ASSUME TablesTyped
    PROVE  /\ \A k, l \in AliveNames : admin[k].uri = admin[l].uri => k = l
           /\ \A k, l \in AliveGlobs : admin[k].uri = admin[l].uri => k = l
           /\ AliveNames \subseteq DOMAIN admin /\ AliveGlobs \subseteq DOMAIN admin
           /\ DOMAIN admin \subseteq Nat
BY DEF AliveNames, AliveGlobs, Alive, TablesTyped

(* One more call: it ends the life of earlier calls of its own kind on the *)
(* same name, and of no other.                                             *)
LEMMA AliveAfter ==
    ASSUME NEW s \in Seq(AdminRec), NEW e \in AdminRec, NEW op, NEW ops, op \in ops
    PROVE  \A k : k \in Alive(Append(s, e), op, ops) <=>
                \/ k \in Alive(s, op, ops) /\ ~(e.op \in ops /\ e.uri = s[k].uri)
                \/ k = Len(s) + 1 /\ e.op = op
<1> DEFINE n == Len(s) + 1
           t == Append(s, e)
<1>1. /\ n \notin DOMAIN s /\ DOMAIN t = DOMAIN s \cup {n} /\ t[n] = e
      /\ \A k \in DOMAIN s : t[k] = s[k] /\ k < n
      /\ DOMAIN s \subseteq Nat /\ n \in Nat
  OBVIOUS
<1> HIDE DEF n, t
<1>2. n \in Alive(t, op, ops) <=> e.op = op
  BY <1>1 DEF Alive
<1>3. ASSUME NEW k \in DOMAIN s
      PROVE  k \in Alive(t, op, ops) <=> k \in Alive(s, op, ops) /\ ~(e.op \in ops /\ e.uri = s[k].uri)
  <2>1. ~(n <= k) /\ t[k] = s[k] /\ \A j \in DOMAIN s : t[j] = s[j]
    BY <1>1
  <2> QED BY <1>1, <2>1 DEF Alive
<1>4. Alive(t, op, ops) \subseteq DOMAIN t /\ Alive(s, op, ops) \subseteq DOMAIN s
  BY DEF Alive
<1>5. \A k : k \in Alive(t, op, ops) <=>
            \/ k \in Alive(s, op, ops) /\ ~(e.op \in ops /\ e.uri = s[k].uri)
            \/ k = n /\ e.op = op
  BY <1>1, <1>2, <1>3, <1>4
<1> QED BY <1>5 DEF n, t

LEMMA AliveStep ==
    ASSUME TablesTyped, NEW e \in AdminRec, admin' = Append(admin, e)
    PROVE  \E n \in Nat :
           /\ n \notin DOMAIN admin /\ admin'[n] = e
           /\ \A k \in DOMAIN admin : admin'[k] = admin[k] /\ k < n
           /\ \A k : k \in AliveNames' <=>
                \/ k \in AliveNames /\ ~(e.op \in {"add", "del"} /\ e.uri = admin[k].uri)
                \/ k = n /\ e.op = "add"
           /\ \A k : k \in AliveGlobs' <=>
                \/ k \in AliveGlobs /\ ~(e.op \in {"addGlob", "delGlob"} /\ e.uri = admin[k].uri)
                \/ k = n /\ e.op = "addGlob"
<1> DEFINE n == Len(admin) + 1
<1>1. admin \in Seq(AdminRec)
  BY DEF TablesTyped
<1>2. /\ n \in Nat /\ n \notin DOMAIN admin /\ admin'[n] = e
      /\ \A k \in DOMAIN admin : admin'[k] = admin[k] /\ k < n
  BY <1>1
<1>3. \A k : k \in Alive(Append(admin, e), "add", {"add", "del"}) <=>
            \/ k \in Alive(admin, "add", {"add", "del"}) /\ ~(e.op \in {"add", "del"} /\ e.uri = admin[k].uri)
            \/ k = Len(admin) + 1 /\ e.op = "add"
  <2>1. "add" \in {"add", "del"}
    OBVIOUS
  <2> QED BY <1>1, <2>1, AliveAfter
<1>4. \A k : k \in Alive(Append(admin, e), "addGlob", {"addGlob", "delGlob"}) <=>
            \/ /\ k \in Alive(admin, "addGlob", {"addGlob", "delGlob"})
               /\ ~(e.op \in {"addGlob", "delGlob"} /\ e.uri = admin[k].uri)
            \/ k = Len(admin) + 1 /\ e.op = "addGlob"
  <2>1. "addGlob" \in {"addGlob", "delGlob"}
    OBVIOUS
  <2> QED BY <1>1, <2>1, AliveAfter
<1>5. /\ AliveNames' = Alive(Append(admin, e), "add", {"add", "del"})
      /\ AliveGlobs' = Alive(Append(admin, e), "addGlob", {"addGlob", "delGlob"})
  BY DEF AliveNames, AliveGlobs
<1>6. \A k : k \in AliveNames' <=>
            \/ k \in AliveNames /\ ~(e.op \in {"add", "del"} /\ e.uri = admin[k].uri)
            \/ k = n /\ e.op = "add"
  BY <1>3, <1>5 DEF AliveNames
<1>7. \A k : k \in AliveGlobs' <=>
            \/ k \in AliveGlobs /\ ~(e.op \in {"addGlob", "delGlob"} /\ e.uri = admin[k].uri)
            \/ k = n /\ e.op = "addGlob"
  BY <1>4, <1>5 DEF AliveGlobs
<1> HIDE DEF n
<1> QED BY <1>2, <1>6, <1>7

-----------------------------------------------------------------------------
(* The steps.                                                              *)

(* m_data follows addServlet and delServlet.                               *)
LEMMA NameStep ==
    ASSUME TablesTyped, NameForm, NEW e \in AdminRec, admin' = Append(admin, e),
           e.op = "add" => exact' = [v \in DOMAIN exact \cup {e.uri} |->
                                        IF v = e.uri THEN e.servlet ELSE exact[v]],
           e.op = "del" => exact' = [v \in DOMAIN exact \ {e.uri} |-> exact[v]],
           e.op \notin {"add", "del"} => exact' = exact
    PROVE  NameForm'
<1>1. PICK n \in Nat :
      /\ n \notin DOMAIN admin /\ admin'[n] = e
      /\ \A k \in DOMAIN admin : admin'[k] = admin[k] /\ k < n
      /\ \A k : k \in AliveNames' <=>
            \/ k \in AliveNames /\ ~(e.op \in {"add", "del"} /\ e.uri = admin[k].uri)
            \/ k = n /\ e.op = "add"
      /\ \A k : k \in AliveGlobs' <=>
            \/ k \in AliveGlobs /\ ~(e.op \in {"addGlob", "delGlob"} /\ e.uri = admin[k].uri)
            \/ k = n /\ e.op = "addGlob"
  BY AliveStep, Zenon
<1>2. AliveNames \subseteq DOMAIN admin
  BY AliveUnique
<1>3. CASE e.op = "add"
  <2>1. /\ DOMAIN exact' = DOMAIN exact \cup {e.uri} /\ exact'[e.uri] = e.servlet
        /\ \A u \in DOMAIN exact : u # e.uri => exact'[u] = exact[u]
    BY <1>3
  <2>2. \A k : k \in AliveNames' <=> (k \in AliveNames /\ admin[k].uri # e.uri) \/ k = n
    BY <1>1, <1>3
  <2>3. ASSUME NEW u \in DOMAIN exact'
        PROVE  \E k \in AliveNames' : admin'[k].uri = u /\ admin'[k].servlet = exact'[u]
    <3>1. CASE u = e.uri
      BY <1>1, <2>1, <2>2, <3>1
    <3>2. CASE u # e.uri
      <4>1. PICK k \in AliveNames : admin[k].uri = u /\ admin[k].servlet = exact[u]
        BY <2>1, <3>2 DEF NameForm
      <4>2. k \in AliveNames' /\ admin'[k] = admin[k] /\ exact'[u] = exact[u]
        BY <1>1, <1>2, <2>1, <2>2, <3>2, <4>1
      <4> QED BY <4>1, <4>2
    <3> QED BY <3>1, <3>2
  <2>4. ASSUME NEW k \in AliveNames' PROVE admin'[k].uri \in DOMAIN exact'
    BY <1>1, <1>2, <2>1, <2>2 DEF NameForm
  <2> QED BY <2>3, <2>4 DEF NameForm
<1>4. CASE e.op = "del"
  <2>1. /\ DOMAIN exact' = DOMAIN exact \ {e.uri}
        /\ \A u \in DOMAIN exact' : exact'[u] = exact[u]
    BY <1>4
  <2>2. \A k : k \in AliveNames' <=> k \in AliveNames /\ admin[k].uri # e.uri
    BY <1>1, <1>4
  <2>3. ASSUME NEW u \in DOMAIN exact'
        PROVE  \E k \in AliveNames' : admin'[k].uri = u /\ admin'[k].servlet = exact'[u]
    <3>1. PICK k \in AliveNames : admin[k].uri = u /\ admin[k].servlet = exact[u]
      BY <2>1 DEF NameForm
    <3>2. k \in AliveNames' /\ admin'[k] = admin[k] /\ exact'[u] = exact[u]
      BY <1>1, <1>2, <2>1, <2>2, <3>1
    <3> QED BY <3>1, <3>2
  <2>4. ASSUME NEW k \in AliveNames' PROVE admin'[k].uri \in DOMAIN exact'
    BY <1>1, <1>2, <2>1, <2>2 DEF NameForm
  <2> QED BY <2>3, <2>4 DEF NameForm
<1>5. CASE e.op \notin {"add", "del"}
  <2>1. (\A k : k \in AliveNames' <=> k \in AliveNames) /\ exact' = exact
    BY <1>1, <1>5
  <2> QED BY <1>1, <1>2, <2>1 DEF NameForm
<1> QED BY <1>3, <1>4, <1>5

LEMMA ListedSame ==
    ASSUME NEW s, NEW t, NEW A, NEW gs, Listed(s, A, gs), \A k \in A : t[k] = s[k]
    PROVE  Listed(t, A, gs)
BY DEF Listed

(* m_globs follows addGlobServlet and delGlobServlett.                     *)
LEMMA GlobStep ==
    ASSUME TablesTyped, GlobForm, NEW e \in AdminRec, admin' = Append(admin, e),
           e.op = "addGlob" => globs' = Append(Without(e.uri), [uri |-> e.uri, servlet |-> e.servlet]),
           e.op = "delGlob" => globs' = Without(e.uri),
           e.op \notin {"addGlob", "delGlob"} => globs' = globs
    PROVE  GlobForm'
<1>1. PICK n \in Nat :
      /\ n \notin DOMAIN admin /\ admin'[n] = e
      /\ \A k \in DOMAIN admin : admin'[k] = admin[k] /\ k < n
      /\ \A k : k \in AliveNames' <=>
            \/ k \in AliveNames /\ ~(e.op \in {"add", "del"} /\ e.uri = admin[k].uri)
            \/ k = n /\ e.op = "add"
      /\ \A k : k \in AliveGlobs' <=>
            \/ k \in AliveGlobs /\ ~(e.op \in {"addGlob", "delGlob"} /\ e.uri = admin[k].uri)
            \/ k = n /\ e.op = "addGlob"
  BY AliveStep, Zenon
<1>2. AliveGlobs \subseteq DOMAIN admin /\ DOMAIN admin \subseteq Nat
  BY AliveUnique
<1>3. CASE e.op \notin {"addGlob", "delGlob"}
  <2>1. (\A k : k \in AliveGlobs' <=> k \in AliveGlobs) /\ globs' = globs /\ \A k \in AliveGlobs : admin'[k] = admin[k]
    BY <1>1, <1>2, <1>3
  <2>2. AliveGlobs' = AliveGlobs
    BY <2>1
  <2>3. Listed(admin', AliveGlobs, globs)
    BY <2>1, ListedSame DEF GlobForm
  <2> QED BY <2>1, <2>2, <2>3 DEF GlobForm
<1> DEFINE w == Without(e.uri)
<1>4. /\ w \in Seq(GlobRec)
      /\ \A a \in DOMAIN w : w[a].uri # e.uri /\ \E i \in DOMAIN globs : w[a] = globs[i]
      /\ \A i \in DOMAIN globs : globs[i].uri # e.uri => \E a \in DOMAIN w : w[a] = globs[i]
      /\ \A a, b \in DOMAIN w : a < b =>
            \E i, j \in DOMAIN globs : i < j /\ w[a] = globs[i] /\ w[b] = globs[j]
  BY WithoutIs DEF TablesTyped, GlobForm, Listed
<1> DEFINE Rest == {k \in AliveGlobs : admin[k].uri # e.uri}
<1>5. Rest \subseteq DOMAIN admin /\ Listed(admin, Rest, w)
  <2> HIDE DEF w
  <2>1. ASSUME NEW a \in DOMAIN w, NEW b \in DOMAIN w, w[a].uri = w[b].uri PROVE a = b
    <3>1. a \in Nat /\ b \in Nat
      BY <1>4
    <3>2. ASSUME NEW x \in DOMAIN w, NEW y \in DOMAIN w, x < y PROVE w[x].uri # w[y].uri
      <4>1. PICK i \in DOMAIN globs, j \in DOMAIN globs : i < j /\ w[x] = globs[i] /\ w[y] = globs[j]
        BY <1>4, <3>2
      <4>2. i # j
        BY <4>1 DEF TablesTyped
      <4> QED BY <4>1, <4>2 DEF GlobForm, Listed, Unique
    <3> QED BY <2>1, <3>1, <3>2
  <2>2. ASSUME NEW a \in DOMAIN w
        PROVE  \E k \in Rest : admin[k].uri = w[a].uri /\ admin[k].servlet = w[a].servlet
    <3>1. PICK i \in DOMAIN globs : w[a] = globs[i] /\ w[a].uri # e.uri
      BY <1>4
    <3>2. PICK k \in AliveGlobs : admin[k].uri = globs[i].uri /\ admin[k].servlet = globs[i].servlet
      BY DEF GlobForm, Listed
    <3> QED BY <3>1, <3>2
  <2>3. ASSUME NEW k \in Rest PROVE \E a \in DOMAIN w : w[a].uri = admin[k].uri
    <3>1. PICK i \in DOMAIN globs : globs[i].uri = admin[k].uri
      BY DEF GlobForm, Listed
    <3> QED BY <1>4, <3>1
  <2>4. ASSUME NEW a \in DOMAIN w, NEW b \in DOMAIN w, NEW k \in Rest, NEW l \in Rest,
               a < b, admin[k].uri = w[a].uri, admin[l].uri = w[b].uri
        PROVE  k < l
    <3>1. PICK i \in DOMAIN globs, j \in DOMAIN globs : i < j /\ w[a] = globs[i] /\ w[b] = globs[j]
      BY <1>4, <2>4
    <3> QED BY <2>4, <3>1 DEF GlobForm, Listed
  <2>5. Rest \subseteq DOMAIN admin
    BY <1>2
  <2> HIDE DEF Rest
  <2> QED BY <2>1, <2>2, <2>3, <2>4, <2>5 DEF Listed, Unique
<1>6. CASE e.op = "delGlob"
  <2>1. globs' = w /\ \A k : k \in AliveGlobs' <=> k \in Rest
    BY <1>1, <1>6
  <2>2. \A k \in Rest : admin'[k] = admin[k]
    BY <1>1, <1>5
  <2> HIDE DEF w, Rest
  <2>3. AliveGlobs' = Rest
    BY <2>1
  <2>4. Listed(admin', Rest, w)
    BY <1>5, <2>2, ListedSame
  <2> QED BY <2>1, <2>3, <2>4 DEF GlobForm
<1>7. CASE e.op = "addGlob"
  <2> DEFINE m == Len(w) + 1
             new == [uri |-> e.uri, servlet |-> e.servlet]
  <2>1. globs' = Append(w, new) /\ \A k : k \in AliveGlobs' <=> k \in Rest \/ k = n
    BY <1>1, <1>7
  <2>2. (\A k \in Rest : admin'[k] = admin[k] /\ admin[k].uri # e.uri /\ k < n) /\ admin'[n] = e /\ n \notin Rest
    BY <1>1, <1>5
  <2>3. new.uri = e.uri /\ new.servlet = e.servlet
    OBVIOUS
  <2> HIDE DEF w, Rest, new
  <2>4. /\ m \notin DOMAIN w /\ DOMAIN globs' = DOMAIN w \cup {m} /\ globs'[m] = new
        /\ \A a \in DOMAIN w : globs'[a] = w[a] /\ a < m /\ a \in Nat
        /\ m \in Nat /\ \A a \in DOMAIN w : w[a].uri # e.uri
    BY <1>4, <2>1
  <2> HIDE DEF m
  <2>5. Unique(globs')
    BY <1>5, <2>3, <2>4 DEF Listed, Unique
  <2>6. ASSUME NEW a \in DOMAIN globs'
        PROVE  \E k \in AliveGlobs' : admin'[k].uri = globs'[a].uri /\ admin'[k].servlet = globs'[a].servlet
    <3>1. CASE a = m
      BY <2>1, <2>2, <2>3, <2>4, <3>1
    <3>2. CASE a # m
      <4>1. PICK k \in Rest : admin[k].uri = w[a].uri /\ admin[k].servlet = w[a].servlet
        BY <1>5, <2>4, <3>2 DEF Listed
      <4> QED BY <2>1, <2>2, <2>4, <3>2, <4>1
    <3> QED BY <3>1, <3>2
  <2>7. ASSUME NEW k \in AliveGlobs' PROVE \E a \in DOMAIN globs' : globs'[a].uri = admin'[k].uri
    <3>1. CASE k = n
      BY <2>2, <2>3, <2>4, <3>1
    <3>2. CASE k # n
      <4>1. k \in Rest
        BY <2>1, <3>2
      <4>2. PICK a \in DOMAIN w : w[a].uri = admin[k].uri
        BY <1>5, <4>1 DEF Listed
      <4> QED BY <2>2, <2>4, <4>1, <4>2
    <3> QED BY <3>1, <3>2
  <2>8. ASSUME NEW a \in DOMAIN globs', NEW b \in DOMAIN globs', NEW k \in AliveGlobs', NEW l \in AliveGlobs',
               a < b, admin'[k].uri = globs'[a].uri, admin'[l].uri = globs'[b].uri
        PROVE  k < l
    <3>1. a \in DOMAIN w /\ globs'[a] = w[a]
      BY <2>4, <2>8
    <3>2. k \in Rest /\ admin'[k] = admin[k] /\ k < n
      BY <2>1, <2>2, <2>4, <2>8, <3>1
    <3>3. CASE b = m
      <4>1. l = n
        BY <2>1, <2>2, <2>3, <2>4, <2>8, <3>3
      <4> QED BY <3>2, <4>1
    <3>4. CASE b # m
      <4>1. b \in DOMAIN w /\ globs'[b] = w[b]
        BY <2>4, <3>4
      <4>2. l \in Rest /\ admin'[l] = admin[l]
        BY <2>1, <2>2, <2>4, <2>8, <4>1
      <4>3. a < b /\ admin[k].uri = w[a].uri /\ admin[l].uri = w[b].uri
        BY <2>8, <3>1, <3>2, <4>1, <4>2
      <4>4. \A x, y \in DOMAIN w : \A p, q \in Rest :
                x < y /\ admin[p].uri = w[x].uri /\ admin[q].uri = w[y].uri => p < q
        BY <1>5 DEF Listed
      <4> QED BY <3>1, <3>2, <4>1, <4>2, <4>3, <4>4, Zenon
    <3> QED BY <3>3, <3>4
  <2>9. \A i, j \in DOMAIN globs' : globs'[i].uri = globs'[j].uri => i = j
    BY <2>5 DEF Unique
  <2>10. \A i, j \in DOMAIN globs' : \A k, l \in AliveGlobs' :
            i < j /\ admin'[k].uri = globs'[i].uri /\ admin'[l].uri = globs'[j].uri => k < l
    BY <2>8
  <2> QED BY <2>6, <2>7, <2>9, <2>10 DEF GlobForm, Listed, Unique
<1> QED BY <1>3, <1>6, <1>7

(* A call of one of the four that change the tables, with all it does.     *)
LEMMA CallStep ==
    ASSUME DispatchInv, NEW e \in AdminRec, admin' = Append(admin, e),
           e.op = "add" => exact' = [v \in DOMAIN exact \cup {e.uri} |->
                                        IF v = e.uri THEN e.servlet ELSE exact[v]],
           e.op = "del" => exact' = [v \in DOMAIN exact \ {e.uri} |-> exact[v]],
           e.op \notin {"add", "del"} => exact' = exact,
           e.op = "addGlob" => globs' = Append(Without(e.uri), [uri |-> e.uri, servlet |-> e.servlet]),
           e.op = "delGlob" => globs' = Without(e.uri),
           e.op \notin {"addGlob", "delGlob"} => globs' = globs,
           e.op \in {"add", "addGlob"} => e.servlet \in Servlets,
           e.op = "addGlob" => e.uri \in Globs
    PROVE  DispatchInv'
<1>1. TablesTyped /\ NameForm /\ GlobForm
  BY DEF DispatchInv
<1>2. NameForm'
  BY <1>1, NameStep
<1>3. GlobForm'
  BY <1>1, GlobStep
<1>4. admin \in Seq(AdminRec) /\ globs \in Seq(GlobRec) /\ exact \in [DOMAIN exact -> Servlets] /\ Unique(globs)
  BY <1>1 DEF TablesTyped, GlobForm, Listed
<1>5. admin' \in Seq(AdminRec)
  BY <1>4
<1>6. Without(e.uri) \in Seq(GlobRec)
  BY <1>4, WithoutIs
<1>7. globs' \in Seq(GlobRec)
  <2>1. CASE e.op = "addGlob"
    <3> DEFINE new == [uri |-> e.uri, servlet |-> e.servlet]
               w == Without(e.uri)
    <3>1. new \in GlobRec
      BY <2>1 DEF GlobRec
    <3>2. globs' = Append(w, new) /\ w \in Seq(GlobRec)
      BY <1>6, <2>1
    <3> HIDE DEF new, w
    <3> QED BY <3>1, <3>2
  <2>2. CASE e.op = "delGlob"
    BY <1>6, <2>2
  <2> QED BY <1>4, <2>1, <2>2
<1>8. exact' \in [DOMAIN exact' -> Servlets]
  <2>1. CASE e.op = "add"
    BY <1>4, <2>1
  <2>2. CASE e.op = "del"
    BY <1>4, <2>2
  <2> QED BY <1>4, <2>1, <2>2
<1> QED BY <1>2, <1>3, <1>5, <1>7, <1>8 DEF DispatchInv, TablesTyped

LEMMA DispatchInit == Init => DispatchInv
<1> SUFFICES ASSUME Init PROVE DispatchInv
  OBVIOUS
<1>1. exact = [u \in {} |-> "404"] /\ globs = <<>> /\ admin = <<>>
  BY DEF Init
<1>2. DOMAIN exact = {} /\ DOMAIN globs = {} /\ DOMAIN admin = {}
  BY <1>1
<1>3. TablesTyped
  BY <1>1, <1>2 DEF TablesTyped
<1>4. AliveNames = {} /\ AliveGlobs = {}
  BY <1>2 DEF AliveNames, AliveGlobs, Alive
<1> QED BY <1>2, <1>3, <1>4 DEF DispatchInv, NameForm, GlobForm, Listed, Unique

LEMMA DispatchStep == DispatchInv /\ [Next]_vars => DispatchInv'
<1> SUFFICES ASSUME DispatchInv, [Next]_vars PROVE DispatchInv'
  OBVIOUS
<1>1. ASSUME UNCHANGED tables PROVE DispatchInv'
  <2>1. admin' = admin /\ exact' = exact /\ globs' = globs
    BY <1>1 DEF tables
  <2> QED BY <2>1 DEF DispatchInv, TablesTyped, NameForm, GlobForm, AliveNames, AliveGlobs
<1>2. ASSUME NEW u \in Uris, NEW s \in Servlets, AddServlet(u, s) PROVE DispatchInv'
  <2> DEFINE e == [op |-> "add", uri |-> u, servlet |-> s]
  <2>1. e \in AdminRec /\ e.op = "add" /\ e.uri = u /\ e.servlet = s
    BY DEF AdminRec
  <2>2. /\ admin' = Append(admin, e) /\ globs' = globs
        /\ exact' = [v \in DOMAIN exact \cup {u} |-> IF v = u THEN s ELSE exact[v]]
    BY <1>2 DEF AddServlet, Logged
  <2> HIDE DEF e
  <2>3. exact' = [v \in DOMAIN exact \cup {e.uri} |-> IF v = e.uri THEN e.servlet ELSE exact[v]]
    BY <2>1, <2>2
  <2> QED BY <2>1, <2>2, <2>3, CallStep
<1>3. ASSUME NEW u \in Uris, DelServlet(u) PROVE DispatchInv'
  <2> DEFINE e == [op |-> "del", uri |-> u, servlet |-> "404"]
  <2>1. e \in AdminRec /\ e.op = "del" /\ e.uri = u
    BY DEF AdminRec
  <2>2. admin' = Append(admin, e) /\ globs' = globs /\ exact' = [v \in DOMAIN exact \ {u} |-> exact[v]]
    BY <1>3 DEF DelServlet, Logged
  <2> HIDE DEF e
  <2>3. exact' = [v \in DOMAIN exact \ {e.uri} |-> exact[v]]
    BY <2>1, <2>2
  <2> QED BY <2>1, <2>2, <2>3, CallStep
<1>4. ASSUME NEW u \in Globs, NEW s \in Servlets, AddGlobServlet(u, s) PROVE DispatchInv'
  <2> DEFINE e == [op |-> "addGlob", uri |-> u, servlet |-> s]
  <2>1. e \in AdminRec /\ e.op = "addGlob" /\ e.uri = u /\ e.servlet = s
    BY DEF AdminRec
  <2>2. /\ admin' = Append(admin, e) /\ exact' = exact
        /\ globs' = Append(Without(u), [uri |-> u, servlet |-> s])
    BY <1>4 DEF AddGlobServlet, Logged
  <2> HIDE DEF e
  <2>3. globs' = Append(Without(e.uri), [uri |-> e.uri, servlet |-> e.servlet])
    BY <2>1, <2>2
  <2> QED BY <2>1, <2>2, <2>3, CallStep
<1>5. ASSUME NEW u \in Globs, DelGlobServlet(u) PROVE DispatchInv'
  <2> DEFINE e == [op |-> "delGlob", uri |-> u, servlet |-> "404"]
  <2>1. e \in AdminRec /\ e.op = "delGlob" /\ e.uri = u
    BY DEF AdminRec
  <2>2. admin' = Append(admin, e) /\ exact' = exact /\ globs' = Without(u)
    BY <1>5 DEF DelGlobServlet, Logged
  <2> HIDE DEF e
  <2>3. globs' = Without(e.uri)
    BY <2>1, <2>2
  <2> QED BY <2>1, <2>2, <2>3, CallStep
<1>6. ASSUME NEW t \in DOMAIN Texts, ClientSend(t) PROVE UNCHANGED tables
  BY <1>6 DEF ClientSend
<1>7. ASSUME ClientClose \/ Session \/ ReadBodyFails \/ SendKills PROVE UNCHANGED tables
  BY <1>7 DEF ClientClose, Session, ReadHead, ReadHeadEnds, ReadBody, ReadBodyEnds, Handle,
     SendResponse, ReadBodyFails, SendKills
<1>8. CASE UNCHANGED vars
  BY <1>1, <1>8 DEF vars
<1>9. CASE Next
  BY <1>1, <1>2, <1>3, <1>4, <1>5, <1>6, <1>7, <1>9 DEF Next
<1> QED BY <1>8, <1>9

-----------------------------------------------------------------------------
(* What the tables serve.                                                  *)

LEMMA TablesServe == DispatchInv => DispatchExact
<1> SUFFICES ASSUME DispatchInv, NEW p \in Uris PROVE Matched(p) = Want(p)
  BY DEF DispatchExact
<1> DEFINE named == {k \in AliveNames : admin[k].uri = p}
           calls == {k \in AliveGlobs : Matches(admin[k].uri, p)}
           hits  == {i \in DOMAIN globs : Matches(globs[i].uri, p)}
<1>1. TablesTyped /\ NameForm /\ Listed(admin, AliveGlobs, globs)
  BY DEF DispatchInv, GlobForm
<1>2. /\ \A k, l \in AliveNames : admin[k].uri = admin[l].uri => k = l
      /\ \A k, l \in AliveGlobs : admin[k].uri = admin[l].uri => k = l
      /\ AliveNames \subseteq DOMAIN admin /\ AliveGlobs \subseteq DOMAIN admin
      /\ DOMAIN admin \subseteq Nat
  BY <1>1, AliveUnique
<1>3. named \subseteq Nat /\ calls \subseteq Nat /\ hits \subseteq Nat
  BY <1>1, <1>2 DEF TablesTyped
<1>4. Matched(p) = IF p \in DOMAIN exact THEN exact[p]
                   ELSE IF hits # {} THEN globs[Min(hits)].servlet ELSE "404"
  BY DEF Matched
<1>5. Want(p) = IF named # {} THEN admin[Min(named)].servlet
                ELSE IF calls # {} THEN admin[Min(calls)].servlet ELSE "404"
  BY DEF Want
<1>6. CASE p \in DOMAIN exact
  <2>1. PICK k \in AliveNames : admin[k].uri = p /\ admin[k].servlet = exact[p]
    BY <1>1, <1>6 DEF NameForm
  <2>2. named # {}
    BY <2>1
  <2>3. Min(named) \in named
    BY <1>3, <2>2, MinIsFirst
  <2>4. Min(named) = k
    BY <1>2, <2>1, <2>3
  <2> HIDE DEF named
  <2> QED BY <1>4, <1>5, <1>6, <2>1, <2>2, <2>4
<1>7. CASE p \notin DOMAIN exact
  <2>1. named = {}
    BY <1>1, <1>7 DEF NameForm
  <2>2. CASE hits = {}
    <3>1. calls = {}
      BY <1>1, <2>2 DEF Listed
    <3> HIDE DEF named, calls, hits
    <3> QED BY <1>4, <1>5, <1>7, <2>1, <2>2, <3>1
  <2>3. CASE hits # {}
    <3> DEFINE i == Min(hits)
               k == Min(calls)
    <3>1. i \in hits /\ \A y \in hits : i <= y
      <4> HIDE DEF hits
      <4> QED BY <1>3, <2>3, MinIsFirst
    <3>2. PICK l \in AliveGlobs : admin[l].uri = globs[i].uri /\ admin[l].servlet = globs[i].servlet
      BY <1>1, <3>1 DEF Listed
    <3>3. l \in calls
      BY <3>1, <3>2
    <3>4. k \in calls /\ \A y \in calls : k <= y
      <4> HIDE DEF calls
      <4> QED BY <1>3, <3>3, MinIsFirst
    <3>5. PICK j \in DOMAIN globs : globs[j].uri = admin[k].uri
      BY <1>1, <3>4 DEF Listed
    <3>6. j \in hits
      BY <3>4, <3>5
    <3>7. k <= l /\ i <= j /\ k \in Nat /\ l \in Nat /\ i \in Nat /\ j \in Nat
      BY <1>3, <3>1, <3>3, <3>4, <3>6
    <3>8. i \in DOMAIN globs /\ k \in AliveGlobs
      BY <3>1, <3>4
    <3> HIDE DEF i, k, named, calls, hits
    <3>9. i < j => l < k
      BY <1>1, <3>2, <3>5, <3>8 DEF Listed
    <3>10. i = j
      BY <3>7, <3>9
    <3>11. k = l
      BY <1>2, <3>2, <3>5, <3>8, <3>10
    <3>12. calls # {}
      BY <3>3
    <3>13. Matched(p) = globs[i].servlet /\ Want(p) = admin[k].servlet
      BY <1>4, <1>5, <1>7, <2>1, <2>3, <3>12 DEF i, k
    <3> QED BY <3>2, <3>11, <3>13
  <2> QED BY <2>2, <2>3
<1> QED BY <1>6, <1>7

(* Whatever servlets are added, replaced and removed, under names or       *)
(* patterns and in any order, getMatchedServlet always finds the one the   *)
(* calls ask for: the last one registered for the path itself, else of the *)
(* patterns that match it the one registered longest ago, else             *)
(* NotFoundServlet (servlet.cpp:32-104).                                   *)
THEOREM DispatchIsExact == Spec => []DispatchExact
<1>1. Init => DispatchInv
  BY DispatchInit
<1>2. DispatchInv /\ [Next]_vars => DispatchInv'
  BY DispatchStep
<1>3. DispatchInv => DispatchExact
  BY TablesServe
<1> QED BY <1>1, <1>2, <1>3, PTL DEF Spec

-----------------------------------------------------------------------------
(* HttpConnectionPool                                                      *)

(* The callers of the pool; their counters of short and of late reads are  *)
(* not the server's.                                                       *)
CONSTANTS
    Urls, PoolUri, PoolHost, HeaderSets, Kinds, Usual, Tags, Answer(_, _), MaxCalls, MaxTime, MaxCloses
VARIABLES calls, shortReads, lateReads, closes
Client == INSTANCE HttpClient WITH reads <- shortReads, timeouts <- lateReads

CallFields == {"pc", "url", "headers", "tag", "conn", "now", "doomed", "q", "buf", "begin", "body",
               "at", "need", "result", "rsp", "cut", "late"}
ConnFields == {"st", "up", "born", "reqs", "wire", "asked", "kind", "to", "peer", "dirty"}

Elems(s) == {s[i] : i \in DOMAIN s}
Once(s) == \A i, j \in DOMAIN s : s[i] = s[j] => i = j
IsSeq(s) == \E n \in Nat : s = [i \in 1..n |-> s[i]]

(* A connection, and a caller whose place in doRequest says what it holds. *)
IsConn(x) == DOMAIN x = ConnFields /\ x.reqs \in Nat /\ x.reqs < MaxRequest
IsCall(r, cs) ==
    /\ DOMAIN r = CallFields
    /\ r.conn \in {0} \cup DOMAIN cs
    /\ r.doomed \in Seq(DOMAIN cs) /\ Once(r.doomed) /\ r.conn \notin Elems(r.doomed)
    /\ r.doomed # <<>> => r.pc \in {"drop", "killed"}
    /\ r.pc \in {"idle", "pop", "connect"} => r.conn = 0
    /\ r.pc \in {"send", "recv", "chunk", "data", "body", "close", "push"} => r.conn # 0
    /\ r.pc \in {"pop", "drop", "push"} => r.url = Client!NoUrl

Mine(r) == (Elems(r.doomed) \cup {r.conn}) \ {0}
Counted(cs, ca) == {k \in DOMAIN cs : cs[k].st = "live" /\ \A c \in Callers : ca[c].url = Client!NoUrl \/ ca[c].conn # k}

ConnsFit(cs) == IsSeq(cs) /\ \A k \in DOMAIN cs : IsConn(cs[k])
CallsFit(ca, cs) == DOMAIN ca = Callers /\ \A c \in Callers : IsCall(ca[c], cs)
IdleFit(id, cs) == id \in Seq(DOMAIN cs) /\ Once(id)
Apart(id, ca) ==
    /\ \A c \in Callers : \A k \in Mine(ca[c]) : k \notin Elems(id)
    /\ \A c, d \in Callers : \A k \in Mine(ca[c]) : k \in Mine(ca[d]) => c = d
Owned(cs, id, ca) == \A k \in DOMAIN cs :
    cs[k].st = "live" <=> k \in Elems(id) \/ \E c \in Callers : k \in Mine(ca[c])
UpFits(cs, id, ca) ==
    /\ \A k \in Elems(id) : cs[k].up
    /\ \A c \in Callers : ca[c].pc = "push" => cs[ca[c].conn].up
PoolFits(cs, id, ca, n) ==
    /\ ConnsFit(cs) /\ CallsFit(ca, cs) /\ IdleFit(id, cs)
    /\ Apart(id, ca) /\ Owned(cs, id, ca) /\ UpFits(cs, id, ca)
    /\ n = Cardinality(Counted(cs, ca))

LEMMA NoCallIs ==
    /\ DOMAIN Client!NoCall = CallFields /\ Client!NoCall.conn = 0 /\ Client!NoCall.doomed = <<>>
    /\ Client!NoCall.url = Client!NoUrl /\ Client!NoCall.pc = "idle"
BY DEF Client!NoCall, CallFields

LEMMA ConnsAre ==
    ASSUME NEW s, IsSeq(s)
    PROVE  Len(s) \in Nat /\ DOMAIN s = 1..Len(s) /\ s \in Seq(Elems(s)) /\ 0 \notin DOMAIN s /\ IsFiniteSet(DOMAIN s)
<1>1. PICK n \in Nat : s = [i \in 1..n |-> s[i]]
    BY DEF IsSeq
<1>2. DOMAIN s = 1..n
    BY <1>1
<1>3. \A i \in 1..n : s[i] \in Elems(s)
    BY <1>2 DEF Elems
<1>4. s \in [1..n -> Elems(s)]
    BY <1>1, <1>3
<1>5. s \in Seq(Elems(s))
    BY <1>4, SeqDef
<1>6. Len(s) \in Nat /\ DOMAIN s = 1..Len(s)
    BY <1>5, LenProperties
<1>7. IsFiniteSet(1..Len(s))
    BY <1>6, FS_Interval
<1> QED
    BY <1>5, <1>6, <1>7

LEMMA AppendedConns ==
    ASSUME NEW s, IsSeq(s), NEW x
    PROVE  /\ IsSeq(Append(s, x)) /\ DOMAIN Append(s, x) = DOMAIN s \cup {Len(s) + 1}
           /\ Append(s, x)[Len(s) + 1] = x /\ \A i \in DOMAIN s : Append(s, x)[i] = s[i]
           /\ Len(s) + 1 \notin DOMAIN s /\ Len(s) + 1 # 0
<1> DEFINE Items == Elems(s) \cup {x}
<1>1. Len(s) \in Nat /\ DOMAIN s = 1..Len(s) /\ s \in Seq(Elems(s))
    BY ConnsAre
<1>2. s \in Seq(Items) /\ x \in Items
    BY <1>1
<1> HIDE DEF Items
<1>3. /\ Append(s, x) \in Seq(Items) /\ Len(Append(s, x)) = Len(s) + 1
      /\ \A i \in 1..Len(s) : Append(s, x)[i] = s[i] /\ Append(s, x)[Len(s) + 1] = x
    BY <1>2, AppendProperties
<1>4. DOMAIN Append(s, x) = 1..(Len(s) + 1)
    BY <1>3, LenProperties
<1>5. Append(s, x) = [i \in 1..(Len(s) + 1) |-> Append(s, x)[i]]
    <2>1. Append(s, x) \in [1..Len(Append(s, x)) -> Items]
        BY <1>3, LenProperties
    <2>2. Append(s, x) \in [1..(Len(s) + 1) -> Items]
        BY <2>1, <1>3
    <2> QED
        BY <2>2
<1>6. IsSeq(Append(s, x))
    <2>1. Len(s) + 1 \in Nat
        BY <1>1
    <2> QED
        BY <1>5, <2>1 DEF IsSeq
<1>7. 1..(Len(s) + 1) = (1..Len(s)) \cup {Len(s) + 1} /\ Len(s) + 1 \notin 1..Len(s) /\ Len(s) + 1 # 0
    BY <1>1
<1>8. Append(s, x)[Len(s) + 1] = x
    BY <1>2, AppendProperties
<1> QED
    BY <1>1, <1>3, <1>4, <1>6, <1>7, <1>8

(* The step of one caller leaves the other callers alone.                  *)
LEMMA SetIs ==
    ASSUME NEW ca, DOMAIN ca = Callers, NEW c \in Callers, NEW s, NEW ca2, ca2 = [ca EXCEPT ![c] = s]
    PROVE  DOMAIN ca2 = Callers /\ ca2[c] = s /\ \A d \in Callers : d # c => ca2[d] = ca[d]
OBVIOUS

LEMMA MineKept ==
    ASSUME NEW r, NEW s, s.conn = r.conn, s.doomed = r.doomed
    PROVE  Mine(s) = Mine(r)
BY DEF Mine

LEMMA MineIn ==
    ASSUME NEW r, NEW cs, IsCall(r, cs), NEW k \in Mine(r)
    PROVE  k \in DOMAIN cs
<1>1. CASE k = r.conn
    BY <1>1 DEF IsCall, Mine
<1>2. CASE k \in Elems(r.doomed)
    <2>1. r.doomed \in Seq(DOMAIN cs)
        BY DEF IsCall
    <2>2. PICK i \in DOMAIN r.doomed : k = r.doomed[i]
        BY <1>2 DEF Elems
    <2> QED
        BY <2>1, <2>2, ElementOfSeq, LenProperties
<1> QED
    BY <1>1, <1>2 DEF Mine

(* What the pool sees of the connections is unchanged.                     *)
Alike(cs, cs2, own) ==
    /\ DOMAIN cs2 = DOMAIN cs /\ IsSeq(cs2)
    /\ \A k \in DOMAIN cs : IsConn(cs2[k]) /\ cs2[k].st = cs[k].st /\ (k # own => cs2[k].up = cs[k].up)

LEMMA IdleIn ==
    ASSUME NEW id, NEW cs, IdleFit(id, cs), NEW k \in Elems(id)
    PROVE  k \in DOMAIN cs
<1>1. id \in Seq(DOMAIN cs)
    BY DEF IdleFit
<1>2. PICK i \in DOMAIN id : k = id[i]
    BY DEF Elems
<1> QED
    BY <1>1, <1>2, ElementOfSeq, LenProperties

LEMMA Around ==
    ASSUME NEW cs, NEW id, NEW ca, NEW n, PoolFits(cs, id, ca, n), NEW cs2, Alike(cs, cs2, 0)
    PROVE  PoolFits(cs2, id, ca, n)
<1>1. ConnsFit(cs) /\ CallsFit(ca, cs) /\ IdleFit(id, cs) /\ Apart(id, ca) /\ Owned(cs, id, ca) /\ UpFits(cs, id, ca)
      /\ n = Cardinality(Counted(cs, ca))
    BY DEF PoolFits
<1>2. DOMAIN cs2 = DOMAIN cs /\ IsSeq(cs2)
      /\ \A k \in DOMAIN cs : IsConn(cs2[k]) /\ cs2[k].st = cs[k].st /\ (k # 0 => cs2[k].up = cs[k].up)
    BY DEF Alike
<1>3. ConnsFit(cs2)
    BY <1>2 DEF ConnsFit
<1>4. CallsFit(ca, cs2)
    BY <1>1, <1>2 DEF CallsFit, IsCall
<1>5. IdleFit(id, cs2)
    BY <1>1, <1>2 DEF IdleFit
<1>6. Owned(cs2, id, ca)
    BY <1>1, <1>2 DEF Owned
<1>7. 0 \notin DOMAIN cs
    BY <1>1, ConnsAre DEF ConnsFit
<1>8. \A k \in DOMAIN cs : cs2[k].up = cs[k].up
    BY <1>2, <1>7
<1>9. UpFits(cs2, id, ca)
    <2>1. \A k \in Elems(id) : cs2[k].up
        BY <1>1, <1>8, IdleIn DEF UpFits
    <2>2. ASSUME NEW c \in Callers, ca[c].pc = "push" PROVE cs2[ca[c].conn].up
        <3>1. ca[c].conn \in DOMAIN cs
            BY <1>1, <2>2 DEF CallsFit, IsCall
        <3> QED
            BY <1>1, <1>8, <2>2, <3>1 DEF UpFits
    <2> QED
        BY <2>1, <2>2 DEF UpFits
<1>10. Counted(cs2, ca) = Counted(cs, ca)
    BY <1>2 DEF Counted
<1> QED
    BY <1>1, <1>3, <1>4, <1>5, <1>6, <1>9, <1>10 DEF PoolFits

(* One caller goes on with the connection that it has.                     *)
LEMMA Runs ==
    ASSUME NEW cs, NEW id, NEW ca, NEW n, PoolFits(cs, id, ca, n), NEW c \in Callers, NEW s, NEW cs2,
           Alike(cs, cs2, ca[c].conn), IsCall(s, cs2), s.conn = ca[c].conn, s.doomed = ca[c].doomed,
           s.url = ca[c].url \/ s.conn = 0, s.pc = "push" => cs2[s.conn].up, NEW ca2, ca2 = [ca EXCEPT ![c] = s]
    PROVE  PoolFits(cs2, id, ca2, n)
<1>1. ConnsFit(cs) /\ CallsFit(ca, cs) /\ IdleFit(id, cs) /\ Apart(id, ca) /\ Owned(cs, id, ca) /\ UpFits(cs, id, ca)
      /\ n = Cardinality(Counted(cs, ca))
    BY DEF PoolFits
<1>2. DOMAIN cs2 = DOMAIN cs /\ IsSeq(cs2)
      /\ \A k \in DOMAIN cs : IsConn(cs2[k]) /\ cs2[k].st = cs[k].st /\ (k # ca[c].conn => cs2[k].up = cs[k].up)
    BY DEF Alike
<1>3. ConnsFit(cs2)
    BY <1>2 DEF ConnsFit
<1>0. DOMAIN ca2 = Callers /\ ca2[c] = s /\ \A d \in Callers : d # c => ca2[d] = ca[d]
    <2>1. DOMAIN ca = Callers
        BY <1>1 DEF CallsFit
    <2> QED
        BY <2>1, SetIs
<1>a. \A d \in Callers : Mine(ca2[d]) = Mine(ca[d])
    <2>1. Mine(s) = Mine(ca[c])
        BY MineKept
    <2> QED
        BY <1>0, <2>1
<1>4. CallsFit(ca2, cs2)
    <2>1. \A d \in Callers : IsCall(ca[d], cs2)
        BY <1>1, <1>2 DEF CallsFit, IsCall
    <2> QED
        BY <2>1, <1>0 DEF CallsFit
<1>5. IdleFit(id, cs2)
    BY <1>1, <1>2 DEF IdleFit
<1>6. Owned(cs2, id, ca2)
    BY <1>1, <1>2, <1>a DEF Owned
<1>7. Apart(id, ca2)
    BY <1>1, <1>a DEF Apart
<1>8. 0 \notin DOMAIN cs
    BY <1>1, ConnsAre DEF ConnsFit
<1>9. UpFits(cs2, id, ca2)
    <2>1. ASSUME NEW k \in Elems(id) PROVE cs2[k].up
        <3>1. k \in DOMAIN cs
            BY <1>1, IdleIn
        <3>2. k \notin Mine(ca[c])
            BY <1>1 DEF Apart
        <3>3. k # ca[c].conn
            BY <3>1, <3>2, <1>8 DEF Mine
        <3> QED
            BY <1>1, <1>2, <3>1, <3>3 DEF UpFits
    <2>2. ASSUME NEW d \in Callers, d # c, ca2[d].pc = "push" PROVE cs2[ca2[d].conn].up
        <3>1. ca2[d] = ca[d]
            BY <1>0, <2>2
        <3>2. ca[d].conn \in DOMAIN cs /\ ca[d].conn # 0
            BY <1>1, <2>2, <3>1 DEF CallsFit, IsCall
        <3>3. ca[d].conn \in Mine(ca[d])
            BY <3>2 DEF Mine
        <3>4. ca[d].conn \notin Mine(ca[c])
            BY <1>1, <3>3, <2>2 DEF Apart
        <3>5. ca[d].conn # ca[c].conn
            BY <3>2, <3>4 DEF Mine
        <3>6. cs[ca[d].conn].up
            BY <1>1, <2>2, <3>1 DEF UpFits
        <3> QED
            BY <1>2, <3>1, <3>2, <3>5, <3>6
    <2>3. s.pc = "push" => cs2[s.conn].up
        OBVIOUS
    <2> QED
        BY <1>0, <2>1, <2>2, <2>3 DEF UpFits
<1>10. Counted(cs2, ca2) = Counted(cs, ca)
    <2>1. ASSUME NEW k \in DOMAIN cs, NEW d \in Callers
          PROVE  (ca2[d].url = Client!NoUrl \/ ca2[d].conn # k) <=> (ca[d].url = Client!NoUrl \/ ca[d].conn # k)
        <3>1. CASE d # c
            BY <1>0, <3>1
        <3>2. CASE d = c
            BY <1>0, <3>2, <1>8
        <3> QED
            BY <3>1, <3>2
    <2> QED
        BY <1>2, <2>1 DEF Counted
<1> QED
    BY <1>1, <1>3, <1>4, <1>5, <1>6, <1>7, <1>9, <1>10 DEF PoolFits

LEMMA Edited ==
    ASSUME NEW cs, ConnsFit(cs), NEW k \in DOMAIN cs, NEW x, IsConn(x), x.st = cs[k].st,
           NEW cs2, cs2 = [cs EXCEPT ![k] = x]
    PROVE  Alike(cs, cs2, k) /\ (x.up = cs[k].up => Alike(cs, cs2, 0))
<1>1. IsSeq(cs) /\ \A j \in DOMAIN cs : IsConn(cs[j])
    BY DEF ConnsFit
<1>2. PICK n \in Nat : cs = [i \in 1..n |-> cs[i]]
    BY <1>1 DEF IsSeq
<1>3. DOMAIN cs2 = DOMAIN cs /\ cs2[k] = x /\ \A j \in DOMAIN cs : j # k => cs2[j] = cs[j]
    OBVIOUS
<1>4. cs2 = [i \in 1..n |-> cs2[i]]
    <2>1. DOMAIN cs = 1..n
        BY <1>2
    <2> QED
        BY <2>1
<1>5. IsSeq(cs2)
    BY <1>4 DEF IsSeq
<1>6. \A j \in DOMAIN cs : IsConn(cs2[j]) /\ cs2[j].st = cs[j].st
    BY <1>1, <1>3
<1> QED
    BY <1>3, <1>5, <1>6 DEF Alike

LEMMA Unedited ==
    ASSUME NEW cs, ConnsFit(cs), NEW own
    PROVE  Alike(cs, cs, own)
BY DEF Alike, ConnsFit

(* recvResponse never touches what a caller owns.                          *)
Reading == {"recv", "chunk", "data", "body"}
Goes(r, s) ==
    /\ DOMAIN s = CallFields /\ s.conn = r.conn /\ s.doomed = r.doomed /\ s.url = r.url
    /\ s.pc \in Reading \cup {"close", "release"}
LEMMA FinishGoes ==
    ASSUME NEW r, DOMAIN r = CallFields, NEW result, NEW rsp
    PROVE  Goes(r, Client!Finish(r, result, rsp))
BY DEF Goes, Client!Finish, CallFields, Reading

LEMMA TakeBodyGoes ==
    ASSUME NEW r, DOMAIN r = CallFields, NEW q, NEW rest
    PROVE  Goes(r, Client!TakeBody(r, q, rest))
BY FinishGoes DEF Goes, Client!TakeBody, CallFields, Reading

LEMMA TakeHeadGoes ==
    ASSUME NEW r, DOMAIN r = CallFields, r.pc \in Reading, NEW q, NEW buf
    PROVE  Goes(r, Client!TakeHead(r, q, buf))
BY FinishGoes, TakeBodyGoes DEF Goes, Client!TakeHead, CallFields, Reading

LEMMA ChunkGoes ==
    ASSUME NEW r, DOMAIN r = CallFields, r.pc \in Reading, NEW q, NEW buf
    PROVE  Goes(r, Client!Chunk(r, q, buf))
BY FinishGoes DEF Goes, Client!Chunk, CallFields, Reading

LEMMA ChunkHeadGoes ==
    ASSUME NEW r, DOMAIN r = CallFields, r.pc \in Reading, NEW q, NEW buf
    PROVE  Goes(r, Client!ChunkHead(r, q, buf))
BY FinishGoes, ChunkGoes DEF Goes, Client!ChunkHead, CallFields, Reading

LEMMA Gone ==
    ASSUME NEW r, NEW cs, IsCall(r, cs), r.pc \in Reading, NEW s, Goes(r, s)
    PROVE  IsCall(s, cs)
BY DEF Goes, IsCall, Reading

(* A step of recvResponse: the caller goes on, bytes leave the socket.     *)
Reads(c) ==
    /\ \E s : call' = [call EXCEPT ![c] = s] /\ Goes(call[c], s)
    /\ conns' = conns \/ \E w : conns' = [conns EXCEPT ![call[c].conn] = [conns[call[c].conn] EXCEPT !.wire = w]]
    /\ idle' = idle /\ total' = total

LEMMA TakeReads ==
    ASSUME NEW c, NEW n, NEW most, Client!Take(c, n, most)
    PROVE  /\ \E w : conns' = [conns EXCEPT ![call[c].conn] = [conns[call[c].conn] EXCEPT !.wire = w]]
           /\ idle' = idle /\ total' = total
BY DEF Client!Take

PoolInv == PoolFits(conns, idle, call, total)

LEMMA CallIs ==
    ASSUME PoolInv, NEW c \in Callers
    PROVE  DOMAIN call = Callers /\ IsCall(call[c], conns) /\ DOMAIN call[c] = CallFields
BY DEF PoolInv, PoolFits, CallsFit, IsCall

LEMMA ReadingOwns ==
    ASSUME PoolInv, NEW c \in Callers, call[c].pc \in Reading, Reads(c)
    PROVE  PoolInv'
<1>1. PICK s : call' = [call EXCEPT ![c] = s] /\ Goes(call[c], s)
    BY DEF Reads
<1>2. IsCall(call[c], conns) /\ ConnsFit(conns) /\ PoolFits(conns, idle, call, total)
    BY CallIs DEF PoolInv, PoolFits
<1>3. call[c].conn \in DOMAIN conns
    BY <1>2 DEF IsCall, Reading
<1>4. Alike(conns, conns', call[c].conn)
    <2>1. CASE conns' = conns
        BY <2>1, <1>2, Unedited
    <2>2. ASSUME NEW w, conns' = [conns EXCEPT ![call[c].conn] = [conns[call[c].conn] EXCEPT !.wire = w]]
          PROVE  Alike(conns, conns', call[c].conn)
        <3> DEFINE x == [conns[call[c].conn] EXCEPT !.wire = w]
        <3>1. IsConn(conns[call[c].conn])
            BY <1>2, <1>3 DEF ConnsFit
        <3>2. IsConn(x) /\ x.st = conns[call[c].conn].st
            BY <3>1 DEF IsConn, ConnFields
        <3>3. conns' = [conns EXCEPT ![call[c].conn] = x]
            BY <2>2
        <3> HIDE DEF x
        <3> QED
            BY <1>2, <1>3, <3>2, <3>3, Edited
    <2> QED
        BY <2>1, <2>2 DEF Reads
<1>5. IsCall(s, conns')
    <2>1. IsCall(s, conns)
        BY <1>1, <1>2, Gone
    <2>2. DOMAIN conns' = DOMAIN conns
        BY <1>4 DEF Alike
    <2> QED
        BY <2>1, <2>2 DEF IsCall
<1>6. s.conn = call[c].conn /\ s.doomed = call[c].doomed /\ s.url = call[c].url /\ s.pc # "push"
    BY <1>1 DEF Goes, Reading
<1>7. PoolFits(conns', idle, call', total)
    BY <1>1, <1>2, <1>4, <1>5, <1>6, Runs
<1>8. idle' = idle /\ total' = total
    BY DEF Reads
<1> QED
    BY <1>7, <1>8 DEF PoolInv

LEMMA ReadHeadReads ==
    ASSUME PoolInv, NEW c \in Callers, Client!ReadHead(c)
    PROVE  call[c].pc \in Reading /\ Reads(c)
<1>1. call[c].pc = "recv"
    BY DEF Client!ReadHead
<1>2. PICK n \in Client!Amounts(c, BufferSize) :
        /\ Client!Take(c, n, BufferSize)
        /\ Client!Set(c, Client!TakeHead([call[c] EXCEPT !.cut = @ \cup Client!CutBy(call[c].conn)],
                       Client!R!Execute(Client!ResponseTable, call[c].q, Client!Bytes(c, n), FALSE), Client!Bytes(c, n)))
    BY DEF Client!ReadHead
<1> DEFINE r == [call[c] EXCEPT !.cut = @ \cup Client!CutBy(call[c].conn)]
<1>3. DOMAIN call[c] = CallFields
    BY CallIs
<1>4. DOMAIN r = CallFields /\ r.pc \in Reading /\ r.conn = call[c].conn /\ r.doomed = call[c].doomed /\ r.url = call[c].url
    BY <1>1, <1>3 DEF CallFields, Reading
<1>5. \E q, buf : call' = [call EXCEPT ![c] = Client!TakeHead(r, q, buf)]
    BY <1>2 DEF Client!Set
<1> HIDE DEF r
<1>6. PICK q, buf : call' = [call EXCEPT ![c] = Client!TakeHead(r, q, buf)]
    BY <1>5
<1>7. Goes(r, Client!TakeHead(r, q, buf))
    BY <1>4, TakeHeadGoes
<1>8. Goes(call[c], Client!TakeHead(r, q, buf))
    BY <1>4, <1>7 DEF Goes
<1> QED
    BY <1>1, <1>2, <1>6, <1>8, TakeReads DEF Reads, Reading

LEMMA ReadChunkReads ==
    ASSUME PoolInv, NEW c \in Callers, Client!ReadChunk(c)
    PROVE  call[c].pc \in Reading /\ Reads(c)
<1>1. call[c].pc = "chunk"
    BY DEF Client!ReadChunk
<1>2. PICK n \in Client!Amounts(c, BufferSize) :
        /\ Client!Take(c, n, BufferSize)
        /\ Client!Set(c, Client!ChunkHead([call[c] EXCEPT !.cut = @ \cup Client!CutBy(call[c].conn)],
                       Client!R!Execute(Client!ResponseTable, call[c].q, Client!Bytes(c, n), TRUE), Client!Bytes(c, n)))
    BY DEF Client!ReadChunk
<1> DEFINE r == [call[c] EXCEPT !.cut = @ \cup Client!CutBy(call[c].conn)]
<1>3. DOMAIN call[c] = CallFields
    BY CallIs
<1>4. DOMAIN r = CallFields /\ r.pc \in Reading /\ r.conn = call[c].conn /\ r.doomed = call[c].doomed /\ r.url = call[c].url
    BY <1>1, <1>3 DEF CallFields, Reading
<1>5. \E q, buf : call' = [call EXCEPT ![c] = Client!ChunkHead(r, q, buf)]
    BY <1>2 DEF Client!Set
<1> HIDE DEF r
<1>6. PICK q, buf : call' = [call EXCEPT ![c] = Client!ChunkHead(r, q, buf)]
    BY <1>5
<1>7. Goes(r, Client!ChunkHead(r, q, buf))
    BY <1>4, ChunkHeadGoes
<1>8. Goes(call[c], Client!ChunkHead(r, q, buf))
    BY <1>4, <1>7 DEF Goes
<1> QED
    BY <1>1, <1>2, <1>6, <1>8, TakeReads DEF Reads, Reading

LEMMA ParseChunkReads ==
    ASSUME PoolInv, NEW c \in Callers, Client!ParseChunk(c)
    PROVE  call[c].pc \in Reading /\ Reads(c)
<1>1. call[c].pc = "chunk" /\ conns' = conns /\ idle' = idle /\ total' = total
    BY DEF Client!ParseChunk
<1>2. DOMAIN call[c] = CallFields /\ call[c].pc \in Reading
    BY <1>1, CallIs DEF Reading
<1>3. PICK q, buf : call' = [call EXCEPT ![c] = Client!ChunkHead(call[c], q, buf)]
    BY DEF Client!ParseChunk, Client!Set
<1>4. Goes(call[c], Client!ChunkHead(call[c], q, buf))
    BY <1>2, ChunkHeadGoes
<1> QED
    BY <1>1, <1>2, <1>3, <1>4 DEF Reads

LEMMA ReadDataReads ==
    ASSUME PoolInv, NEW c \in Callers, Client!ReadData(c)
    PROVE  call[c].pc \in Reading /\ Reads(c)
<1>1. call[c].pc = "data" /\ \E n, most : Client!Take(c, n, most)
    BY DEF Client!ReadData
<1>2. DOMAIN call[c] = CallFields /\ call[c].pc \in Reading
    BY <1>1, CallIs DEF Reading
<1>3. \E all, cut, n : call' = [call EXCEPT ![c] =
        IF n < call[c].need THEN [call[c] EXCEPT !.body = all, !.need = @ - n]
        ELSE IF call[c].q.m.done THEN Client!Finish(call[c], "OK", Client!WithBody(call[c].q, cut))
        ELSE [call[c] EXCEPT !.pc = "chunk", !.body = cut, !.need = 0, !.begin = TRUE]]
    BY DEF Client!ReadData, Client!Set
<1>4. PICK all, cut, n : call' = [call EXCEPT ![c] =
        IF n < call[c].need THEN [call[c] EXCEPT !.body = all, !.need = @ - n]
        ELSE IF call[c].q.m.done THEN Client!Finish(call[c], "OK", Client!WithBody(call[c].q, cut))
        ELSE [call[c] EXCEPT !.pc = "chunk", !.body = cut, !.need = 0, !.begin = TRUE]]
    BY <1>3
<1>5. Goes(call[c], Client!Finish(call[c], "OK", Client!WithBody(call[c].q, cut)))
    BY <1>2, FinishGoes
<1>6. Goes(call[c], [call[c] EXCEPT !.body = all, !.need = @ - n])
    BY <1>2 DEF Goes, CallFields, Reading
<1>7. Goes(call[c], [call[c] EXCEPT !.pc = "chunk", !.body = cut, !.need = 0, !.begin = TRUE])
    BY <1>2 DEF Goes, CallFields, Reading
<1>8. \E s : call' = [call EXCEPT ![c] = s] /\ Goes(call[c], s)
    BY <1>4, <1>5, <1>6, <1>7
<1> QED
    BY <1>1, <1>2, <1>8, TakeReads DEF Reads

LEMMA ReadBodyReads ==
    ASSUME PoolInv, NEW c \in Callers, Client!ReadBody(c)
    PROVE  call[c].pc \in Reading /\ Reads(c)
<1>1. call[c].pc = "body" /\ \E n, most : Client!Take(c, n, most)
    BY DEF Client!ReadBody
<1>2. DOMAIN call[c] = CallFields /\ call[c].pc \in Reading
    BY <1>1, CallIs DEF Reading
<1>3. \E bytes, n : call' = [call EXCEPT ![c] =
        IF n < call[c].need THEN [call[c] EXCEPT !.body = bytes, !.at = @ + n, !.need = @ - n]
        ELSE Client!Finish(call[c], "OK", Client!WithBody(call[c].q, bytes))]
    BY DEF Client!ReadBody, Client!Set
<1>4. PICK bytes, n : call' = [call EXCEPT ![c] =
        IF n < call[c].need THEN [call[c] EXCEPT !.body = bytes, !.at = @ + n, !.need = @ - n]
        ELSE Client!Finish(call[c], "OK", Client!WithBody(call[c].q, bytes))]
    BY <1>3
<1>5. Goes(call[c], Client!Finish(call[c], "OK", Client!WithBody(call[c].q, bytes)))
    BY <1>2, FinishGoes
<1>6. Goes(call[c], [call[c] EXCEPT !.body = bytes, !.at = @ + n, !.need = @ - n])
    BY <1>2 DEF Goes, CallFields, Reading
<1>8. \E s : call' = [call EXCEPT ![c] = s] /\ Goes(call[c], s)
    BY <1>4, <1>5, <1>6
<1> QED
    BY <1>1, <1>2, <1>8, TakeReads DEF Reads

LEMMA EndsGoes ==
    ASSUME PoolInv, NEW c \in Callers, NEW late, Client!Ends(c, late)
    PROVE  \E s : call' = [call EXCEPT ![c] = s] /\ Goes(call[c], s)
<1> DEFINE f == Client!Finish(call[c], "TIMEOUT", Client!R!HttpResponse)
<1>1. call' = [call EXCEPT ![c] = [f EXCEPT !.late = late]]
    BY DEF Client!Ends, Client!Set
<1>2. DOMAIN call[c] = CallFields
    BY CallIs
<1>3. Goes(call[c], f)
    BY <1>2, FinishGoes
<1> HIDE DEF f
<1>4. Goes(call[c], [f EXCEPT !.late = late])
    BY <1>3 DEF Goes, CallFields
<1> QED
    BY <1>1, <1>4

LEMMA ReadEndsReads ==
    ASSUME PoolInv, NEW c \in Callers, Client!ReadEnds(c)
    PROVE  call[c].pc \in Reading /\ Reads(c)
<1>1. call[c].pc \in Reading /\ Client!Ends(c, call[c].late) /\ conns' = conns /\ idle' = idle /\ total' = total
    BY DEF Client!ReadEnds, Reading
<1> QED
    BY <1>1, EndsGoes DEF Reads

LEMMA ReadTimesOutReads ==
    ASSUME PoolInv, NEW c \in Callers, Client!ReadTimesOut(c)
    PROVE  call[c].pc \in Reading /\ Reads(c)
<1>1. call[c].pc \in Reading /\ conns' = conns /\ idle' = idle /\ total' = total
    BY DEF Client!ReadTimesOut, Reading
<1>2. CASE Client!Ends(c, TRUE)
    BY <1>1, <1>2, EndsGoes DEF Reads
<1>3. CASE Client!Set(c, [call[c] EXCEPT !.at = @ - 1, !.need = @ + 1, !.late = TRUE])
    <2>1. DOMAIN call[c] = CallFields
        BY CallIs
    <2>2. Goes(call[c], [call[c] EXCEPT !.at = @ - 1, !.need = @ + 1, !.late = TRUE])
        BY <1>1, <2>1 DEF Goes, CallFields
    <2> QED
        BY <1>1, <1>3, <2>2 DEF Reads, Client!Set
<1> QED
    BY <1>2, <1>3 DEF Client!ReadTimesOut

(* The other steps of a caller that keeps what it has.                     *)
Steps(c, s) ==
    /\ call' = [call EXCEPT ![c] = s] /\ idle' = idle /\ total' = total
    /\ IsCall(s, conns) /\ s.conn = call[c].conn /\ s.doomed = call[c].doomed
    /\ s.url = call[c].url \/ s.conn = 0
LEMMA StepKeeps ==
    ASSUME PoolInv, NEW c \in Callers, NEW s, Steps(c, s), Alike(conns, conns', call[c].conn),
           s.pc = "push" => conns'[s.conn].up
    PROVE  PoolInv'
<1>1. /\ call' = [call EXCEPT ![c] = s] /\ idle' = idle /\ total' = total
      /\ IsCall(s, conns) /\ s.conn = call[c].conn /\ s.doomed = call[c].doomed
      /\ s.url = call[c].url \/ s.conn = 0
    BY DEF Steps
<1>2. IsCall(s, conns')
    <2>1. DOMAIN conns' = DOMAIN conns
        BY DEF Alike
    <2> QED
        BY <1>1, <2>1 DEF IsCall
<1>3. PoolFits(conns, idle, call, total)
    BY DEF PoolInv
<1>4. PoolFits(conns', idle, call', total)
    BY <1>1, <1>2, <1>3, Runs
<1> QED
    BY <1>1, <1>4 DEF PoolInv

LEMMA FreshCall ==
    ASSUME NEW s, DOMAIN s = CallFields, s.conn = 0, s.doomed = <<>>, NEW cs,
           s.pc \in {"idle", "pop", "connect", "release"}, s.pc = "pop" => s.url = Client!NoUrl
    PROVE  IsCall(s, cs)
<1>1. s.doomed \in Seq(DOMAIN cs) /\ DOMAIN s.doomed = {}
    BY EmptySeq
<1>2. Elems(s.doomed) = {} /\ Once(s.doomed)
    BY <1>1 DEF Elems, Once
<1> QED
    BY <1>1, <1>2 DEF IsCall

LEMMA Unmoved ==
    ASSUME PoolInv, NEW own
    PROVE  ConnsFit(conns) /\ Alike(conns, conns, own)
BY Unedited DEF PoolInv, PoolFits

LEMMA IdleCall ==
    ASSUME PoolInv, NEW c \in Callers, call[c].pc \in {"idle", "pop", "connect"}
    PROVE  call[c].conn = 0 /\ call[c].doomed = <<>>
BY CallIs DEF IsCall

LEMMA BeginKeeps ==
    ASSUME PoolInv, NEW c \in Callers, NEW h, Client!Begin(c, h)
    PROVE  PoolInv'
<1> DEFINE s == [Client!NoCall EXCEPT !.pc = "pop", !.now = time, !.tag = Tags[calls + 1], !.headers = h]
<1>1. call' = [call EXCEPT ![c] = s] /\ idle' = idle /\ total' = total /\ conns' = conns
    BY DEF Client!Begin, Client!Set
<1>2. call[c].conn = 0 /\ call[c].doomed = <<>>
    BY IdleCall DEF Client!Begin
<1>3. DOMAIN s = CallFields /\ s.conn = 0 /\ s.doomed = <<>> /\ s.pc = "pop" /\ s.url = Client!NoUrl
    BY NoCallIs DEF CallFields
<1> HIDE DEF s
<1>4. IsCall(s, conns)
    BY <1>3, FreshCall
<1>5. Steps(c, s)
    BY <1>1, <1>2, <1>3, <1>4 DEF Steps
<1>6. Alike(conns, conns', call[c].conn)
    BY <1>1, Unmoved
<1> QED
    BY <1>3, <1>5, <1>6, StepKeeps

LEMMA BeginUrlKeeps ==
    ASSUME PoolInv, NEW c \in Callers, NEW u, NEW h, Client!BeginUrl(c, u, h)
    PROVE  PoolInv'
<1>1. idle' = idle /\ total' = total /\ conns' = conns
    BY DEF Client!BeginUrl
<1>0. \E made, res : call' = [call EXCEPT ![c] = [Client!NoCall EXCEPT !.url = u, !.tag = Tags[1], !.headers = h,
                              !.pc = IF made.is = "uri" THEN "connect" ELSE "release", !.result = res]]
    BY Zenon DEF Client!BeginUrl, Client!Set
<1>a. PICK made, res : call' = [call EXCEPT ![c] = [Client!NoCall EXCEPT !.url = u, !.tag = Tags[1], !.headers = h,
                              !.pc = IF made.is = "uri" THEN "connect" ELSE "release", !.result = res]]
    BY <1>0
<1> DEFINE s == [Client!NoCall EXCEPT !.url = u, !.tag = Tags[1], !.headers = h,
                              !.pc = IF made.is = "uri" THEN "connect" ELSE "release", !.result = res]
<1>b. call' = [call EXCEPT ![c] = s]
    BY <1>a
<1>2. call[c].conn = 0 /\ call[c].doomed = <<>>
    BY IdleCall DEF Client!BeginUrl
<1>3. DOMAIN s = CallFields /\ s.conn = 0 /\ s.doomed = <<>> /\ s.pc \in {"connect", "release"}
    BY NoCallIs DEF CallFields
<1> HIDE DEF s
<1>4. IsCall(s, conns)
    BY <1>3, FreshCall
<1>5. Steps(c, s)
    BY <1>b, <1>1, <1>2, <1>3, <1>4 DEF Steps
<1>6. Alike(conns, conns', call[c].conn)
    BY <1>1, Unmoved
<1> QED
    BY <1>3, <1>5, <1>6, StepKeeps

LEMMA ConnectFailsKeeps ==
    ASSUME PoolInv, NEW c \in Callers, Client!ConnectFails(c)
    PROVE  PoolInv'
<1>1. idle' = idle /\ total' = total /\ conns' = conns
    BY DEF Client!ConnectFails
<1>0. PICK why : call' = [call EXCEPT ![c] = [call[c] EXCEPT !.result = why, !.pc = "release"]]
    BY DEF Client!ConnectFails, Client!Set
<1> DEFINE s == [call[c] EXCEPT !.result = why, !.pc = "release"]
<1>b. call' = [call EXCEPT ![c] = s]
    BY <1>0
<1>2. call[c].conn = 0 /\ call[c].doomed = <<>>
    BY IdleCall DEF Client!ConnectFails
<1>3. DOMAIN s = CallFields /\ s.conn = 0 /\ s.doomed = <<>> /\ s.pc = "release"
    BY <1>2, CallIs DEF CallFields
<1> HIDE DEF s
<1>4. IsCall(s, conns)
    BY <1>3, FreshCall
<1>5. Steps(c, s)
    BY <1>b, <1>1, <1>2, <1>3, <1>4 DEF Steps
<1>6. Alike(conns, conns', call[c].conn)
    BY <1>1, Unmoved
<1> QED
    BY <1>3, <1>5, <1>6, StepKeeps

LEMMA OwnConn ==
    ASSUME PoolInv, NEW c \in Callers, call[c].conn # 0
    PROVE  /\ call[c].conn \in DOMAIN conns /\ IsConn(conns[call[c].conn]) /\ ConnsFit(conns)
           /\ call[c].conn \in Mine(call[c])
BY CallIs DEF PoolInv, PoolFits, ConnsFit, IsCall, Mine

LEMMA SendRequestKeeps ==
    ASSUME PoolInv, NEW c \in Callers, Client!SendRequest(c)
    PROVE  PoolInv'
<1> DEFINE s == [call[c] EXCEPT !.pc = "recv"]
           k == call[c].conn
<1>0. PICK e : conns' = [conns EXCEPT ![k] = [conns[k] EXCEPT !.asked = e]]
    BY DEF Client!SendRequest
<1>1. call' = [call EXCEPT ![c] = s] /\ idle' = idle /\ total' = total /\ call[c].pc = "send"
    BY DEF Client!SendRequest, Client!Set
<1>2. IsCall(call[c], conns)
    BY CallIs
<1>3. DOMAIN s = CallFields /\ s.conn = call[c].conn /\ s.doomed = call[c].doomed /\ s.url = call[c].url /\ s.pc = "recv"
    BY <1>2 DEF CallFields, IsCall
<1>4. IsCall(s, conns)
    BY <1>1, <1>2, <1>3 DEF IsCall
<1>5. Steps(c, s)
    BY <1>1, <1>3, <1>4 DEF Steps
<1>6. call[c].conn # 0
    BY <1>1, <1>2 DEF IsCall
<1> DEFINE x == [conns[k] EXCEPT !.asked = e]
<1>7. IsConn(x) /\ x.st = conns[k].st
    BY <1>6, OwnConn DEF IsConn, ConnFields
<1>8. conns' = [conns EXCEPT ![k] = x]
    BY <1>0
<1> HIDE DEF x
<1>9. Alike(conns, conns', call[c].conn)
    BY <1>6, <1>7, <1>8, OwnConn, Edited
<1> QED
    BY <1>3, <1>5, <1>9, StepKeeps

LEMMA CloseKeeps ==
    ASSUME PoolInv, NEW c \in Callers, Client!Close(c)
    PROVE  PoolInv'
<1> DEFINE s == [call[c] EXCEPT !.pc = "release"]
           k == call[c].conn
           x == [conns[k] EXCEPT !.up = FALSE]
<1>0. conns' = [conns EXCEPT ![k] = x]
    BY DEF Client!Close
<1>1. call' = [call EXCEPT ![c] = s] /\ idle' = idle /\ total' = total /\ call[c].pc = "close"
    BY DEF Client!Close, Client!Set
<1>2. IsCall(call[c], conns)
    BY CallIs
<1>3. DOMAIN s = CallFields /\ s.conn = call[c].conn /\ s.doomed = call[c].doomed /\ s.url = call[c].url /\ s.pc = "release"
    BY <1>2 DEF CallFields, IsCall
<1>4. IsCall(s, conns)
    BY <1>1, <1>2, <1>3 DEF IsCall
<1>5. Steps(c, s)
    BY <1>1, <1>3, <1>4 DEF Steps
<1>6. call[c].conn # 0
    BY <1>1, <1>2 DEF IsCall
<1>7. IsConn(x) /\ x.st = conns[k].st
    BY <1>6, OwnConn DEF IsConn, ConnFields
<1> HIDE DEF x
<1>9. Alike(conns, conns', call[c].conn)
    BY <1>6, <1>7, <1>0, OwnConn, Edited
<1> QED
    BY <1>3, <1>5, <1>9, StepKeeps

LEMMA EditedAt ==
    ASSUME NEW cs, ConnsFit(cs), NEW k \in DOMAIN cs, NEW cs2, cs2 = [j \in DOMAIN cs |-> cs2[j]],
           \A j \in DOMAIN cs : j # k => cs2[j] = cs[j], IsConn(cs2[k]), cs2[k].st = cs[k].st
    PROVE  Alike(cs, cs2, k) /\ (cs2[k].up = cs[k].up => Alike(cs, cs2, 0))
<1> DEFINE x == cs2[k]
<1>1. cs2 = [cs EXCEPT ![k] = x]
    OBVIOUS
<1>2. IsConn(x) /\ x.st = cs[k].st
    OBVIOUS
<1> HIDE DEF x
<1>3. Alike(cs, cs2, k) /\ (x.up = cs[k].up => Alike(cs, cs2, 0))
    BY <1>1, <1>2, Edited
<1> QED
    BY <1>3 DEF x

LEMMA RespondKeeps ==
    ASSUME PoolInv, NEW k \in DOMAIN conns, NEW kind, Client!Respond(k, kind)
    PROVE  PoolInv'
<1>0. PICK w, t : conns' = [conns EXCEPT ![k].wire = @ \o w, ![k].asked = Tail(@), ![k].kind = kind, ![k].to = t]
    BY DEF Client!Respond
<1>1. ConnsFit(conns) /\ IsConn(conns[k])
    BY DEF PoolInv, PoolFits, ConnsFit
<1>2. conns' = [j \in DOMAIN conns |-> conns'[j]] /\ \A j \in DOMAIN conns : j # k => conns'[j] = conns[j]
    BY <1>0
<1>3. /\ DOMAIN conns'[k] = ConnFields /\ conns'[k].reqs = conns[k].reqs
      /\ conns'[k].st = conns[k].st /\ conns'[k].up = conns[k].up
    BY <1>0, <1>1 DEF IsConn, ConnFields
<1>4. IsConn(conns'[k])
    BY <1>1, <1>3 DEF IsConn
<1>5. Alike(conns, conns', 0)
    BY <1>1, <1>2, <1>3, <1>4, EditedAt
<1>6. idle' = idle /\ call' = call /\ total' = total
    BY DEF Client!Respond
<1> QED
    BY <1>5, <1>6, Around DEF PoolInv

LEMMA PeerClosesKeeps ==
    ASSUME PoolInv, NEW k \in DOMAIN conns, Client!PeerCloses(k)
    PROVE  PoolInv'
<1>0. PICK w : conns' = [conns EXCEPT ![k].peer = "closed", ![k].wire = w, ![k].asked = <<>>]
    BY DEF Client!PeerCloses
<1>1. ConnsFit(conns) /\ IsConn(conns[k])
    BY DEF PoolInv, PoolFits, ConnsFit
<1>2. conns' = [j \in DOMAIN conns |-> conns'[j]] /\ \A j \in DOMAIN conns : j # k => conns'[j] = conns[j]
    BY <1>0
<1>3. /\ DOMAIN conns'[k] = ConnFields /\ conns'[k].reqs = conns[k].reqs
      /\ conns'[k].st = conns[k].st /\ conns'[k].up = conns[k].up
    BY <1>0, <1>1 DEF IsConn, ConnFields
<1>4. IsConn(conns'[k])
    BY <1>1, <1>3 DEF IsConn
<1>5. Alike(conns, conns', 0)
    BY <1>1, <1>2, <1>3, <1>4, EditedAt
<1>6. idle' = idle /\ call' = call /\ total' = total
    BY DEF Client!PeerCloses
<1> QED
    BY <1>5, <1>6, Around DEF PoolInv

(* ReleasePtr that puts the connection aside for the pool.                 *)
LEMMA KeepKeeps ==
    ASSUME PoolInv, NEW c \in Callers, call[c].pc = "release", call[c].conn # 0, Client!Pooled(c),
           Client!Kept(Client!Conn(c)), total' = total, idle' = idle, MaxRequest \in Nat,
           conns' = [conns EXCEPT ![call[c].conn].reqs = @ + 1,
                                  ![call[c].conn].dirty = @ \/ call[c].cut \cap {"framing", "size"} # {}],
           Client!Set(c, [Client!NoCall EXCEPT !.pc = "push", !.conn = call[c].conn])
    PROVE  PoolInv'
<1> DEFINE k == call[c].conn
           s == [Client!NoCall EXCEPT !.pc = "push", !.conn = k]
<1>1. k \in DOMAIN conns /\ IsConn(conns[k]) /\ ConnsFit(conns) /\ k # 0
    BY OwnConn
<1>2. conns' = [j \in DOMAIN conns |-> conns'[j]] /\ \A j \in DOMAIN conns : j # k => conns'[j] = conns[j]
    OBVIOUS
<1>3. /\ DOMAIN conns'[k] = ConnFields /\ conns'[k].reqs = conns[k].reqs + 1
      /\ conns'[k].st = conns[k].st /\ conns'[k].up = conns[k].up
    BY <1>1 DEF IsConn, ConnFields
<1>4. conns[k].up /\ conns[k].reqs + 1 < MaxRequest
    BY DEF Client!Kept, Client!Conn
<1>5. IsConn(conns'[k])
    BY <1>1, <1>3, <1>4 DEF IsConn
<1>6. Alike(conns, conns', k)
    BY <1>1, <1>2, <1>3, <1>5, EditedAt
<1>7. DOMAIN s = CallFields /\ s.conn = k /\ s.doomed = <<>> /\ s.pc = "push" /\ s.url = Client!NoUrl
    BY NoCallIs DEF CallFields
<1>8. call[c].doomed = <<>> /\ call[c].url = Client!NoUrl
    BY CallIs DEF IsCall, Client!Pooled
<1>9. call' = [call EXCEPT ![c] = s]
    BY DEF Client!Set
<1> HIDE DEF s
<1>10. IsCall(s, conns)
    <2>1. s.doomed \in Seq(DOMAIN conns) /\ DOMAIN s.doomed = {}
        BY <1>7, EmptySeq
    <2>2. Elems(s.doomed) = {} /\ Once(s.doomed)
        BY <2>1 DEF Elems, Once
    <2> QED
        BY <1>1, <1>7, <2>1, <2>2 DEF IsCall
<1>11. Steps(c, s)
    BY <1>7, <1>8, <1>9, <1>10 DEF Steps
<1>12. conns'[s.conn].up
    BY <1>3, <1>4, <1>7
<1> QED
    BY <1>6, <1>11, <1>12, StepKeeps

(* ReleasePtr of a call that never got a connection.                       *)
LEMMA ForgetKeeps ==
    ASSUME PoolInv, NEW c \in Callers, call[c].pc = "release", call[c].conn = 0,
           total' = total, idle' = idle, conns' = conns, Client!Set(c, Client!NoCall)
    PROVE  PoolInv'
<1>1. call' = [call EXCEPT ![c] = Client!NoCall]
    BY DEF Client!Set
<1>2. call[c].doomed = <<>>
    BY CallIs DEF IsCall
<1>3. IsCall(Client!NoCall, conns)
    BY NoCallIs, FreshCall
<1>4. Steps(c, Client!NoCall)
    BY <1>1, <1>2, <1>3, NoCallIs DEF Steps
<1>5. Alike(conns, conns', call[c].conn)
    BY Unmoved
<1> QED
    BY <1>4, <1>5, StepKeeps, NoCallIs

(* A caller and the list of idle connections exchange connections.         *)
LEMMA Exchange ==
    ASSUME NEW cs, NEW id, NEW ca, NEW n, PoolFits(cs, id, ca, n), NEW c \in Callers, NEW s, NEW id2,
           IdleFit(id2, cs), IsCall(s, cs), s.pc # "push", s.url = Client!NoUrl, ca[c].url = Client!NoUrl,
           Mine(s) \cup Elems(id2) = Mine(ca[c]) \cup Elems(id), Mine(s) \cap Elems(id2) = {},
           \A k \in Elems(id2) : cs[k].up, NEW ca2, ca2 = [ca EXCEPT ![c] = s]
    PROVE  PoolFits(cs, id2, ca2, n)
<1>1. ConnsFit(cs) /\ CallsFit(ca, cs) /\ Apart(id, ca) /\ Owned(cs, id, ca) /\ UpFits(cs, id, ca)
      /\ n = Cardinality(Counted(cs, ca))
    BY DEF PoolFits
<1>2. DOMAIN ca2 = Callers /\ ca2[c] = s /\ \A d \in Callers : d # c => ca2[d] = ca[d]
    <2>1. DOMAIN ca = Callers
        BY <1>1 DEF CallsFit
    <2> QED
        BY <2>1, SetIs
<1>3. CallsFit(ca2, cs)
    BY <1>1, <1>2 DEF CallsFit
<1>4. \A d \in Callers : \A k \in Mine(ca2[d]) : d # c => k \in Mine(ca[d]) /\ k \notin Elems(id) /\ k \notin Mine(ca[c])
    BY <1>1, <1>2 DEF Apart
<1>5. \A d \in Callers : \A k \in Mine(ca2[d]) : k \notin Elems(id2)
    <2>1. ASSUME NEW d \in Callers, NEW k \in Mine(ca2[d]), d = c PROVE k \notin Elems(id2)
        BY <1>2, <2>1
    <2>2. ASSUME NEW d \in Callers, NEW k \in Mine(ca2[d]), d # c PROVE k \notin Elems(id2)
        BY <1>4, <2>2
    <2> QED
        BY <2>1, <2>2
<1>6. ASSUME NEW d \in Callers, NEW e \in Callers, NEW k \in Mine(ca2[d]), k \in Mine(ca2[e]) PROVE d = e
    <2>1. CASE d = c /\ e = c
        BY <2>1
    <2>2. CASE d = c /\ e # c
        <3>1. k \notin Elems(id) /\ k \notin Mine(ca[c])
            BY <1>4, <1>6, <2>2
        <3> QED
            BY <3>1, <1>2, <2>2
    <2>3. CASE d # c /\ e = c
        <3>1. k \notin Elems(id) /\ k \notin Mine(ca[c])
            BY <1>4, <2>3
        <3> QED
            BY <3>1, <1>2, <1>6, <2>3
    <2>4. CASE d # c /\ e # c
        BY <1>1, <1>2, <1>6, <2>4 DEF Apart
    <2> QED
        BY <2>1, <2>2, <2>3, <2>4
<1>7. Apart(id2, ca2)
    BY <1>5, <1>6 DEF Apart
<1>8. ASSUME NEW k
      PROVE (k \in Elems(id) \/ \E d \in Callers : k \in Mine(ca[d]))
            <=> (k \in Elems(id2) \/ \E d \in Callers : k \in Mine(ca2[d]))
    <2>1. k \in Elems(id) \cup Mine(ca[c]) <=> k \in Elems(id2) \cup Mine(ca2[c])
        BY <1>2
    <2>2. (\E d \in Callers : d # c /\ k \in Mine(ca[d])) <=> (\E d \in Callers : d # c /\ k \in Mine(ca2[d]))
        BY <1>2
    <2> QED
        BY <2>1, <2>2
<1>9. Owned(cs, id2, ca2)
    BY <1>1, <1>8 DEF Owned
<1>10. UpFits(cs, id2, ca2)
    BY <1>1, <1>2 DEF UpFits
<1>11. Counted(cs, ca2) = Counted(cs, ca)
    <2>1. ASSUME NEW k, NEW d \in Callers
          PROVE  (ca2[d].url = Client!NoUrl \/ ca2[d].conn # k) <=> (ca[d].url = Client!NoUrl \/ ca[d].conn # k)
        <3>1. CASE d # c
            BY <1>2, <3>1
        <3>2. CASE d = c
            BY <1>2, <3>2
        <3> QED
            BY <3>1, <3>2
    <2> QED
        BY <2>1 DEF Counted
<1> QED
    BY <1>1, <1>3, <1>7, <1>9, <1>10, <1>11 DEF PoolFits

LEMMA Slice ==
    ASSUME NEW D, NEW s \in Seq(D), Once(s), NEW m \in Nat \ {0}, NEW n \in Nat, n <= Len(s)
    PROVE  /\ SubSeq(s, m, n) \in Seq(D) /\ Once(SubSeq(s, m, n))
           /\ Elems(SubSeq(s, m, n)) = {s[i] : i \in m..n}
<1> DEFINE t == SubSeq(s, m, n)
<1>1. Len(s) \in Nat /\ DOMAIN s = 1..Len(s) /\ \A i \in 1..Len(s) : s[i] \in D
    BY LenProperties, ElementOfSeq
<1>2. \A i \in m..n : s[i] \in D /\ i \in DOMAIN s
    BY <1>1
<1>3. t \in Seq(D) /\ Len(t) = (IF m <= n THEN n - m + 1 ELSE 0) /\ \A i \in 1..(n - m + 1) : t[i] = s[m + i - 1]
    BY <1>2, SubSeqProperties
<1>4. DOMAIN t = 1..Len(t)
    BY <1>3, LenProperties
<1> HIDE DEF t
<1>5. ASSUME NEW i \in DOMAIN t PROVE (m + i) - 1 \in m..n /\ t[i] = s[(m + i) - 1] /\ i \in Nat
    BY <1>3, <1>4
<1>6. Once(t)
    <2>1. ASSUME NEW i \in DOMAIN t, NEW j \in DOMAIN t, t[i] = t[j] PROVE i = j
        <3>1. (m + i) - 1 = (m + j) - 1
            BY <1>2, <1>5, <2>1 DEF Once
        <3> QED
            BY <1>5, <3>1
    <2> QED
        BY <2>1 DEF Once
<1>7. \A x \in Elems(t) : x \in {s[i] : i \in m..n}
    BY <1>5 DEF Elems
<1>8. ASSUME NEW i \in m..n PROVE s[i] \in Elems(t)
    <2>1. (i - m) + 1 \in DOMAIN t /\ t[(i - m) + 1] = s[i]
        BY <1>3, <1>4
    <2> QED
        BY <2>1 DEF Elems
<1>9. Elems(t) = {s[i] : i \in m..n}
    BY <1>7, <1>8
<1> QED
    BY <1>3, <1>6, <1>9 DEF t

(* getConnection takes the connections before the first usable one as      *)
(* doomed and that one as its own.                                         *)
LEMMA PopKeeps ==
    ASSUME PoolInv, NEW c \in Callers, Client!Pop(c)
    PROVE  PoolInv'
<1> DEFINE D == DOMAIN conns
           good == {i \in DOMAIN idle : Client!Fresh(idle[i], call[c].now)}
<1>0. /\ PoolFits(conns, idle, call, total) /\ ConnsFit(conns) /\ IdleFit(idle, conns) /\ UpFits(conns, idle, call)
      /\ IsCall(call[c], conns) /\ call[c].pc = "pop" /\ conns' = conns /\ total' = total
    BY CallIs DEF PoolInv, PoolFits, Client!Pop
<1>1. idle \in Seq(D) /\ Once(idle) /\ Len(idle) \in Nat /\ DOMAIN idle = 1..Len(idle)
    <2>1. idle \in Seq(D) /\ Once(idle)
        BY <1>0 DEF IdleFit
    <2> QED
        BY <2>1, LenProperties
<1>2. PICK n, f : /\ n \in Nat /\ n <= Len(idle) /\ f \in {1, 2} /\ (f = 2 => n < Len(idle))
                  /\ idle' = SubSeq(idle, n + f, Len(idle))
                  /\ call' = [call EXCEPT ![c] = [call[c] EXCEPT !.doomed = SubSeq(idle, 1, n),
                                     !.conn = IF f = 2 THEN idle[n + 1] ELSE 0,
                                     !.pc = IF n > 0 THEN "drop" ELSE IF f = 2 THEN "send" ELSE "connect"]]
    <2>1. CASE good = {}
        <3>1. /\ idle' = SubSeq(idle, Len(idle) + 1, Len(idle))
              /\ call' = [call EXCEPT ![c] = [call[c] EXCEPT !.doomed = SubSeq(idle, 1, Len(idle)), !.conn = 0,
                                     !.pc = IF Len(idle) > 0 THEN "drop" ELSE "connect"]]
            BY <2>1 DEF Client!Pop, Client!Set
        <3> WITNESS Len(idle), 1
        <3> QED
            BY <1>1, <3>1
    <2>2. CASE good # {}
        <3> DEFINE i == CHOOSE x \in good : \A y \in good : x <= y
        <3>1. \A x \in good : x \in Nat
            BY <1>1
        <3>2. i \in good
            <4>1. \E z \in good : \A y \in good : z <= y
                BY <2>2, <3>1, MinIsFirst
            <4> QED
                BY <4>1
        <3>3. i \in 1..Len(idle) /\ i - 1 \in Nat /\ i - 1 < Len(idle)
            BY <1>1, <3>2
        <3>4. /\ idle' = SubSeq(idle, (i - 1) + 2, Len(idle))
              /\ call' = [call EXCEPT ![c] = [call[c] EXCEPT !.doomed = SubSeq(idle, 1, i - 1), !.conn = idle[(i - 1) + 1],
                                     !.pc = IF i - 1 > 0 THEN "drop" ELSE "send"]]
            BY <2>2 DEF Client!Pop, Client!Set
        <3> HIDE DEF i
        <3> WITNESS i - 1, 2
        <3> QED
            BY <1>1, <3>3, <3>4
    <2> QED
        BY <2>1, <2>2
<1> DEFINE s == [call[c] EXCEPT !.doomed = SubSeq(idle, 1, n),
                                     !.conn = IF f = 2 THEN idle[n + 1] ELSE 0,
                                     !.pc = IF n > 0 THEN "drop" ELSE IF f = 2 THEN "send" ELSE "connect"]
           gone == SubSeq(idle, 1, n)
           left == SubSeq(idle, n + f, Len(idle))
<1> HIDE DEF good
<1>3. gone \in Seq(D) /\ Once(gone) /\ Elems(gone) = {idle[i] : i \in 1..n}
    <2>1. 1 \in Nat \ {0} /\ n \in Nat /\ n <= Len(idle)
        BY <1>2
    <2> QED
        BY <1>1, <2>1, Slice
<1>4. left \in Seq(D) /\ Once(left) /\ Elems(left) = {idle[i] : i \in (n + f)..Len(idle)}
    <2>1. n + f \in Nat \ {0} /\ Len(idle) \in Nat /\ Len(idle) <= Len(idle)
        BY <1>1, <1>2
    <2> QED
        BY <1>1, <2>1, Slice
<1>5. /\ DOMAIN s = CallFields /\ s.doomed = gone /\ s.conn = (IF f = 2 THEN idle[n + 1] ELSE 0) /\ s.url = call[c].url
      /\ s.pc = IF n > 0 THEN "drop" ELSE IF f = 2 THEN "send" ELSE "connect"
    BY <1>0 DEF IsCall, CallFields
<1>6. call[c].conn = 0 /\ call[c].doomed = <<>> /\ call[c].url = Client!NoUrl
    BY <1>0 DEF IsCall
<1>7. 0 \notin D /\ \A i \in DOMAIN idle : idle[i] \in D
    <2>1. 0 \notin D
        BY <1>0, ConnsAre DEF ConnsFit
    <2> QED
        BY <2>1, <1>1, ElementOfSeq
<1>8. f = 2 => n + 1 \in DOMAIN idle /\ idle[n + 1] \in D /\ idle[n + 1] # 0
    BY <1>1, <1>2, <1>7
<1>9. n = 0 => gone = <<>>
    BY <1>2, SubSeqEmpty
<1>10. call' = [call EXCEPT ![c] = s] /\ idle' = left
    BY <1>2
<1> HIDE DEF s, gone, left, D
<1>11. f = 2 => idle[n + 1] \notin Elems(gone)
    BY <1>1, <1>2, <1>3, <1>8 DEF Once
<1>12. /\ 0 \notin Elems(gone) /\ 0 \notin Elems(left)
       /\ Elems(gone) \subseteq Elems(idle) /\ Elems(left) \subseteq Elems(idle)
    <2>1. \A i \in 1..n : i \in DOMAIN idle
        BY <1>1, <1>2
    <2>2. \A i \in (n + f)..Len(idle) : i \in DOMAIN idle
        BY <1>1, <1>2
    <2>3. \A i \in DOMAIN idle : idle[i] # 0 /\ idle[i] \in Elems(idle)
        BY <1>7 DEF Elems
    <2>4. \A x \in Elems(gone) : x # 0 /\ x \in Elems(idle)
        BY <2>1, <2>3, <1>3
    <2>5. \A x \in Elems(left) : x # 0 /\ x \in Elems(idle)
        BY <2>2, <2>3, <1>4
    <2> QED
        BY <2>4, <2>5
<1>13. IsCall(s, conns)
    <2>1. s.conn \in {0} \cup D
        BY <1>5, <1>8
    <2>2. s.conn \notin Elems(s.doomed)
        BY <1>5, <1>11, <1>12
    <2>3. s.doomed # <<>> => s.pc = "drop"
        BY <1>5, <1>9, <1>2
    <2>4. s.pc \in {"drop", "send", "connect"} /\ (s.pc = "connect" => s.conn = 0) /\ (s.pc = "send" => s.conn # 0)
        BY <1>5, <1>8
    <2> QED
        BY <1>3, <1>5, <1>6, <2>1, <2>2, <2>3, <2>4 DEF IsCall, D
<1>14. IdleFit(left, conns)
    BY <1>4 DEF IdleFit, D
<1>15. Mine(s) = {idle[i] : i \in 1..(n + f - 1)}
    <2>1. CASE f = 1
        <3>1. s.conn = 0 /\ n + f - 1 = n
            BY <1>2, <1>5, <2>1
        <3> QED
            BY <3>1, <1>3, <1>5, <1>12 DEF Mine
    <2>2. CASE f = 2
        <3>1. s.conn = idle[n + 1] /\ n + f - 1 = n + 1 /\ 1..(n + 1) = (1..n) \cup {n + 1}
            BY <1>2, <1>5, <2>2
        <3>2. {idle[i] : i \in 1..(n + 1)} = {idle[i] : i \in 1..n} \cup {idle[n + 1]}
            BY <3>1
        <3> QED
            BY <3>1, <3>2, <1>3, <1>5, <1>8, <1>12, <2>2 DEF Mine
    <2> QED
        BY <1>2, <2>1, <2>2
<1>16. Mine(call[c]) = {}
    <2>1. Elems(<<>>) = {}
        BY DEF Elems
    <2> QED
        BY <1>6, <2>1 DEF Mine
<1>17. Mine(s) \cup Elems(left) = Mine(call[c]) \cup Elems(idle)
    <2>1. 1..Len(idle) = (1..(n + f - 1)) \cup ((n + f)..Len(idle))
        BY <1>1, <1>2
    <2>2. Elems(idle) = {idle[i] : i \in 1..Len(idle)}
        BY <1>1 DEF Elems
    <2> QED
        BY <2>1, <2>2, <1>4, <1>15, <1>16
<1>18. Mine(s) \cap Elems(left) = {}
    <2>1. ASSUME NEW i \in 1..(n + f - 1), NEW j \in (n + f)..Len(idle) PROVE idle[i] # idle[j]
        <3>1. i \in DOMAIN idle /\ j \in DOMAIN idle /\ i # j
            BY <1>1, <1>2
        <3> QED
            BY <3>1, <1>1 DEF Once
    <2> QED
        BY <2>1, <1>4, <1>15
<1>19. \A k \in Elems(left) : conns[k].up
    BY <1>0, <1>12 DEF UpFits
<1>20. s.pc # "push" /\ s.url = Client!NoUrl
    BY <1>5, <1>6
<1>21. PoolFits(conns, left, call', total)
    BY <1>0, <1>6, <1>10, <1>13, <1>14, <1>17, <1>18, <1>19, <1>20, Exchange
<1> QED
    BY <1>0, <1>10, <1>21 DEF PoolInv

LEMMA PushKeeps ==
    ASSUME PoolInv, NEW c \in Callers, Client!Push(c)
    PROVE  PoolInv'
<1> DEFINE k == call[c].conn
           more == Append(idle, k)
<1>0. /\ PoolFits(conns, idle, call, total) /\ IdleFit(idle, conns) /\ UpFits(conns, idle, call) /\ Apart(idle, call)
      /\ IsCall(call[c], conns) /\ call[c].pc = "push" /\ conns' = conns /\ total' = total
      /\ idle' = more /\ call' = [call EXCEPT ![c] = Client!NoCall]
    BY CallIs DEF PoolInv, PoolFits, Client!Push, Client!Set
<1>1. k # 0 /\ k \in DOMAIN conns /\ call[c].url = Client!NoUrl /\ call[c].doomed = <<>>
    BY <1>0 DEF IsCall
<1>2. Mine(call[c]) = {k}
    <2>1. Elems(<<>>) = {}
        BY DEF Elems
    <2> QED
        BY <1>1, <2>1 DEF Mine
<1>3. Mine(Client!NoCall) = {}
    <2>1. Elems(<<>>) = {}
        BY DEF Elems
    <2> QED
        BY NoCallIs, <2>1 DEF Mine
<1>4. idle \in Seq(DOMAIN conns) /\ Once(idle) /\ k \notin Elems(idle)
    BY <1>0, <1>2 DEF IdleFit, Apart
<1>5. Len(idle) \in Nat /\ DOMAIN idle = 1..Len(idle)
    BY <1>4, LenProperties
<1>6. /\ more \in Seq(DOMAIN conns) /\ Len(more) = Len(idle) + 1
      /\ \A i \in 1..Len(idle) : more[i] = idle[i]
      /\ more[Len(idle) + 1] = k
    BY <1>1, <1>4, AppendProperties
<1>7. DOMAIN more = (1..Len(idle)) \cup {Len(idle) + 1}
    <2>1. DOMAIN more = 1..Len(more)
        BY <1>6, LenProperties
    <2> QED
        BY <2>1, <1>5, <1>6
<1> HIDE DEF k, more
<1>8. Elems(more) = Elems(idle) \cup {k}
    BY <1>5, <1>6, <1>7 DEF Elems
<1>9. Once(more)
    <2>1. \A i \in 1..Len(idle) : more[i] # k
        BY <1>4, <1>5, <1>6 DEF Elems
    <2> QED
        BY <2>1, <1>4, <1>5, <1>6, <1>7 DEF Once
<1>10. IdleFit(more, conns)
    BY <1>6, <1>9 DEF IdleFit
<1>11. IsCall(Client!NoCall, conns)
    BY NoCallIs, FreshCall
<1>12. conns[k].up
    BY <1>0 DEF UpFits, k
<1>13. \A j \in Elems(more) : conns[j].up
    BY <1>0, <1>8, <1>12 DEF UpFits
<1>14. Mine(Client!NoCall) \cup Elems(more) = Mine(call[c]) \cup Elems(idle) /\ Mine(Client!NoCall) \cap Elems(more) = {}
    BY <1>2, <1>3, <1>8
<1>15. PoolFits(conns, more, call', total)
    BY <1>0, <1>1, <1>10, <1>11, <1>13, <1>14, NoCallIs, Exchange
<1> QED
    BY <1>0, <1>15 DEF PoolInv

(* Connections that a caller deletes.                                      *)
Deleted(cs, cs2, ks) ==
    /\ cs2 = [k \in DOMAIN cs |-> cs2[k]]
    /\ \A k \in DOMAIN cs : IF k \in ks THEN cs2[k].st = "gone" /\ DOMAIN cs2[k] = DOMAIN cs[k] /\ cs2[k].reqs = cs[k].reqs
                            ELSE cs2[k] = cs[k]

LEMMA DeleteDeletes ==
    ASSUME PoolInv, NEW ks, Client!Delete(ks)
    PROVE  Deleted(conns, conns', ks)
<1>1. conns' = [k \in DOMAIN conns |->
    IF k \in ks THEN [conns[k] EXCEPT !.st = "gone", !.up = FALSE, !.wire = <<>>, !.asked = <<>>] ELSE conns[k]]
    BY DEF Client!Delete
<1>2. \A k \in DOMAIN conns : DOMAIN conns[k] = ConnFields
    BY DEF PoolInv, PoolFits, ConnsFit, IsConn
<1>3. conns' = [k \in DOMAIN conns |-> conns'[k]]
    BY <1>1
<1>4. \A k \in DOMAIN conns : k \notin ks => conns'[k] = conns[k]
    BY <1>1
<1>5. ASSUME NEW k \in DOMAIN conns, k \in ks
      PROVE  conns'[k].st = "gone" /\ DOMAIN conns'[k] = DOMAIN conns[k] /\ conns'[k].reqs = conns[k].reqs
    <2>1. conns'[k] = [conns[k] EXCEPT !.st = "gone", !.up = FALSE, !.wire = <<>>, !.asked = <<>>]
        BY <1>1, <1>5
    <2>2. DOMAIN conns[k] = ConnFields
        BY <1>2
    <2> QED
        BY <2>1, <2>2 DEF ConnFields
<1> QED
    BY <1>3, <1>4, <1>5 DEF Deleted

Drop(r, s, ks) ==
    /\ s.pc # "push" /\ ks \subseteq Mine(r) /\ Mine(s) = Mine(r) \ ks
    /\ \/ s.url = r.url /\ s.conn = r.conn
       \/ s.conn = 0 /\ r.conn \in ks
Dropped(cs, cs2, id, ca, ca2, ks) ==
    /\ ConnsFit(cs2) /\ CallsFit(ca2, cs2) /\ IdleFit(id, cs2) /\ Apart(id, ca2) /\ Owned(cs2, id, ca2)
    /\ UpFits(cs2, id, ca2) /\ Counted(cs2, ca2) = Counted(cs, ca) \ ks /\ IsFiniteSet(Counted(cs, ca))

LEMMA Drops ==
    ASSUME NEW cs, NEW id, NEW ca, NEW n, PoolFits(cs, id, ca, n), NEW c \in Callers, NEW s, NEW ks, NEW cs2,
           Deleted(cs, cs2, ks), IsCall(s, cs), Drop(ca[c], s, ks), NEW ca2, ca2 = [ca EXCEPT ![c] = s]
    PROVE  Dropped(cs, cs2, id, ca, ca2, ks)
<1>0. /\ s.pc # "push" /\ ks \subseteq Mine(ca[c]) /\ Mine(s) = Mine(ca[c]) \ ks
      /\ \/ s.url = ca[c].url /\ s.conn = ca[c].conn
         \/ s.conn = 0 /\ ca[c].conn \in ks
    BY DEF Drop
<1>1. ConnsFit(cs) /\ CallsFit(ca, cs) /\ IdleFit(id, cs) /\ Apart(id, ca) /\ Owned(cs, id, ca) /\ UpFits(cs, id, ca)
    BY DEF PoolFits
<1>2. DOMAIN ca2 = Callers /\ ca2[c] = s /\ \A d \in Callers : d # c => ca2[d] = ca[d]
    <2>1. DOMAIN ca = Callers
        BY <1>1 DEF CallsFit
    <2> QED
        BY <2>1, SetIs
<1>3. /\ cs2 = [k \in DOMAIN cs |-> cs2[k]] /\ DOMAIN cs2 = DOMAIN cs
      /\ \A k \in DOMAIN cs : k \in ks => cs2[k].st = "gone" /\ DOMAIN cs2[k] = DOMAIN cs[k] /\ cs2[k].reqs = cs[k].reqs
      /\ \A k \in DOMAIN cs : k \notin ks => cs2[k] = cs[k]
    BY DEF Deleted
<1>4. IsSeq(cs2)
    <2>1. PICK m \in Nat : cs = [i \in 1..m |-> cs[i]]
        BY <1>1 DEF ConnsFit, IsSeq
    <2>2. DOMAIN cs = 1..m
        BY <2>1
    <2>3. cs2 = [i \in 1..m |-> cs2[i]]
        BY <1>3, <2>2
    <2> QED
        BY <2>3 DEF IsSeq
<1>5. \A k \in DOMAIN cs2 : IsConn(cs2[k])
    BY <1>1, <1>3 DEF ConnsFit, IsConn
<1>6. ConnsFit(cs2)
    BY <1>4, <1>5 DEF ConnsFit
<1>7. CallsFit(ca2, cs2)
    <2>1. \A d \in Callers : IsCall(ca2[d], cs)
        BY <1>1, <1>2 DEF CallsFit
    <2>2. \A d \in Callers : IsCall(ca2[d], cs2)
        BY <1>3, <2>1 DEF IsCall
    <2> QED
        BY <1>2, <2>2 DEF CallsFit
<1>8. IdleFit(id, cs2)
    BY <1>1, <1>3 DEF IdleFit
<1>9. \A d \in Callers : \A k : k \in Mine(ca2[d]) <=> k \in Mine(ca[d]) /\ ~(d = c /\ k \in ks)
    <2>1. \A k : k \in Mine(ca2[c]) <=> k \in Mine(ca[c]) /\ k \notin ks
        BY <1>0, <1>2
    <2>2. \A d \in Callers : d # c => Mine(ca2[d]) = Mine(ca[d])
        BY <1>2
    <2> QED
        BY <2>1, <2>2
<1>10. Apart(id, ca2)
    BY <1>1, <1>9 DEF Apart
<1>11. \A k \in ks : k \notin Elems(id) /\ \A d \in Callers : k \in Mine(ca[d]) => d = c
    BY <1>0, <1>1 DEF Apart
<1>12. Owned(cs2, id, ca2)
    <2>1. ASSUME NEW k \in DOMAIN cs, k \in ks
          PROVE  cs2[k].st # "live" /\ ~(k \in Elems(id) \/ \E d \in Callers : k \in Mine(ca2[d]))
        BY <1>3, <1>9, <1>11, <2>1
    <2>2. ASSUME NEW k \in DOMAIN cs, k \notin ks
          PROVE  cs2[k].st = "live" <=> k \in Elems(id) \/ \E d \in Callers : k \in Mine(ca2[d])
        <3>1. \A d \in Callers : k \in Mine(ca2[d]) <=> k \in Mine(ca[d])
            BY <1>9, <2>2
        <3> QED
            BY <1>1, <1>3, <2>2, <3>1 DEF Owned
    <2> QED
        BY <1>3, <2>1, <2>2 DEF Owned
<1>13. UpFits(cs2, id, ca2)
    <2>1. ASSUME NEW k \in Elems(id) PROVE cs2[k].up
        <3>1. k \in DOMAIN cs /\ k \notin ks
            BY <1>1, <1>11, IdleIn
        <3> QED
            BY <1>1, <1>3, <3>1 DEF UpFits
    <2>2. ASSUME NEW d \in Callers, ca2[d].pc = "push" PROVE cs2[ca2[d].conn].up
        <3>1. d # c /\ ca2[d] = ca[d]
            BY <1>0, <1>2, <2>2
        <3>2. ca[d].conn \in DOMAIN cs /\ ca[d].conn # 0
            BY <1>1, <2>2, <3>1 DEF CallsFit, IsCall
        <3>3. ca[d].conn \in Mine(ca[d])
            BY <3>2 DEF Mine
        <3>4. ca[d].conn \notin ks
            BY <1>11, <3>1, <3>3
        <3> QED
            BY <1>1, <1>3, <2>2, <3>1, <3>2, <3>4 DEF UpFits
    <2> QED
        BY <2>1, <2>2 DEF UpFits
<1>14. Counted(cs2, ca2) = Counted(cs, ca) \ ks
    <2>1. \A k \in DOMAIN cs : cs2[k].st = "live" <=> cs[k].st = "live" /\ k \notin ks
        BY <1>3
    <2>2. ASSUME NEW k \in DOMAIN cs, k \notin ks, NEW d \in Callers
          PROVE  (ca2[d].url = Client!NoUrl \/ ca2[d].conn # k) <=> (ca[d].url = Client!NoUrl \/ ca[d].conn # k)
        <3>1. CASE d # c
            BY <1>2, <3>1
        <3>2. CASE d = c
            <4>1. 0 \notin DOMAIN cs
                BY <1>1, ConnsAre DEF ConnsFit
            <4> QED
                BY <1>0, <1>2, <2>2, <3>2, <4>1
        <3> QED
            BY <3>1, <3>2
    <2> QED
        BY <1>3, <2>1, <2>2 DEF Counted
<1>15. IsFiniteSet(Counted(cs, ca))
    <2>1. IsFiniteSet(DOMAIN cs)
        BY <1>1, ConnsAre DEF ConnsFit
    <2>2. Counted(cs, ca) \in SUBSET DOMAIN cs
        BY DEF Counted
    <2> QED
        BY <2>1, <2>2, FS_Subset
<1> QED
    BY <1>6, <1>7, <1>8, <1>10, <1>12, <1>13, <1>14, <1>15 DEF Dropped

LEMMA OnceCounts ==
    ASSUME NEW D, NEW s \in Seq(D), Once(s)
    PROVE  Cardinality(Elems(s)) = Len(s)
<1>1. Len(s) \in Nat /\ DOMAIN s = 1..Len(s) /\ s \in [1..Len(s) -> D]
    BY LenProperties
<1>2. s \in [1..Len(s) -> Elems(s)]
    BY <1>1 DEF Elems
<1>3. s \in Bijection(1..Len(s), Elems(s))
    <2>1. \A i, j \in 1..Len(s) : s[i] = s[j] => i = j
        BY <1>1 DEF Once
    <2>2. \A x \in Elems(s) : \E i \in 1..Len(s) : s[i] = x
        BY <1>1 DEF Elems
    <2> QED
        BY <1>1, <1>2, <2>1, <2>2 DEF Bijection, Injection, Surjection, IsInjective
<1>4. ExistsBijection(1..Len(s), Elems(s))
    BY <1>3 DEF ExistsBijection
<1> QED
    BY <1>1, <1>4, FS_CountingElements

LEMMA DropInvalidKeeps ==
    ASSUME PoolInv, NEW c \in Callers, Client!DropInvalid(c)
    PROVE  PoolInv'
<1> DEFINE r == call[c]
           ks == Elems(r.doomed)
           s == [r EXCEPT !.doomed = <<>>, !.pc = IF r.conn = 0 THEN "connect" ELSE "send"]
           held == Counted(conns, call)
<1>0. /\ PoolFits(conns, idle, call, total) /\ ConnsFit(conns) /\ Apart(idle, call) /\ Owned(conns, idle, call)
      /\ total = Cardinality(held)
    BY DEF PoolInv, PoolFits
<1>1. /\ r.pc = "drop" /\ call' = [call EXCEPT ![c] = s] /\ idle' = idle /\ total' = total - Len(r.doomed)
      /\ Client!Delete(Client!Range(r.doomed))
    BY DEF Client!DropInvalid, Client!Set
<1>2. Client!Range(r.doomed) = ks
    BY DEF Client!Range, Elems
<1>3. Deleted(conns, conns', ks)
    BY <1>1, <1>2, DeleteDeletes
<1>4. IsCall(r, conns)
    BY CallIs
<1>5. /\ r.doomed \in Seq(DOMAIN conns) /\ Once(r.doomed) /\ r.conn \notin ks /\ r.url = Client!NoUrl
      /\ DOMAIN r = CallFields
    BY <1>1, <1>4 DEF IsCall
<1>6. Cardinality(ks) = Len(r.doomed)
    BY <1>5, OnceCounts
<1>7. 0 \notin ks /\ \A k \in ks : k \in DOMAIN conns
    <2>1. 0 \notin DOMAIN conns
        BY <1>0, ConnsAre DEF ConnsFit
    <2>2. \A k \in ks : k \in DOMAIN conns
        BY <1>5, ElementOfSeq, LenProperties DEF Elems
    <2> QED
        BY <2>1, <2>2
<1>8. /\ DOMAIN s = CallFields /\ s.doomed = <<>> /\ s.conn = r.conn /\ s.url = r.url
      /\ s.pc = IF r.conn = 0 THEN "connect" ELSE "send"
    BY <1>5 DEF CallFields
<1>9. Elems(<<>>) = {} /\ Once(<<>>) /\ <<>> \in Seq(DOMAIN conns)
    BY EmptySeq DEF Elems, Once
<1> HIDE DEF s
<1>10. IsCall(s, conns)
    BY <1>4, <1>8, <1>9 DEF IsCall
<1>11. ks \subseteq Mine(r) /\ Mine(s) = Mine(r) \ ks
    BY <1>5, <1>7, <1>8, <1>9 DEF Mine
<1>12. s.pc # "push"
    BY <1>8
<1>13. /\ ConnsFit(conns') /\ CallsFit(call', conns') /\ IdleFit(idle, conns')
       /\ Apart(idle, call') /\ Owned(conns', idle, call') /\ UpFits(conns', idle, call')
       /\ Counted(conns', call') = Counted(conns, call) \ ks
       /\ IsFiniteSet(Counted(conns, call))
    <2>1. Drop(call[c], s, ks)
        BY <1>8, <1>11, <1>12 DEF Drop
    <2>2. call' = [call EXCEPT ![c] = s]
        BY <1>1
    <2> HIDE DEF ks
    <2>3. Dropped(conns, conns', idle, call, call', ks)
        BY <1>0, <1>3, <1>10, <2>1, <2>2, Drops
    <2> QED
        BY <2>3 DEF Dropped
<1>14. ks \subseteq held
    <2>1. ASSUME NEW k \in ks PROVE k \in held
        <3>1. k \in DOMAIN conns /\ k \in Mine(r)
            BY <1>7, <1>11
        <3>2. conns[k].st = "live"
            BY <1>0, <3>1 DEF Owned
        <3>3. ASSUME NEW d \in Callers PROVE call[d].url = Client!NoUrl \/ call[d].conn # k
            <4>1. CASE d = c
                BY <1>5, <4>1
            <4>2. CASE d # c
                <5>1. k \notin Mine(call[d])
                    BY <1>0, <3>1, <4>2 DEF Apart
                <5> QED
                    BY <1>7, <5>1 DEF Mine
            <4> QED
                BY <4>1, <4>2
        <3> QED
            BY <3>1, <3>2, <3>3 DEF Counted
    <2> QED
        BY <2>1
<1> HIDE DEF held, ks
<1>15. Cardinality(held \ ks) = Cardinality(held) - Cardinality(ks)
    <2>1. IsFiniteSet(held) /\ held \cap ks = ks
        BY <1>13, <1>14 DEF held
    <2>2. Cardinality(held \ ks) = Cardinality(held) - Cardinality(held \cap ks)
        BY <2>1, FS_Difference
    <2> QED
        BY <2>1, <2>2
<1>16. total' = Cardinality(Counted(conns', call'))
    BY <1>0, <1>1, <1>6, <1>13, <1>15 DEF held
<1> QED
    BY <1>1, <1>13, <1>16 DEF PoolInv, PoolFits

(* ReleasePtr that deletes the connection.                                 *)
LEMMA DeleteKeeps ==
    ASSUME PoolInv, NEW c \in Callers, call[c].pc = "release", call[c].conn # 0, idle' = idle,
           Client!Set(c, Client!NoCall), Client!Delete({call[c].conn}),
           total' = IF Client!Pooled(c) THEN total - 1 ELSE total
    PROVE  PoolInv'
<1> DEFINE r == call[c]
           k == r.conn
           held == Counted(conns, call)
<1>0. /\ PoolFits(conns, idle, call, total) /\ Apart(idle, call) /\ Owned(conns, idle, call) /\ total = Cardinality(held)
    BY DEF PoolInv, PoolFits
<1>1. call' = [call EXCEPT ![c] = Client!NoCall]
    BY DEF Client!Set
<1>2. Deleted(conns, conns', {k})
    BY DeleteDeletes
<1>3. IsCall(r, conns) /\ k \in DOMAIN conns /\ k \in Mine(r)
    BY CallIs, OwnConn
<1>4. r.doomed = <<>>
    BY <1>3 DEF IsCall
<1>5. Elems(<<>>) = {}
    BY DEF Elems
<1>6. Mine(r) = {k} /\ Mine(Client!NoCall) = {}
    BY <1>4, <1>5, NoCallIs DEF Mine
<1>7. IsCall(Client!NoCall, conns)
    BY NoCallIs, FreshCall
<1>8. {k} \subseteq Mine(r) /\ Mine(Client!NoCall) = Mine(r) \ {k} /\ k \in {k}
      /\ Client!NoCall.pc # "push" /\ Client!NoCall.conn = 0
    BY <1>6, NoCallIs
<1>9. /\ ConnsFit(conns') /\ CallsFit(call', conns') /\ IdleFit(idle, conns')
      /\ Apart(idle, call') /\ Owned(conns', idle, call') /\ UpFits(conns', idle, call')
      /\ Counted(conns', call') = Counted(conns, call) \ {k}
      /\ IsFiniteSet(Counted(conns, call))
    <2> DEFINE ks == {k}
               s == Client!NoCall
    <2>1. Drop(call[c], s, ks)
        BY <1>8 DEF Drop
    <2>2. call' = [call EXCEPT ![c] = s] /\ Deleted(conns, conns', ks) /\ IsCall(s, conns)
        BY <1>1, <1>2, <1>7
    <2> HIDE DEF ks, s
    <2>3. Dropped(conns, conns', idle, call, call', ks)
        BY <1>0, <2>1, <2>2, Drops
    <2> QED
        BY <2>3 DEF Dropped, ks
<1>10. k \in held <=> r.url = Client!NoUrl
    <2>1. conns[k].st = "live"
        BY <1>0, <1>3 DEF Owned
    <2>2. ASSUME NEW d \in Callers, d # c PROVE call[d].conn # k
        <3>1. k \notin Mine(call[d])
            BY <1>0, <1>3, <2>2 DEF Apart
        <3> QED
            BY <3>1 DEF Mine
    <2> QED
        BY <1>3, <2>1, <2>2 DEF Counted
<1> HIDE DEF held
<1>11. Cardinality(held \ {k}) = IF k \in held THEN Cardinality(held) - 1 ELSE Cardinality(held)
    BY <1>9, FS_RemoveElement DEF held
<1>12. total' = Cardinality(Counted(conns', call'))
    <2>1. Counted(conns', call') = held \ {k}
        BY <1>9 DEF held
    <2>2. Client!Pooled(c) <=> k \in held
        BY <1>10 DEF Client!Pooled
    <2> QED
        BY <1>0, <1>11, <2>1, <2>2
<1> QED
    BY <1>9, <1>12 DEF PoolInv, PoolFits

LEMMA ConnectKeeps ==
    ASSUME PoolInv, NEW c \in Callers, Client!Connect(c), MaxRequest \in Nat \ {0}
    PROVE  PoolInv'
<1> DEFINE k == Len(conns) + 1
           s == [call[c] EXCEPT !.conn = k, !.pc = "send"]
           held == Counted(conns, call)
<1>0. /\ ConnsFit(conns) /\ CallsFit(call, conns) /\ IdleFit(idle, conns) /\ Apart(idle, call)
      /\ Owned(conns, idle, call) /\ UpFits(conns, idle, call) /\ total = Cardinality(held)
    BY DEF PoolInv, PoolFits
<1>1. /\ call[c].pc = "connect" /\ conns' = Append(conns, Client!NewConn)
      /\ total' = (IF Client!Pooled(c) THEN total + 1 ELSE total)
      /\ call' = [call EXCEPT ![c] = s] /\ idle' = idle
    BY DEF Client!Connect, Client!Set
<1>2. /\ IsSeq(conns') /\ DOMAIN conns' = DOMAIN conns \cup {k} /\ conns'[k] = Client!NewConn
      /\ (\A i \in DOMAIN conns : conns'[i] = conns[i]) /\ k \notin DOMAIN conns /\ k # 0
    BY <1>0, <1>1, AppendedConns DEF ConnsFit
<1>3. IsConn(Client!NewConn) /\ Client!NewConn.st = "live"
    BY DEF Client!NewConn, IsConn, ConnFields
<1>4. ConnsFit(conns')
    BY <1>0, <1>2, <1>3 DEF ConnsFit
<1>5. IsCall(call[c], conns) /\ call[c].conn = 0 /\ call[c].doomed = <<>>
    BY <1>1, CallIs, IdleCall
<1>6. DOMAIN s = CallFields /\ s.conn = k /\ s.pc = "send" /\ s.url = call[c].url /\ s.doomed = <<>>
    BY <1>5 DEF IsCall, CallFields
<1>7. DOMAIN call' = Callers /\ call'[c] = s /\ \A d \in Callers : d # c => call'[d] = call[d]
    <2>1. DOMAIN call = Callers
        BY CallIs
    <2> QED
        BY <1>1, <2>1, SetIs
<1> HIDE DEF s, k
<1>8. Elems(<<>>) = {} /\ Once(<<>>) /\ <<>> \in Seq(DOMAIN conns')
    BY EmptySeq DEF Elems, Once
<1>9. \A d \in Callers : IsCall(call[d], conns')
    <2>1. ASSUME NEW t \in Seq(DOMAIN conns) PROVE t \in Seq(DOMAIN conns')
        BY <1>2, SeqMonotonic
    <2>2. \A d \in Callers : IsCall(call[d], conns)
        BY <1>0 DEF CallsFit
    <2> QED
        BY <1>2, <2>1, <2>2 DEF IsCall
<1>10. CallsFit(call', conns')
    <2>1. IsCall(s, conns')
        BY <1>2, <1>6, <1>8 DEF IsCall
    <2> QED
        BY <1>7, <1>9, <2>1 DEF CallsFit
<1>11. IdleFit(idle, conns')
    BY <1>0, <1>2, SeqMonotonic DEF IdleFit
<1>12. Mine(call[c]) = {} /\ Mine(s) = {k}
    BY <1>2, <1>5, <1>6, <1>8 DEF Mine
<1>13. k \notin Elems(idle) /\ \A d \in Callers : k \notin Mine(call[d])
    <2>1. k \notin Elems(idle)
        BY <1>0, <1>2, IdleIn
    <2>2. \A d \in Callers : k \notin Mine(call[d])
        BY <1>0, <1>2, MineIn DEF CallsFit
    <2> QED
        BY <2>1, <2>2
<1>14. \A d \in Callers : \A j : j \in Mine(call'[d]) <=> j \in Mine(call[d]) \/ (d = c /\ j = k)
    <2>1. \A j : j \in Mine(call'[c]) <=> j \in Mine(call[c]) \/ j = k
        BY <1>7, <1>12
    <2>2. \A d \in Callers : d # c => Mine(call'[d]) = Mine(call[d])
        BY <1>7
    <2> QED
        BY <2>1, <2>2
<1>15. Apart(idle, call')
    BY <1>0, <1>13, <1>14 DEF Apart
<1>16. Owned(conns', idle, call')
    <2>1. conns'[k].st = "live" /\ \E d \in Callers : k \in Mine(call'[d])
        BY <1>2, <1>3, <1>14
    <2>2. ASSUME NEW j \in DOMAIN conns
          PROVE  conns'[j].st = "live" <=> j \in Elems(idle) \/ \E d \in Callers : j \in Mine(call'[d])
        <3>1. j # k /\ conns'[j] = conns[j]
            BY <1>2
        <3>2. \A d \in Callers : j \in Mine(call'[d]) <=> j \in Mine(call[d])
            BY <1>14, <3>1
        <3> QED
            BY <1>0, <3>1, <3>2 DEF Owned
    <2> QED
        BY <1>2, <2>1, <2>2 DEF Owned
<1>17. UpFits(conns', idle, call')
    <2>1. ASSUME NEW j \in Elems(idle) PROVE conns'[j].up
        <3>1. j \in DOMAIN conns
            BY <1>0, IdleIn
        <3> QED
            BY <1>0, <1>2, <3>1 DEF UpFits
    <2>2. ASSUME NEW d \in Callers, call'[d].pc = "push" PROVE conns'[call'[d].conn].up
        <3>1. d # c /\ call'[d] = call[d]
            BY <1>6, <1>7, <2>2
        <3>2. call[d].conn \in DOMAIN conns
            BY <1>0, <2>2, <3>1 DEF CallsFit, IsCall
        <3> QED
            BY <1>0, <1>2, <2>2, <3>1, <3>2 DEF UpFits
    <2> QED
        BY <2>1, <2>2 DEF UpFits
<1>18. Counted(conns', call') = IF Client!Pooled(c) THEN held \cup {k} ELSE held
    <2>1. ASSUME NEW j \in DOMAIN conns PROVE j \in Counted(conns', call') <=> j \in held
        <3>1. j # k /\ conns'[j] = conns[j] /\ j \in DOMAIN conns'
            BY <1>2
        <3>2. 0 \notin DOMAIN conns
            BY <1>0, ConnsAre DEF ConnsFit
        <3>3. ASSUME NEW d \in Callers
              PROVE  (call'[d].url = Client!NoUrl \/ call'[d].conn # j) <=> (call[d].url = Client!NoUrl \/ call[d].conn # j)
            <4>1. CASE d # c
                BY <1>7, <4>1
            <4>2. CASE d = c
                BY <1>5, <1>6, <1>7, <3>1, <3>2, <4>2
            <4> QED
                BY <4>1, <4>2
        <3> QED
            BY <3>1, <3>3 DEF Counted
    <2>2. k \in Counted(conns', call') <=> Client!Pooled(c)
        <3>1. ASSUME NEW d \in Callers, d # c PROVE call'[d].conn # k
            <4>1. k \notin Mine(call[d])
                BY <1>13
            <4> QED
                BY <1>2, <1>7, <3>1, <4>1 DEF Mine
        <3> QED
            BY <1>2, <1>3, <1>6, <1>7, <3>1 DEF Counted, Client!Pooled
    <2>3. Counted(conns', call') \subseteq DOMAIN conns \cup {k} /\ held \subseteq DOMAIN conns
        BY <1>2 DEF Counted
    <2> QED
        BY <2>1, <2>2, <2>3
<1>19. IsFiniteSet(held) /\ k \notin held
    <2>1. IsFiniteSet(DOMAIN conns)
        BY <1>0, ConnsAre DEF ConnsFit
    <2>2. held \in SUBSET DOMAIN conns
        BY DEF Counted
    <2> QED
        BY <1>2, <2>1, <2>2, FS_Subset
<1> HIDE DEF held
<1>20. Cardinality(held \cup {k}) = Cardinality(held) + 1
    BY <1>19, FS_AddElement
<1>21. total' = Cardinality(Counted(conns', call'))
    BY <1>0, <1>1, <1>18, <1>20
<1> QED
    BY <1>1, <1>4, <1>10, <1>11, <1>15, <1>16, <1>17, <1>21 DEF PoolInv, PoolFits

(* The process dies: nothing moves.                                        *)
LEMMA SendKillsKeeps ==
    ASSUME PoolInv, NEW c \in Callers, Client!SendKills(c)
    PROVE  PoolInv'
<1>0. /\ ConnsFit(conns) /\ CallsFit(call, conns) /\ IdleFit(idle, conns) /\ Apart(idle, call)
      /\ Owned(conns, idle, call) /\ UpFits(conns, idle, call) /\ total = Cardinality(Counted(conns, call))
    BY DEF PoolInv, PoolFits
<1>1. /\ call' = [d \in Callers |-> [call[d] EXCEPT !.pc = "killed"]]
      /\ conns' = conns /\ idle' = idle /\ total' = total
    BY DEF Client!SendKills
<1>2. ASSUME NEW d \in Callers
      PROVE  /\ DOMAIN call'[d] = CallFields /\ call'[d].conn = call[d].conn /\ call'[d].doomed = call[d].doomed
             /\ call'[d].url = call[d].url /\ call'[d].pc = "killed" /\ IsCall(call[d], conns)
    <2>1. call'[d] = [call[d] EXCEPT !.pc = "killed"]
        BY <1>1
    <2>2. DOMAIN call[d] = CallFields /\ IsCall(call[d], conns)
        BY CallIs
    <2> QED
        BY <2>1, <2>2 DEF CallFields
<1>3. \A d \in Callers : Mine(call'[d]) = Mine(call[d])
    BY <1>2, MineKept
<1>4. \A d \in Callers : IsCall(call'[d], conns)
    BY <1>2 DEF IsCall
<1>5. CallsFit(call', conns)
    BY <1>1, <1>4 DEF CallsFit
<1>6. Apart(idle, call') /\ Owned(conns, idle, call')
    BY <1>0, <1>3 DEF Apart, Owned
<1>7. UpFits(conns, idle, call')
    BY <1>0, <1>2 DEF UpFits
<1>8. Counted(conns, call') = Counted(conns, call)
    BY <1>2 DEF Counted
<1> QED
    BY <1>0, <1>1, <1>5, <1>6, <1>7, <1>8 DEF PoolInv, PoolFits

LEMMA ReleaseKeeps ==
    ASSUME PoolInv, NEW c \in Callers, Client!Release(c), MaxRequest \in Nat
    PROVE  PoolInv'
<1>1. call[c].pc = "release" /\ idle' = idle
    BY DEF Client!Release
<1>2. CASE call[c].conn = 0 /\ Client!Set(c, Client!NoCall) /\ UNCHANGED <<conns, total>>
    BY <1>1, <1>2, ForgetKeeps
<1>3. CASE /\ call[c].conn # 0 /\ Client!Set(c, Client!NoCall)
           /\ Client!Delete({call[c].conn}) /\ total' = IF Client!Pooled(c) THEN total - 1 ELSE total
    BY <1>1, <1>3, DeleteKeeps
<1>4. CASE /\ call[c].conn # 0 /\ Client!Pooled(c) /\ Client!Kept(Client!Conn(c)) /\ UNCHANGED total
           /\ conns' = [conns EXCEPT ![call[c].conn].reqs = @ + 1,
                                     ![call[c].conn].dirty = @ \/ call[c].cut \cap {"framing", "size"} # {}]
           /\ Client!Set(c, [Client!NoCall EXCEPT !.pc = "push", !.conn = call[c].conn])
    BY <1>1, <1>4, KeepKeeps
<1> QED
    BY <1>2, <1>3, <1>4, Zenon DEF Client!Release

LEMMA PoolInit ==
    ASSUME Client!Init
    PROVE  PoolInv
<1>1. conns = <<>> /\ idle = <<>> /\ total = 0 /\ call = [c \in Callers |-> Client!NoCall]
    BY DEF Client!Init
<1>2. Elems(<<>>) = {} /\ Once(<<>>) /\ DOMAIN <<>> = {} /\ <<>> \in Seq(DOMAIN conns)
    BY EmptySeq DEF Elems, Once
<1>3. IsSeq(<<>>)
    <2>1. 0 \in Nat /\ <<>> = [i \in 1..0 |-> <<>>[i]]
        OBVIOUS
    <2> QED
        BY <2>1 DEF IsSeq
<1>4. ConnsFit(conns)
    BY <1>1, <1>2, <1>3 DEF ConnsFit
<1>5. \A c \in Callers : call[c] = Client!NoCall
    BY <1>1
<1>6. CallsFit(call, conns)
    <2>1. IsCall(Client!NoCall, conns)
        BY NoCallIs, FreshCall
    <2> QED
        BY <1>1, <2>1 DEF CallsFit
<1>7. IdleFit(idle, conns)
    BY <1>1, <1>2 DEF IdleFit
<1>8. \A c \in Callers : Mine(call[c]) = {}
    BY <1>2, <1>5, NoCallIs DEF Mine
<1>9. Apart(idle, call) /\ Owned(conns, idle, call)
    BY <1>1, <1>2, <1>8 DEF Apart, Owned
<1>10. UpFits(conns, idle, call)
    BY <1>1, <1>2, <1>5, NoCallIs DEF UpFits
<1>11. Counted(conns, call) = {}
    BY <1>1, <1>2 DEF Counted
<1>12. total = Cardinality(Counted(conns, call))
    BY <1>1, <1>11, FS_EmptySet
<1> QED
    BY <1>4, <1>6, <1>7, <1>9, <1>10, <1>12 DEF PoolInv, PoolFits

LEMMA PoolStep ==
    ASSUME MaxRequest \in Nat \ {0}, PoolInv, [Client!Next]_Client!vars
    PROVE  PoolInv'
<1>1. CASE UNCHANGED Client!vars
    <2>1. conns' = conns /\ idle' = idle /\ total' = total /\ call' = call
        BY <1>1 DEF Client!vars
    <2> QED
        BY <2>1 DEF PoolInv
<1>2. CASE Client!Tick
    <2>1. conns' = conns /\ idle' = idle /\ total' = total /\ call' = call
        BY <1>2 DEF Client!Tick
    <2> QED
        BY <2>1 DEF PoolInv
<1>3. ASSUME NEW k \in DOMAIN conns, Client!PeerCloses(k) \/ \E kind \in Kinds : Client!Respond(k, kind)
      PROVE  PoolInv'
    BY <1>3, PeerClosesKeeps, RespondKeeps
<1>4. ASSUME NEW c \in Callers,
             \E h \in HeaderSets : Client!Begin(c, h) \/ \E u \in Urls : Client!BeginUrl(c, u, h)
      PROVE  PoolInv'
    BY <1>4, BeginKeeps, BeginUrlKeeps
<1>5. ASSUME NEW c \in Callers,
             \/ Client!Pop(c) \/ Client!DropInvalid(c) \/ Client!Connect(c) \/ Client!ConnectFails(c)
             \/ Client!SendRequest(c) \/ Client!SendKills(c)
      PROVE  PoolInv'
    BY <1>5, PopKeeps, DropInvalidKeeps, ConnectKeeps, ConnectFailsKeeps, SendRequestKeeps, SendKillsKeeps
<1>6. ASSUME NEW c \in Callers,
             \/ Client!ReadHead(c) \/ Client!ParseChunk(c) \/ Client!ReadChunk(c) \/ Client!ReadData(c)
             \/ Client!ReadBody(c) \/ Client!ReadEnds(c) \/ Client!ReadTimesOut(c)
      PROVE  PoolInv'
    <2>1. call[c].pc \in Reading /\ Reads(c)
        BY <1>6, ReadHeadReads, ParseChunkReads, ReadChunkReads, ReadDataReads, ReadBodyReads, ReadEndsReads,
           ReadTimesOutReads
    <2> QED
        BY <2>1, ReadingOwns
<1>7. ASSUME NEW c \in Callers, Client!Close(c) \/ Client!Release(c) \/ Client!Push(c)
      PROVE  PoolInv'
    BY <1>7, CloseKeeps, ReleaseKeeps, PushKeeps
<1> QED
    BY <1>1, <1>2, <1>3, <1>4, <1>5, <1>6, <1>7, Zenon DEF Client!Next

LEMMA SameUrl == Client!NoUrl = NoUrl
BY DEF Client!NoUrl, NoUrl, Client!U!NoUri, U!NoUri

(* The invariant says what PoolExact says.                                 *)
LEMMA PoolShows ==
    ASSUME PoolInv
    PROVE  PoolExact
<1> DEFINE Live == {k \in DOMAIN conns : conns[k].st = "live"}
           IsIdle(k) == {<<"idle", i>> : i \in {j \in DOMAIN idle : idle[j] = k}}
           IsHeld(k) == {<<"held", c>> : c \in {d \in Callers : call[d].conn = k}}
           IsDoomed(k) ==
               UNION {{<<"doomed", c, i>> : i \in {j \in DOMAIN call[c].doomed : call[c].doomed[j] = k}} : c \in Callers}
           Owners(k) == IsIdle(k) \cup IsHeld(k) \cup IsDoomed(k)
<1>0. /\ ConnsFit(conns) /\ CallsFit(call, conns) /\ IdleFit(idle, conns) /\ Apart(idle, call)
      /\ Owned(conns, idle, call) /\ UpFits(conns, idle, call) /\ total = Cardinality(Counted(conns, call))
    BY DEF PoolInv, PoolFits
<1>1. 0 \notin DOMAIN conns
    BY <1>0, ConnsAre DEF ConnsFit
<1>2. ASSUME NEW k \in DOMAIN conns PROVE k # 0
    BY <1>1
<1>3. ASSUME NEW k \in DOMAIN conns, NEW c \in Callers
      PROVE  k \in Mine(call[c]) <=> call[c].conn = k \/ \E j \in DOMAIN call[c].doomed : call[c].doomed[j] = k
    BY <1>2 DEF Mine, Elems
<1>4. ASSUME NEW k \in DOMAIN conns, k \notin Live PROVE Owners(k) = {}
    <2>1. k \notin Elems(idle) /\ \A c \in Callers : k \notin Mine(call[c])
        BY <1>0, <1>4 DEF Owned
    <2>2. IsIdle(k) = {}
        BY <2>1 DEF Elems
    <2>3. IsHeld(k) = {}
        BY <2>1, <1>3
    <2>4. IsDoomed(k) = {}
        BY <2>1, <1>3
    <2> QED
        BY <2>2, <2>3, <2>4
<1>5. ASSUME NEW k \in DOMAIN conns, k \in Elems(idle) PROVE \E x : Owners(k) = {x}
    <2>1. PICK i \in DOMAIN idle : idle[i] = k
        BY <1>5 DEF Elems
    <2>2. \A j \in DOMAIN idle : idle[j] = k => j = i
        BY <1>0, <2>1 DEF IdleFit, Once
    <2>3. IsIdle(k) = {<<"idle", i>>}
        BY <2>1, <2>2
    <2>4. \A c \in Callers : k \notin Mine(call[c])
        BY <1>0, <1>5 DEF Apart
    <2>5. IsHeld(k) = {}
        BY <2>4, <1>3
    <2>6. IsDoomed(k) = {}
        BY <2>4, <1>3
    <2> QED
        BY <2>3, <2>5, <2>6
<1>6. ASSUME NEW k \in DOMAIN conns, NEW c \in Callers, k \in Mine(call[c]) PROVE \E x : Owners(k) = {x}
    <2>1. k \notin Elems(idle) /\ \A d \in Callers : k \in Mine(call[d]) => d = c
        BY <1>0, <1>6 DEF Apart
    <2>2. IsIdle(k) = {}
        BY <2>1 DEF Elems
    <2>3. IsCall(call[c], conns)
        BY <1>0 DEF CallsFit
    <2>4. CASE call[c].conn = k
        <3>1. \A d \in Callers : call[d].conn = k => d = c
            BY <2>1, <1>3
        <3>2. IsHeld(k) = {<<"held", c>>}
            BY <2>4, <3>1
        <3>3. \A d \in Callers : \A j \in DOMAIN call[d].doomed : call[d].doomed[j] # k
            <4>1. \A j \in DOMAIN call[c].doomed : call[c].doomed[j] # k
                BY <2>3, <2>4 DEF IsCall, Elems
            <4> QED
                BY <2>1, <1>3, <4>1
        <3>4. IsDoomed(k) = {}
            BY <3>3
        <3> QED
            BY <2>2, <3>2, <3>4
    <2>5. CASE call[c].conn # k
        <3>1. PICK i \in DOMAIN call[c].doomed : call[c].doomed[i] = k
            BY <1>3, <1>6, <2>5
        <3>2. \A j \in DOMAIN call[c].doomed : call[c].doomed[j] = k => j = i
            BY <2>3, <3>1 DEF IsCall, Once
        <3>3. \A d \in Callers : call[d].conn # k
            BY <2>1, <2>5, <1>3
        <3>4. IsHeld(k) = {}
            BY <3>3
        <3>5. \A d \in Callers : \A j \in DOMAIN call[d].doomed : call[d].doomed[j] = k => d = c
            BY <2>1, <1>3
        <3>6. IsDoomed(k) = {<<"doomed", c, i>>}
            BY <3>1, <3>2, <3>5
        <3> QED
            BY <2>2, <3>4, <3>6
    <2> QED
        BY <2>4, <2>5
<1>7. ASSUME NEW k \in DOMAIN conns PROVE Cardinality(Owners(k)) = IF k \in Live THEN 1 ELSE 0
    <2> HIDE DEF IsIdle, IsHeld, IsDoomed
    <2>1. CASE k \notin Live
        <3>1. Owners(k) = {}
            BY <1>4, <2>1
        <3> HIDE DEF Owners, Live
        <3> QED
            BY <3>1, <2>1, FS_EmptySet
    <2>2. CASE k \in Live
        <3>1. \E x : Owners(k) = {x}
            BY <1>0, <1>5, <1>6, <2>2 DEF Owned
        <3> HIDE DEF Owners, Live
        <3> QED
            BY <3>1, <2>2, FS_Singleton
    <2> QED
        BY <2>1, <2>2
<1>8. total = Cardinality(Live \ {call[c].conn : c \in {d \in Callers : ~Pooled(d)}})
    <2>1. Live \ {call[c].conn : c \in {d \in Callers : ~Pooled(d)}} = Counted(conns, call)
        BY SameUrl DEF Counted, Pooled
    <2> QED
        BY <1>0, <2>1
<1>9. \A k \in DOMAIN conns : conns[k].reqs < MaxRequest
    BY <1>0 DEF ConnsFit, IsConn
<1>10. \A k \in {idle[i] : i \in DOMAIN idle} : conns[k].up
    BY <1>0 DEF UpFits, Elems
<1> QED
    BY <1>7, <1>8, <1>9, <1>10, Zenon DEF PoolExact

(* HttpConnectionPool keeps its books, for any number of callers, calls    *)
(* and connections, whatever the servers answer and whenever they close:   *)
(* m_total counts the pool's connections; each live one is idle, in use by *)
(* one caller or about to be deleted by one, and never two of these; none  *)
(* serves more than m_maxRequest requests, and none is idle that we have   *)
(* closed (getConnection, ReleasePtr).  m_maxRequest is not 0: the first   *)
(* request of a connection is served without looking at it.                *)
THEOREM PoolKeepsBooks ==
    ASSUME MaxRequest \in Nat \ {0}
    PROVE  Client!Spec => []PoolExact
<1>1. Client!Init => PoolInv
    BY PoolInit
<1>2. PoolInv /\ [Client!Next]_Client!vars => PoolInv'
    BY PoolStep
<1>3. PoolInv => PoolExact
    BY PoolShows
<1> QED
    BY <1>1, <1>2, <1>3, PTL DEF Client!Spec
=============================================================================
