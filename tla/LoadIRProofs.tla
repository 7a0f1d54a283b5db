---------------------------- MODULE LoadIRProofs ----------------------------
(***************************************************************************)
(* Who holds which object of a model's memory, for every model and every   *)
(* document (LoadIR): that no two elements share a map but by updates, and *)
(* that an update changes nothing but what it matches and what shares an   *)
(* object of the document with that.  These proofs rest on                 *)
(* InputsAssumption (Loader): what is decoded has maps of its own.         *)
(*                                                                         *)
(* And that what is loaded is the whole of a model, whatever a server      *)
(* answers and whichever requests fail.  This rests on ContentAssumption:  *)
(* the pages of a commit that link to one another hold its elements.       *)
(*                                                                         *)
(* And that a remove takes what it matches out of the graph, and nothing   *)
(* else (ListsAssumption: the arrays of a document are lists).             *)
(*                                                                         *)
(* And that no two files of what is rendered have one path, and none is    *)
(* scaffold-once under one configuration and generated under another       *)
(* (OptionsAssumption, WordsAssumption); and that what is rendered imports *)
(* what it uses, because every import that a type comes with has been      *)
(* asked for, and that what it imports of the project is there.            *)
(***************************************************************************)
EXTENDS LoadIR, ListFacts

-----------------------------------------------------------------------------
(***************************************************************************)
(* The objects of what the operators of the overlay make.                  *)
(***************************************************************************)
LEMMA PrunedAddresses ==
  ASSUME NEW el
  PROVE  DOMAIN Pruned(el) = DOMAIN el /\ Addresses(Pruned(el)) \subseteq Addresses(el)
<1>1. DOMAIN Pruned(el) = DOMAIN el
  BY DEF Pruned
<1>2. ASSUME NEW k \in ObjFields(Pruned(el))
      PROVE  k \in ObjFields(el) /\ Pruned(el)[k] = el[k]
  <2>1. k \in DOMAIN el /\ "obj" \in DOMAIN Pruned(el)[k]
    BY <1>1 DEF ObjFields, IsObj
  <2>2. CASE Pruned(el)[k] = el[k]
    BY <2>1, <2>2 DEF ObjFields, IsObj
  <2>3. CASE Pruned(el)[k] # el[k]
    <3>1. Pruned(el)[k] = Refs(Only(el[k].refs, ToSet(el[k].refs) \ removed))
      BY <2>1, <2>3 DEF Pruned
    <3>2. "obj" \notin DOMAIN Pruned(el)[k]
      BY <3>1 DEF Refs
    <3> QED BY <2>1, <3>2
  <2> QED BY <2>2, <2>3
<1> QED BY <1>1, <1>2 DEF Addresses

LEMMA MergedAddresses ==
  ASSUME NEW dst, NEW src, IsFiniteSet(DOMAIN dst), IsFiniteSet(DOMAIN src)
  PROVE  /\ IsFiniteSet(DOMAIN MergeFields(dst, src))
         /\ Addresses(MergeFields(dst, src)) \subseteq Addresses(dst) \cup Addresses(src)
<1>1. DOMAIN MergeFields(dst, src) = DOMAIN dst \cup DOMAIN src
  BY DEF MergeFields
<1>2. \A k \in DOMAIN MergeFields(dst, src) :
        \/ k \in DOMAIN src /\ MergeFields(dst, src)[k] = src[k]
        \/ k \in DOMAIN dst /\ MergeFields(dst, src)[k] = dst[k]
  <2>1. \A k \in Merged(dst, src) : k \in DOMAIN dst
    BY DEF Merged, ObjFields
  <2> QED BY <2>1 DEF MergeFields
<1> QED BY <1>1, <1>2, FS_Union DEF Addresses, ObjFields

LEMMA RenamedAddresses ==
  ASSUME NEW el, NEW suffix, IsFiniteSet(DOMAIN el)
  PROVE  /\ IsFiniteSet(DOMAIN Renamed(el, suffix))
         /\ Addresses(Renamed(el, suffix)) \subseteq Addresses(el)
<1> DEFINE id == Str(Suffixed(el.id.str, suffix))
           new == [id |-> id, elementId |-> id]
<1>1. CASE ~HasID(el)
  BY <1>1 DEF Renamed
<1>2. CASE HasID(el)
  <2>1. Renamed(el, suffix) = Over(new, el)
    BY <1>2 DEF Renamed
  <2>2. DOMAIN new = {"id", "elementId"} /\ new.id = id /\ new.elementId = id
    OBVIOUS
  <2>3. "obj" \notin DOMAIN id
    BY DEF Str
  <2> HIDE DEF id, new
  <2>4. /\ DOMAIN Over(new, el) = DOMAIN new \cup DOMAIN el
        /\ \A k \in DOMAIN Over(new, el) : Over(new, el)[k] = IF k \in DOMAIN new THEN new[k] ELSE el[k]
    BY DEF Over
  <2>5. \A k \in ObjFields(Over(new, el)) : k \in ObjFields(el) /\ Over(new, el)[k] = el[k]
    <3> SUFFICES ASSUME NEW k \in ObjFields(Over(new, el))
                 PROVE  k \in ObjFields(el) /\ Over(new, el)[k] = el[k]
      OBVIOUS
    <3>1. k \in DOMAIN Over(new, el) /\ "obj" \in DOMAIN Over(new, el)[k]
      BY DEF ObjFields, IsObj
    <3>2. k \notin DOMAIN new
      BY <2>2, <2>3, <2>4, <3>1
    <3> QED BY <2>4, <3>1, <3>2 DEF ObjFields, IsObj
  <2>6. IsFiniteSet({"id", "elementId"})
    <3>1. {"id", "elementId"} = {"id"} \cup {"elementId"}
      OBVIOUS
    <3>2. IsFiniteSet({"id"}) /\ IsFiniteSet({"elementId"})
      BY FS_Singleton
    <3> QED BY ZenonT(30), <3>1, <3>2, FS_Union
  <2>7. IsFiniteSet(DOMAIN Over(new, el))
    BY ZenonT(40), <2>2, <2>4, <2>6, FS_Union
  <2> QED BY <2>1, <2>5, <2>7 DEF Addresses
<1> QED BY <1>1, <1>2

\* A copy's objects are new.
LEMMA CopiedAddresses ==
  ASSUME NEW el, IsFiniteSet(DOMAIN el), Len(objects) \in Nat
  PROVE  /\ DOMAIN CopyFields(el) = DOMAIN el
         /\ IsSequence(CopyObjects(el)) /\ Len(CopyObjects(el)) \in Nat
         /\ Addresses(CopyFields(el)) \subseteq Len(objects) + 1 .. Len(objects) + Len(CopyObjects(el))
<1> DEFINE fields == SetToSeq(ObjFields(el))
           n == Cardinality(ObjFields(el))
<1>1. IsFiniteSet(ObjFields(el))
  BY FS_Subset DEF ObjFields
<1>2. /\ n \in Nat /\ DOMAIN fields = 1 .. n
      /\ \A k \in ObjFields(el) : \E i \in 1 .. n : fields[i] = k
  BY <1>1, SetToSeqFacts
<1>3. CopyObjects(el) = [i \in 1 .. n |-> objects[el[fields[i]].obj]]
  BY <1>2 DEF CopyObjects
<1> HIDE DEF n
<1>4. IsSequence(CopyObjects(el)) /\ Len(CopyObjects(el)) = n
  <2>1. CopyObjects(el) = [i \in 1 .. n |-> CopyObjects(el)[i]]
    BY <1>3
  <2> QED BY <1>2, <2>1, SequenceOf
<1>5. DOMAIN CopyFields(el) = DOMAIN el
  BY DEF CopyFields
<1>6. ASSUME NEW k \in ObjFields(CopyFields(el))
      PROVE  CopyFields(el)[k].obj \in Len(objects) + 1 .. Len(objects) + n
  <2>1. k \in DOMAIN el /\ "obj" \in DOMAIN CopyFields(el)[k]
    BY <1>5 DEF ObjFields, IsObj
  <2>2. k \in ObjFields(el)
    <3>1. k \notin ObjFields(el) => CopyFields(el)[k] = el[k]
      BY <2>1 DEF CopyFields
    <3> QED BY <2>1, <3>1 DEF ObjFields, IsObj
  <2> DEFINE i == CHOOSE j \in DOMAIN fields : fields[j] = k
  <2>3. CopyFields(el)[k] = Obj(Len(objects) + i)
    BY <2>1, <2>2 DEF CopyFields
  <2>4. i \in 1 .. n
    BY <1>2, <2>2
  <2> HIDE DEF i
  <2>5. CopyFields(el)[k].obj = Len(objects) + i
    BY <2>3 DEF Obj
  <2> QED BY <1>2, <2>4, <2>5
<1> QED BY <1>2, <1>4, <1>5, <1>6 DEF Addresses
-----------------------------------------------------------------------------
(***************************************************************************)
(* ShareInv: every address that is held is one of the memory, and two      *)
(* elements hold one address only if it is the document's: among the       *)
(* elements, among those that a remove keeps and between them and the      *)
(* elements it has not come to, among the copies and between them and the  *)
(* elements; and while a server is asked, between what has come and what   *)
(* is still to come.                                                       *)
(***************************************************************************)
Within(a, b, common) == Addresses(a) \cap Addresses(b) \subseteq common
Separate(els, common) == \A i, j \in DOMAIN els : i < j => Within(els[i], els[j], common)
Across(els, others, from, common) ==
  \A i \in DOMAIN els, j \in DOMAIN others : j >= from => Within(els[i], others[j], common)

FromInput ==
  \E input \in Inputs :
    source = input.source /\ actions = input.actions /\ Len(input.objects) <= Len(objects)

MemoryInv == IsSequence(objects) /\ FromInput /\ act \in Nat \ {0} /\ at \in Nat \ {0}

ListsInv ==
  /\ AreObjects(elements, Len(objects)) /\ AreObjects(kept, Len(objects)) /\ AreObjects(dupes, Len(objects))
  /\ Separate(elements, OfDocument) /\ Separate(kept, OfDocument) /\ Separate(dupes, OfDocument)
  /\ Across(kept, elements, at, OfDocument) /\ Across(dupes, elements, 1, OfDocument)

LoadInv ==
  status = "load" =>
    /\ at = 1 /\ kept = <<>> /\ dupes = <<>>
    /\ source.kind = "api" =>
         \A url \in DOMAIN source.pages \ visited : Across(elements, source.pages[url].elements, 1, OfDocument)

ShareInv == MemoryInv /\ ListsInv /\ LoadInv

LEMMA LargerMemory ==
  ASSUME NEW els, NEW size \in Nat, NEW larger \in Nat, size <= larger, AreObjects(els, size)
  PROVE  AreObjects(els, larger)
<1>1. 1 .. size \subseteq 1 .. larger
  OBVIOUS
<1> QED BY <1>1 DEF AreObjects, IsObject

LEMMA EmptyLists ==
  ASSUME NEW size, NEW common, NEW els, NEW from
  PROVE  /\ AreObjects(<<>>, size) /\ Separate(<<>>, common)
         /\ Across(<<>>, els, from, common) /\ Across(els, <<>>, from, common)
BY EmptyIsSequence DEF AreObjects, Separate, Across

LEMMA WithinSymmetric ==
  ASSUME NEW a, NEW b, NEW common, Within(a, b, common)
  PROVE  Within(b, a, common)
BY DEF Within

\* One list behind another.
LEMMA ConcatApart ==
  ASSUME NEW s, NEW t, NEW size, NEW common, AreObjects(s, size), AreObjects(t, size),
         Separate(s, common), Separate(t, common), Across(s, t, 1, common)
  PROVE  AreObjects(s \o t, size) /\ Separate(s \o t, common)
<1>1. /\ IsSequence(s \o t) /\ Len(s) \in Nat /\ Len(t) \in Nat
      /\ DOMAIN s = 1 .. Len(s) /\ DOMAIN t = 1 .. Len(t) /\ DOMAIN (s \o t) = 1 .. Len(s) + Len(t)
      /\ \A i \in 1 .. Len(s) + Len(t) : (s \o t)[i] = IF i <= Len(s) THEN s[i] ELSE t[i - Len(s)]
  <2>1. IsSequence(s) /\ IsSequence(t)
    BY DEF AreObjects
  <2> QED BY <2>1, SequenceFacts, ConcatFacts
<1>2. \A i \in 1 .. Len(s) + Len(t) :
        \/ i \in DOMAIN s /\ (s \o t)[i] = s[i]
        \/ i > Len(s) /\ i - Len(s) \in DOMAIN t /\ (s \o t)[i] = t[i - Len(s)]
  BY <1>1
<1>3. AreObjects(s \o t, size)
  BY <1>1, <1>2 DEF AreObjects
<1>4. ASSUME NEW i \in DOMAIN (s \o t), NEW j \in DOMAIN (s \o t), i < j
      PROVE  Within((s \o t)[i], (s \o t)[j], common)
  <2>1. i \in Nat /\ j \in Nat
    BY <1>1
  <2>2. CASE j <= Len(s)
    <3>1. i \in DOMAIN s /\ j \in DOMAIN s /\ (s \o t)[i] = s[i] /\ (s \o t)[j] = s[j]
      BY <1>1, <1>4, <2>1, <2>2
    <3> QED BY <1>4, <3>1 DEF Separate
  <2>3. CASE i <= Len(s) /\ j > Len(s)
    <3>1. i \in DOMAIN s /\ j - Len(s) \in DOMAIN t /\ j - Len(s) >= 1
      BY <1>1, <1>4, <2>1, <2>3
    <3>2. (s \o t)[i] = s[i] /\ (s \o t)[j] = t[j - Len(s)]
      BY <1>1, <1>4, <2>1, <2>3
    <3> QED BY <3>1, <3>2 DEF Across
  <2>4. CASE i > Len(s)
    <3>1. i - Len(s) \in DOMAIN t /\ j - Len(s) \in DOMAIN t /\ i - Len(s) < j - Len(s)
      BY <1>1, <1>4, <2>1, <2>4
    <3>2. (s \o t)[i] = t[i - Len(s)] /\ (s \o t)[j] = t[j - Len(s)]
      BY <1>1, <1>4, <2>1, <2>4
    <3> QED BY <3>1, <3>2 DEF Separate
  <2> QED BY <1>1, <1>4, <2>1, <2>2, <2>3, <2>4
<1> QED BY <1>3, <1>4 DEF Separate

\* An element behind a list.
LEMMA AppendApart ==
  ASSUME NEW s, NEW e, NEW size, NEW common, AreObjects(s, size), IsObject(e, size),
         Separate(s, common), \A i \in DOMAIN s : Within(s[i], e, common)
  PROVE  AreObjects(Append(s, e), size) /\ Separate(Append(s, e), common)
<1>1. /\ IsSequence(Append(s, e)) /\ Len(s) \in Nat /\ DOMAIN s = 1 .. Len(s)
      /\ DOMAIN Append(s, e) = 1 .. Len(s) + 1
      /\ \A i \in 1 .. Len(s) : Append(s, e)[i] = s[i]
      /\ Append(s, e)[Len(s) + 1] = e
  <2>1. IsSequence(s)
    BY DEF AreObjects
  <2> QED BY <2>1, SequenceFacts, AppendFacts
<1>2. \A i \in DOMAIN Append(s, e) : i \in DOMAIN s \/ i = Len(s) + 1
  BY <1>1
<1>3. AreObjects(Append(s, e), size)
  BY <1>1, <1>2 DEF AreObjects
<1>4. ASSUME NEW i \in DOMAIN Append(s, e), NEW j \in DOMAIN Append(s, e), i < j
      PROVE  Within(Append(s, e)[i], Append(s, e)[j], common)
  <2>1. i \in DOMAIN s /\ Append(s, e)[i] = s[i]
    BY <1>1, <1>4
  <2>2. CASE j \in DOMAIN s
    BY <1>1, <1>4, <2>1, <2>2 DEF Separate
  <2>3. CASE j = Len(s) + 1
    BY <1>1, <2>1, <2>3
  <2> QED BY <1>2, <2>2, <2>3
<1> QED BY <1>3, <1>4 DEF Separate
-----------------------------------------------------------------------------
LEMMA OwnIsSeparate ==
  ASSUME NEW els, NEW common, OwnObjects(els)
  PROVE  Separate(els, common)
BY DEF OwnObjects, Separate, Within

LEMMA InputFacts ==
  ASSUME MemoryInv
  PROVE  /\ Len(objects) \in Nat /\ IsSequence(actions)
         /\ \A i \in DOMAIN actions : actions[i].update # None => IsObject(actions[i].update, Len(objects))
         /\ source.kind = "file" =>
              \A els \in ListsOf(source.doc) : AreObjects(els, Len(objects)) /\ Separate(els, OfDocument)
         /\ source.kind = "api" =>
              \A url \in DOMAIN source.pages :
                LET els == source.pages[url].elements
                IN  /\ AreObjects(els, Len(objects)) /\ Separate(els, OfDocument)
                    /\ \A other \in DOMAIN source.pages \ {url} :
                         Across(els, source.pages[other].elements, 1, OfDocument)
<1>1. PICK input \in Inputs :
        source = input.source /\ actions = input.actions /\ Len(input.objects) <= Len(objects)
  BY DEF MemoryInv, FromInput
<1> DEFINE size == Len(input.objects)
           src == input.source
<1>2. /\ IsSequence(input.objects) /\ IsSequence(input.actions)
      /\ \A i \in DOMAIN input.actions :
           input.actions[i].update # None => IsObject(input.actions[i].update, size)
      /\ src.kind = "file" =>
           \A els \in ListsOf(src.doc) : AreObjects(els, size) /\ OwnObjects(els)
      /\ src.kind = "api" =>
           \A url \in DOMAIN src.pages :
             /\ AreObjects(src.pages[url].elements, size) /\ OwnObjects(src.pages[url].elements)
             /\ \A other \in DOMAIN src.pages \ {url} :
                  NoCommon(src.pages[url].elements, src.pages[other].elements)
  BY InputsAssumption
<1>3. Len(objects) \in Nat /\ size \in Nat
  BY <1>2, SequenceFacts DEF MemoryInv
<1>4. 1 .. size \subseteq 1 .. Len(objects)
  BY <1>1, <1>3
<1>5. /\ \A els : AreObjects(els, size) => AreObjects(els, Len(objects))
      /\ \A o : IsObject(o, size) => IsObject(o, Len(objects))
  BY <1>4 DEF AreObjects, IsObject
<1>6. \A els : OwnObjects(els) => Separate(els, OfDocument)
  BY OwnIsSeparate
<1>7. \A els, others : NoCommon(els, others) => Across(els, others, 1, OfDocument)
  BY DEF NoCommon, Across, Within
<1> HIDE DEF size
<1>8. source.kind = "file" =>
        \A els \in ListsOf(source.doc) : AreObjects(els, Len(objects)) /\ Separate(els, OfDocument)
  BY <1>1, <1>2, <1>5, <1>6
<1>9. source.kind = "api" =>
        \A url \in DOMAIN source.pages :
          LET els == source.pages[url].elements
          IN  /\ AreObjects(els, Len(objects)) /\ Separate(els, OfDocument)
              /\ \A other \in DOMAIN source.pages \ {url} :
                   Across(els, source.pages[other].elements, 1, OfDocument)
  BY <1>1, <1>2, <1>5, <1>6, <1>7
<1> QED BY <1>1, <1>2, <1>3, <1>5, <1>8, <1>9

LEMMA ShareInit == Init => ShareInv
<1> SUFFICES ASSUME Init
             PROVE  ShareInv
  OBVIOUS
<1> USE DEF Init, LoaderInit, OverlayInit
<1>1. PICK input \in Inputs : source = input.source /\ objects = input.objects /\ actions = input.actions
  OBVIOUS
<1>2. IsSequence(objects) /\ Len(objects) \in Nat
  BY <1>1, InputsAssumption, SequenceFacts
<1>3. MemoryInv
  BY <1>1, <1>2 DEF MemoryInv, FromInput
<1>4. elements = <<>> /\ kept = <<>> /\ dupes = <<>> /\ at = 1
  OBVIOUS
<1>5. ListsInv
  BY <1>4, EmptyLists DEF ListsInv
<1>6. LoadInv
  BY <1>4, EmptyLists DEF LoadInv
<1> QED BY <1>3, <1>5, <1>6 DEF ShareInv

\* What keeps the memory and the lists as they are.
LEMMA ListsKept ==
  ASSUME ShareInv, UNCHANGED <<overlayVars, source>>,
         status' = "load" => status = "load" /\ UNCHANGED visited
  PROVE  ShareInv'
<1> USE DEF overlayVars, actionVars
<1>1. /\ UNCHANGED elements /\ UNCHANGED objects /\ UNCHANGED actions /\ UNCHANGED act /\ UNCHANGED at /\ UNCHANGED source
      /\ UNCHANGED kept /\ UNCHANGED dupes /\ OfDocument' = OfDocument
  BY DEF OfDocument
<1>2. MemoryInv'
  BY <1>1 DEF ShareInv, MemoryInv, FromInput
<1>3. ListsInv'
  BY <1>1 DEF ShareInv, ListsInv
<1>4. LoadInv'
  BY <1>1 DEF ShareInv, LoadInv
<1> QED BY <1>2, <1>3, <1>4 DEF ShareInv

\* Load hands over, or fails.
LEMMA LoadEnds ==
  ASSUME ShareInv, status = "load", NEW outcome \in {"overlay", "failed"}, NEW els, Returned(outcome, els),
         AreObjects(els, Len(objects)), Separate(els, OfDocument)
  PROVE  ShareInv'
<1>1. /\ status' # "load" /\ elements' = els /\ UNCHANGED objects /\ UNCHANGED actions /\ UNCHANGED source
      /\ UNCHANGED act /\ UNCHANGED at /\ UNCHANGED kept /\ UNCHANGED dupes /\ OfDocument' = OfDocument
  BY DEF Returned, actionVars, OfDocument
<1>2. kept = <<>> /\ dupes = <<>>
  BY DEF ShareInv, LoadInv
<1>3. MemoryInv'
  BY <1>1 DEF ShareInv, MemoryInv, FromInput
<1>4. ListsInv'
  BY <1>1, <1>2, EmptyLists DEF ListsInv
<1> QED BY <1>1, <1>3, <1>4 DEF ShareInv, LoadInv

LEMMA LoadKeepsApart ==
  ASSUME ShareInv, Load
  PROVE  ShareInv'
<1>1. status = "load" /\ MemoryInv /\ ListsInv /\ LoadInv
  BY DEF Load, ReadFile, LatestCommit, FetchPage, PageRepeats, RequestFails, Loading, ShareInv
<1>2. /\ AreObjects(elements, Len(objects)) /\ Separate(elements, OfDocument)
      /\ AreObjects(<<>>, Len(objects)) /\ Separate(<<>>, OfDocument)
  BY <1>1, EmptyLists DEF ListsInv
<1>3. ASSUME LoadFails
      PROVE  ShareInv'
  BY <1>1, <1>2, <1>3, LoadEnds DEF LoadFails
<1>4. CASE ReadFile
  <2>1. \A els \in ListsOf(source.doc) : AreObjects(els, Len(objects)) /\ Separate(els, OfDocument)
    BY <1>1, <1>4, InputFacts DEF ReadFile, Loading
  <2>2. \/ LoadFails
        \/ \E els \in ListsOf(source.doc) : Loaded(els)
    BY <1>4 DEF ReadFile, Decode, ListsOf
  <2>3. ASSUME NEW els \in ListsOf(source.doc), Loaded(els)
        PROVE  ShareInv'
    BY <1>1, <2>1, <2>3, LoadEnds DEF Loaded
  <2> QED BY <1>3, <2>2, <2>3
<1>5. CASE LatestCommit
  <2>1. CASE LoadFails
    BY <1>3, <2>1
  <2>2. CASE UNCHANGED <<source, visited, overlayVars, status>>
    BY <1>1, <2>2, ListsKept
  <2> QED BY <1>5, <2>1, <2>2 DEF LatestCommit
<1>6. CASE FetchPage
  <2> DEFINE page == source.pages[next]
  <2>1. source.kind = "api" /\ next \in DOMAIN source.pages /\ next \notin visited
    BY <1>6 DEF FetchPage, Loading
  <2>2. /\ AreObjects(page.elements, Len(objects)) /\ Separate(page.elements, OfDocument)
        /\ \A other \in DOMAIN source.pages \ {next} :
             Across(page.elements, source.pages[other].elements, 1, OfDocument)
    BY <1>1, <2>1, InputFacts
  <2>3. /\ Across(elements, page.elements, 1, OfDocument)
        /\ \A other \in DOMAIN source.pages \ visited :
             Across(elements, source.pages[other].elements, 1, OfDocument)
    BY <1>1, <2>1 DEF LoadInv
  <2> DEFINE all == elements \o page.elements
  <2>4. AreObjects(all, Len(objects)) /\ Separate(all, OfDocument)
    BY <1>2, <2>2, <2>3, ConcatApart
  <2>5. CASE Loaded(all)
    BY <1>1, <2>4, <2>5, LoadEnds DEF Loaded
  <2>6. CASE /\ elements' = all
             /\ visited' = visited \cup {next}
             /\ UNCHANGED <<source, objects, actions, act, actionVars, status>>
    <3>1. \A other \in DOMAIN source.pages \ (visited \cup {next}) :
            Across(all, source.pages[other].elements, 1, OfDocument)
      <4> SUFFICES ASSUME NEW other \in DOMAIN source.pages \ (visited \cup {next})
                   PROVE  Across(all, source.pages[other].elements, 1, OfDocument)
        OBVIOUS
      <4>1. /\ Across(elements, source.pages[other].elements, 1, OfDocument)
            /\ Across(page.elements, source.pages[other].elements, 1, OfDocument)
        BY <2>2, <2>3
      <4>2. IsSequence(elements) /\ IsSequence(page.elements)
        BY <1>2, <2>2 DEF AreObjects
      <4> HIDE DEF page
      <4>3. \A i \in DOMAIN all :
              \/ i \in DOMAIN elements /\ all[i] = elements[i]
              \/ \E j \in DOMAIN page.elements : all[i] = page.elements[j]
        <5>1. /\ Len(elements) \in Nat /\ Len(page.elements) \in Nat
              /\ DOMAIN elements = 1 .. Len(elements) /\ DOMAIN page.elements = 1 .. Len(page.elements)
              /\ DOMAIN all = 1 .. Len(elements) + Len(page.elements)
              /\ \A i \in 1 .. Len(elements) + Len(page.elements) :
                   all[i] = IF i <= Len(elements) THEN elements[i] ELSE page.elements[i - Len(elements)]
          BY <4>2, SequenceFacts, ConcatFacts
        <5>2. ASSUME NEW i \in DOMAIN all, i > Len(elements)
              PROVE  i - Len(elements) \in DOMAIN page.elements
          BY <5>1, <5>2
        <5> HIDE DEF all
        <5> QED BY <5>1, <5>2
      <4> QED BY <4>1, <4>3 DEF Across
    <3>2. /\ UNCHANGED objects /\ UNCHANGED actions /\ UNCHANGED source /\ UNCHANGED status
          /\ UNCHANGED act /\ UNCHANGED at /\ UNCHANGED kept /\ UNCHANGED dupes /\ OfDocument' = OfDocument
      BY <2>6 DEF actionVars, OfDocument
    <3>3. kept = <<>> /\ dupes = <<>> /\ at = 1
      BY <1>1 DEF LoadInv
    <3>4. MemoryInv'
      BY <1>1, <3>2 DEF MemoryInv, FromInput
    <3>5. ListsInv'
      BY <2>4, <2>6, <3>2, <3>3, EmptyLists DEF ListsInv
    <3>6. LoadInv'
      BY <2>6, <3>1, <3>2, <3>3 DEF LoadInv
    <3> QED BY <3>4, <3>5, <3>6 DEF ShareInv
  <2> QED BY <1>6, <2>5, <2>6 DEF FetchPage
<1>7. CASE PageRepeats
  BY <1>1, <1>2, <1>7, LoadEnds DEF PageRepeats, Loaded
<1>8. CASE RequestFails
  BY <1>3, <1>8 DEF RequestFails
<1> QED BY <1>4, <1>5, <1>6, <1>7, <1>8 DEF Load
-----------------------------------------------------------------------------
\* While the document is applied, the action and the element that it is at.
LEMMA AtAnElement ==
  ASSUME ShareInv, NEW op, Doing(op), AtElement
  PROVE  /\ status = "overlay" /\ at \in DOMAIN elements /\ IsObject(El, Len(objects))
         /\ act \in DOMAIN actions
         /\ Action.update # None =>
              IsObject(Action.update, Len(objects)) /\ Addresses(Action.update) \subseteq OfDocument
<1>1. MemoryInv /\ ListsInv
  BY DEF ShareInv
<1>2. at \in DOMAIN elements
  <2>1. DOMAIN elements = 1 .. Len(elements) /\ Len(elements) \in Nat
    BY <1>1, SequenceFacts DEF ListsInv, AreObjects
  <2>2. at \in Nat \ {0} /\ at <= Len(elements)
    BY <1>1 DEF MemoryInv, AtElement
  <2> QED BY <2>1, <2>2
<1>3. act \in DOMAIN actions
  <2>1. DOMAIN actions = 1 .. Len(actions) /\ Len(actions) \in Nat
    BY <1>1, InputFacts, SequenceFacts
  <2>2. act \in Nat \ {0} /\ act <= Len(actions)
    BY <1>1 DEF Doing, MemoryInv
  <2> QED BY <2>1, <2>2
<1>4. Action.update # None =>
        IsObject(Action.update, Len(objects)) /\ Addresses(Action.update) \subseteq OfDocument
  BY <1>1, <1>3, InputFacts DEF Action, OfDocument
<1> QED BY <1>1, <1>2, <1>3, <1>4 DEF ListsInv, AreObjects, El, Doing

\* What merges objects keeps the memory a sequence of its length.
LEMMA MergedMemory ==
  ASSUME NEW mem, NEW dst, NEW src, IsSequence(mem)
  PROVE  IsSequence(MergeObjects(mem, dst, src)) /\ Len(MergeObjects(mem, dst, src)) = Len(mem)
<1>1. Len(mem) \in Nat /\ DOMAIN mem = 1 .. Len(mem)
  BY SequenceFacts
<1>2. MergeObjects(mem, dst, src) = [a \in 1 .. Len(mem) |-> MergeObjects(mem, dst, src)[a]]
  BY <1>1 DEF MergeObjects
<1> QED BY <1>1, <1>2, SequenceOf

LEMMA UpdateKeepsApart ==
  ASSUME ShareInv, UpdateElement, UNCHANGED source
  PROVE  ShareInv'
<1>1. /\ status = "overlay" /\ at \in DOMAIN elements /\ IsObject(El, Len(objects))
      /\ IsObject(Action.update, Len(objects)) /\ Addresses(Action.update) \subseteq OfDocument
  <2>1. Doing("update") /\ AtElement
    BY DEF UpdateElement
  <2>2. Action.update # None
    BY <2>1 DEF Doing, Op
  <2> QED BY <2>1, <2>2, AtAnElement
<1>2. MemoryInv /\ ListsInv /\ at \in Nat \ {0}
  BY DEF ShareInv, MemoryInv
<1>3. /\ UNCHANGED actions /\ UNCHANGED act /\ UNCHANGED kept /\ UNCHANGED dupes /\ at' = at + 1
      /\ UNCHANGED status /\ OfDocument' = OfDocument
  BY DEF UpdateElement, OfDocument
<1>4. IsSequence(objects') /\ Len(objects') = Len(objects)
  BY <1>2, MergedMemory DEF UpdateElement, MemoryInv
<1>5. MemoryInv'
  BY <1>2, <1>3, <1>4 DEF MemoryInv, FromInput
<1>6. /\ IsSequence(elements') /\ DOMAIN elements' = DOMAIN elements
      /\ \A i \in DOMAIN elements : i # at => elements'[i] = elements[i]
      /\ IsObject(elements'[at], Len(objects))
      /\ Addresses(elements'[at]) \subseteq Addresses(elements[at]) \cup OfDocument
  <2>1. Len(elements) \in Nat /\ DOMAIN elements = 1 .. Len(elements) /\ IsSequence(elements)
    BY <1>2, SequenceFacts DEF ListsInv, AreObjects
  <2>2. CASE Matched
    <3>1. elements' = [elements EXCEPT ![at] = MergeFields(El, Action.update)]
      BY <2>2 DEF UpdateElement, El
    <3>2. elements' = [i \in 1 .. Len(elements) |-> elements'[i]]
      BY <2>1, <3>1
    <3>3. IsSequence(elements') /\ DOMAIN elements' = DOMAIN elements
      BY <2>1, <3>2, SequenceOf
    <3>4. elements'[at] = MergeFields(El, Action.update)
      BY <1>1, <3>1
    <3>5. /\ IsFiniteSet(DOMAIN MergeFields(El, Action.update))
          /\ Addresses(MergeFields(El, Action.update)) \subseteq Addresses(El) \cup Addresses(Action.update)
      BY <1>1, MergedAddresses DEF IsObject
    <3> QED BY <1>1, <3>1, <3>3, <3>4, <3>5 DEF IsObject, El
  <2>3. CASE ~Matched
    BY <1>1, <2>1, <2>3 DEF UpdateElement, El
  <2> QED BY <2>2, <2>3
<1>7. ListsInv'
  <2>1. AreObjects(elements', Len(objects))
    BY <1>2, <1>6 DEF ListsInv, AreObjects
  <2>2. \A a : \A i \in DOMAIN elements :
          Within(a, elements[i], OfDocument) => Within(a, elements'[i], OfDocument)
    <3>1. \A i \in DOMAIN elements : Addresses(elements'[i]) \subseteq Addresses(elements[i]) \cup OfDocument
      BY <1>6
    <3> QED BY <3>1 DEF Within
  <2>3. Separate(elements', OfDocument)
    <3>1. ASSUME NEW i \in DOMAIN elements, NEW j \in DOMAIN elements, i < j
          PROVE  Within(elements'[i], elements'[j], OfDocument)
      <4>1. Within(elements[i], elements'[j], OfDocument)
        BY <1>2, <2>2, <3>1 DEF ListsInv, Separate
      <4>2. Within(elements'[j], elements'[i], OfDocument)
        BY <2>2, <4>1, WithinSymmetric
      <4> QED BY <4>2, WithinSymmetric
    <3> QED BY <1>6, <3>1 DEF Separate
  <2>4. Across(kept, elements', at + 1, OfDocument) /\ Across(dupes, elements', 1, OfDocument)
    <3>1. \A j \in DOMAIN elements : j >= at + 1 => j >= at
      <4>1. DOMAIN elements \subseteq Nat
        BY <1>2, SequenceFacts DEF ListsInv, AreObjects
      <4> QED BY <1>2, <4>1
    <3>2. Across(kept, elements, at, OfDocument) /\ Across(dupes, elements, 1, OfDocument)
      BY <1>2 DEF ListsInv
    <3> QED BY <1>6, <2>2, <3>1, <3>2 DEF Across
  <2> QED BY <1>2, <1>3, <1>4, <2>1, <2>3, <2>4 DEF ListsInv
<1>8. LoadInv'
  BY <1>1, <1>3 DEF LoadInv
<1> QED BY <1>5, <1>7, <1>8 DEF ShareInv

LEMMA RemoveKeepsApart ==
  ASSUME ShareInv, RemoveElement, UNCHANGED source
  PROVE  ShareInv'
<1>1. status = "overlay" /\ at \in DOMAIN elements /\ IsObject(El, Len(objects))
  BY AtAnElement DEF RemoveElement
<1>2. MemoryInv /\ ListsInv /\ at \in Nat \ {0}
  BY DEF ShareInv, MemoryInv
<1>3. /\ UNCHANGED actions /\ UNCHANGED act /\ UNCHANGED objects /\ UNCHANGED elements /\ UNCHANGED dupes
      /\ at' = at + 1 /\ UNCHANGED status /\ OfDocument' = OfDocument
  BY DEF RemoveElement, OfDocument
<1>4. MemoryInv'
  BY <1>2, <1>3 DEF MemoryInv, FromInput
<1>5. DOMAIN elements \subseteq Nat
  BY <1>2, SequenceFacts DEF ListsInv, AreObjects
<1>6. AreObjects(kept', Len(objects)) /\ Separate(kept', OfDocument) /\ Across(kept', elements, at + 1, OfDocument)
  <2>1. /\ AreObjects(kept, Len(objects)) /\ Separate(kept, OfDocument)
        /\ Across(kept, elements, at, OfDocument) /\ Separate(elements, OfDocument)
    BY <1>2 DEF ListsInv
  <2>2. Across(kept, elements, at + 1, OfDocument)
    <3>1. \A j \in DOMAIN elements : j >= at + 1 => j >= at
      BY <1>2, <1>5
    <3> QED BY <2>1, <3>1 DEF Across
  <2>3. CASE Matched
    BY <2>1, <2>2, <2>3 DEF RemoveElement
  <2>4. CASE ~Matched
    <3>1. kept' = Append(kept, El)
      BY <2>4 DEF RemoveElement
    <3>2. \A i \in DOMAIN kept : Within(kept[i], El, OfDocument)
      <4>1. at >= at
        BY <1>2
      <4> QED BY <1>1, <2>1, <4>1 DEF Across, El
    <3>3. AreObjects(kept', Len(objects)) /\ Separate(kept', OfDocument)
      BY <1>1, <2>1, <3>1, <3>2, AppendApart
    <3>4. \A i \in DOMAIN kept' : (i \in DOMAIN kept /\ kept'[i] = kept[i]) \/ kept'[i] = El
      <4>1. IsSequence(kept)
        BY <2>1 DEF AreObjects
      <4>2. /\ Len(kept) \in Nat /\ DOMAIN kept = 1 .. Len(kept)
            /\ DOMAIN Append(kept, El) = 1 .. Len(kept) + 1
            /\ \A i \in 1 .. Len(kept) : Append(kept, El)[i] = kept[i]
            /\ Append(kept, El)[Len(kept) + 1] = El
        BY <4>1, SequenceFacts, AppendFacts
      <4>3. \A i \in 1 .. Len(kept) + 1 : i \in 1 .. Len(kept) \/ i = Len(kept) + 1
        BY <4>2
      <4> QED BY <3>1, <4>2, <4>3
    <3>5. \A j \in DOMAIN elements : j >= at + 1 => Within(El, elements[j], OfDocument)
      <4>1. \A j \in DOMAIN elements : j >= at + 1 => at < j
        BY <1>2, <1>5
      <4> QED BY <1>1, <2>1, <4>1 DEF Separate, El
    <3>6. Across(kept', elements, at + 1, OfDocument)
      BY <2>2, <3>4, <3>5 DEF Across
    <3> QED BY <3>3, <3>6
  <2> QED BY <2>3, <2>4
<1>7. ListsInv'
  BY <1>2, <1>3, <1>6 DEF ListsInv
<1>8. LoadInv'
  BY <1>1, <1>3 DEF LoadInv
<1> QED BY <1>4, <1>7, <1>8 DEF ShareInv

LEMMA CopyKeepsApart ==
  ASSUME ShareInv, CopyElement, UNCHANGED source
  PROVE  ShareInv'
<1>1. status = "overlay" /\ at \in DOMAIN elements /\ IsObject(El, Len(objects))
  BY AtAnElement DEF CopyElement
<1>2. MemoryInv /\ ListsInv /\ at \in Nat \ {0} /\ Len(objects) \in Nat
  BY InputFacts DEF ShareInv, MemoryInv
<1>3. /\ UNCHANGED actions /\ UNCHANGED act /\ UNCHANGED elements /\ UNCHANGED kept
      /\ at' = at + 1 /\ UNCHANGED status /\ OfDocument' = OfDocument
  BY DEF CopyElement, OfDocument
<1>4. Across(kept, elements, at + 1, OfDocument)
  <2>1. DOMAIN elements \subseteq Nat
    BY <1>2, SequenceFacts DEF ListsInv, AreObjects
  <2>2. \A j \in DOMAIN elements : j >= at + 1 => j >= at
    BY <1>2, <2>1
  <2> QED BY <1>2, <2>2 DEF ListsInv, Across
<1>5. CASE ~Matched
  <2>1. UNCHANGED dupes /\ UNCHANGED objects
    BY <1>5 DEF CopyElement
  <2>2. MemoryInv'
    BY <1>2, <1>3, <2>1 DEF MemoryInv, FromInput
  <2>3. ListsInv'
    BY <1>2, <1>3, <1>4, <2>1 DEF ListsInv
  <2> QED BY <1>1, <1>3, <2>2, <2>3 DEF ShareInv, LoadInv
<1>6. CASE Matched
  <2> DEFINE copy == Renamed(CopyFields(El), Action.copy)
             size == Len(objects)
             larger == size + Len(CopyObjects(El))
  <2>1. dupes' = Append(dupes, copy) /\ objects' = objects \o CopyObjects(El)
    BY <1>6 DEF CopyElement
  <2>2. /\ IsFiniteSet(DOMAIN CopyFields(El))
        /\ IsSequence(CopyObjects(El)) /\ Len(CopyObjects(El)) \in Nat
        /\ Addresses(CopyFields(El)) \subseteq size + 1 .. larger
    BY <1>1, <1>2, CopiedAddresses DEF IsObject
  <2>3. IsFiniteSet(DOMAIN copy) /\ Addresses(copy) \subseteq size + 1 .. larger
    BY <2>2, RenamedAddresses
  <2>4. IsSequence(objects') /\ Len(objects') = larger
    BY <1>2, <2>1, <2>2, ConcatFacts DEF MemoryInv
  <2> HIDE DEF copy
  <2>5. size \in Nat /\ larger \in Nat /\ size <= larger
    BY <1>2, <2>2
  <2> HIDE DEF size, larger
  <2>6. size + 1 .. larger \subseteq 1 .. larger /\ (size + 1 .. larger) \cap (1 .. size) = {}
    BY <2>5
  <2>7. MemoryInv'
    <3>1. PICK input \in Inputs :
            source = input.source /\ actions = input.actions /\ Len(input.objects) <= Len(objects)
      BY <1>2 DEF MemoryInv, FromInput
    <3>2. Len(input.objects) \in Nat
      BY InputsAssumption, SequenceFacts
    <3>3. Len(input.objects) <= Len(objects')
      BY <2>4, <2>5, <3>1, <3>2 DEF size
    <3> QED BY <1>2, <1>3, <2>4, <3>1, <3>3 DEF MemoryInv, FromInput
  <2>8. /\ AreObjects(elements, size) /\ AreObjects(kept, size) /\ AreObjects(dupes, size)
        /\ AreObjects(elements, larger) /\ AreObjects(kept, larger) /\ AreObjects(dupes, larger)
    BY <1>2, <2>5, LargerMemory DEF ListsInv, size
  <2>9. IsObject(copy, larger)
    BY <2>3, <2>6 DEF IsObject
  <2>10. \A o : IsObject(o, size) => Within(o, copy, OfDocument) /\ Within(copy, o, OfDocument)
    BY <2>3, <2>6 DEF IsObject, Within
  <2>11. AreObjects(dupes', larger) /\ Separate(dupes', OfDocument)
    BY <1>2, <2>1, <2>8, <2>9, <2>10, AppendApart DEF ListsInv, AreObjects
  <2>12. Across(dupes', elements, 1, OfDocument)
    <3>1. \A i \in DOMAIN dupes' : (i \in DOMAIN dupes /\ dupes'[i] = dupes[i]) \/ dupes'[i] = copy
      <4>1. IsSequence(dupes)
        BY <2>8 DEF AreObjects
      <4>2. /\ Len(dupes) \in Nat /\ DOMAIN dupes = 1 .. Len(dupes)
            /\ DOMAIN Append(dupes, copy) = 1 .. Len(dupes) + 1
            /\ \A i \in 1 .. Len(dupes) : Append(dupes, copy)[i] = dupes[i]
            /\ Append(dupes, copy)[Len(dupes) + 1] = copy
        BY <4>1, SequenceFacts, AppendFacts
      <4>3. \A i \in 1 .. Len(dupes) + 1 : i \in 1 .. Len(dupes) \/ i = Len(dupes) + 1
        BY <4>2
      <4> QED BY <2>1, <4>2, <4>3
    <3>2. \A j \in DOMAIN elements : Within(copy, elements[j], OfDocument)
      BY <2>8, <2>10 DEF AreObjects
    <3> QED BY <1>2, <3>1, <3>2 DEF Across, ListsInv
  <2>13. ListsInv'
    BY <1>2, <1>3, <1>4, <2>4, <2>8, <2>11, <2>12 DEF ListsInv
  <2> QED BY <1>1, <1>3, <2>7, <2>13 DEF ShareInv, LoadInv
<1> QED BY <1>5, <1>6

LEMMA NextActionKeepsApart ==
  ASSUME ShareInv, NextAction, UNCHANGED source
  PROVE  ShareInv'
<1>1. MemoryInv /\ ListsInv
  BY DEF ShareInv
<1>2. /\ UNCHANGED actions /\ UNCHANGED objects /\ UNCHANGED status /\ OfDocument' = OfDocument
      /\ act' = act + 1 /\ at' = 1 /\ kept' = <<>> /\ dupes' = <<>> /\ status = "overlay"
  BY DEF NextAction, OfDocument, Doing
<1>3. MemoryInv'
  <2>1. act + 1 \in Nat \ {0} /\ 1 \in Nat \ {0}
    BY <1>1 DEF MemoryInv
  <2> QED BY <1>1, <1>2, <2>1 DEF MemoryInv, FromInput
<1>4. AreObjects(elements', Len(objects)) /\ Separate(elements', OfDocument)
  <2>1. CASE UNCHANGED elements
    BY <1>1, <2>1 DEF ListsInv
  <2>2. CASE elements' = [i \in DOMAIN kept |-> Pruned(kept[i])]
    <3>1. AreObjects(kept, Len(objects)) /\ Separate(kept, OfDocument)
      BY <1>1 DEF ListsInv
    <3>2. Len(kept) \in Nat /\ DOMAIN kept = 1 .. Len(kept)
      BY <3>1, SequenceFacts DEF AreObjects
    <3>3. elements' = [i \in 1 .. Len(kept) |-> elements'[i]]
      BY <2>2, <3>2
    <3>4. IsSequence(elements') /\ DOMAIN elements' = DOMAIN kept
      BY <3>2, <3>3, SequenceOf
    <3>5. \A i \in DOMAIN kept : /\ DOMAIN elements'[i] = DOMAIN kept[i]
                                 /\ Addresses(elements'[i]) \subseteq Addresses(kept[i])
      <4>1. \A i \in DOMAIN kept : elements'[i] = Pruned(kept[i])
        BY <2>2
      <4> QED BY <4>1, PrunedAddresses
    <3>6. AreObjects(elements', Len(objects))
      BY <3>1, <3>4, <3>5 DEF AreObjects, IsObject
    <3>7. Separate(elements', OfDocument)
      BY <3>1, <3>4, <3>5 DEF Separate, Within
    <3> QED BY <3>6, <3>7
  <2>3. CASE elements' = elements \o dupes
    <3>1. /\ AreObjects(elements, Len(objects)) /\ Separate(elements, OfDocument)
          /\ AreObjects(dupes, Len(objects)) /\ Separate(dupes, OfDocument)
      BY <1>1 DEF ListsInv
    <3>2. Across(elements, dupes, 1, OfDocument)
      <4>1. \A i \in DOMAIN elements : i >= 1
        BY <3>1, SequenceFacts DEF AreObjects
      <4> QED BY <1>1, <4>1, WithinSymmetric DEF ListsInv, Across
    <3> QED BY <2>3, <3>1, <3>2, ConcatApart
  <2> QED BY <2>1, <2>2, <2>3 DEF NextAction
<1>5. ListsInv'
  BY <1>2, <1>4, EmptyLists DEF ListsInv
<1> QED BY <1>2, <1>3, <1>5 DEF ShareInv, LoadInv

\* Whatever loads and applies nothing leaves what has been loaded alone.
LEMMA NextCases ==
  ASSUME [Next]_vars
  PROVE  \/ Load /\ UNCHANGED buildVars
         \/ Apply /\ UNCHANGED <<loaderVars, buildVars>>
         \/ /\ UNCHANGED inputVars
            /\ (status' = "load" <=> status = "load") /\ (status' = "overlay" <=> status = "overlay")
<1>1. CASE IndexElements
  BY <1>1 DEF IndexElements
<1>2. CASE \E id \in unvisited : ResolveElement(id)
  BY <1>2 DEF ResolveElement
<1>3. CASE BuildDone
  BY <1>3 DEF BuildDone
<1>4. CASE CollectContexts \/ VisitDescendant \/ ClassifyDescendant \/ CloseContext
  <2>1. status \in {"map", "default"} /\ UNCHANGED inputVars /\ UNCHANGED status
    BY <1>4, Zenon DEF CollectContexts, VisitDescendant, ClassifyDescendant, CloseContext, Calling
  <2> QED BY <2>1
<1>5. CASE Synthesize \/ SortProject
  <2>1. UNCHANGED inputVars /\ status \in {"map", "default"} /\ status' \in {"default", "done"}
    <3>1. CASE Synthesize
      BY <3>1, Zenon DEF Synthesize
    <3>2. CASE SortProject
      BY <3>2, Zenon DEF SortProject
    <3> QED BY <1>5, <3>1, <3>2
  <2> QED BY <2>1
<1>6. CASE RenderProject
  BY <1>6 DEF RenderProject
<1>7. CASE UNCHANGED vars
  BY <1>7 DEF vars
<1> QED BY <1>1, <1>2, <1>3, <1>4, <1>5, <1>6, <1>7 DEF Next

LEMMA ShareStep == ShareInv /\ [Next]_vars => ShareInv'
<1> SUFFICES ASSUME ShareInv, [Next]_vars
             PROVE  ShareInv'
  OBVIOUS
<1>1. CASE Load /\ UNCHANGED buildVars
  BY <1>1, LoadKeepsApart
<1>2. CASE Apply /\ UNCHANGED <<loaderVars, buildVars>>
  <2>1. UNCHANGED source
    BY <1>2 DEF loaderVars
  <2>2. CASE UpdateElement
    BY <2>1, <2>2, UpdateKeepsApart
  <2>3. CASE RemoveElement
    BY <2>1, <2>3, RemoveKeepsApart
  <2>4. CASE CopyElement
    BY <2>1, <2>4, CopyKeepsApart
  <2>5. CASE NextAction
    BY <2>1, <2>5, NextActionKeepsApart
  <2>6. CASE ActionFails \/ ApplyDone
    <3>1. UNCHANGED overlayVars /\ status' # "load"
      BY <2>6 DEF ActionFails, ApplyDone
    <3> QED BY <2>1, <3>1, ListsKept
  <2> QED BY <1>2, <2>2, <2>3, <2>4, <2>5, <2>6 DEF Apply
<1>3. CASE /\ UNCHANGED inputVars
           /\ status' = "load" => status = "load"
  BY <1>3, ListsKept DEF inputVars, loaderVars
<1>4. \/ Load /\ UNCHANGED buildVars
      \/ Apply /\ UNCHANGED <<loaderVars, buildVars>>
      \/ UNCHANGED inputVars /\ (status' = "load" => status = "load")
  BY NextCases
<1> QED BY <1>1, <1>2, <1>3, <1>4

LEMMA ShareAlways == Spec => []ShareInv
BY ShareInit, ShareStep, PTL DEF Spec

(***************************************************************************)
(* Two elements share an object only where updates have assigned it, for   *)
(* every model and every document: decoding, copies, removes and merges    *)
(* never make two elements hold one map.                                   *)
(***************************************************************************)
THEOREM SharedByUpdatesOnly == Spec => []SharingComesFromUpdates
<1>1. ShareInv => SharingComesFromUpdates
  BY DEF ShareInv, ListsInv, Separate, Within, SharingComesFromUpdates
<1> QED BY <1>1, ShareAlways, PTL

(***************************************************************************)
(* Of the elements that a document comes to, an update changes what it     *)
(* matches; any other only through an object of the document that it has   *)
(* in common with what is matched.                                         *)
(***************************************************************************)
Stays ==
  status = "overlay" /\ at' = at + 1 =>
    \A i \in DOMAIN elements :
      Deep(objects', elements'[i]) # Deep(objects, elements[i]) =>
        /\ Doing("update") /\ Matched
        /\ i = at \/ Addresses(elements[i]) \cap Addresses(El) \cap OfDocument # {}

\* What keeps the objects of an element keeps what it says.
LEMMA DeepKept ==
  ASSUME NEW mem, NEW after, NEW el, \A a \in Addresses(el) : after[a] = mem[a]
  PROVE  Deep(after, el) = Deep(mem, el)
<1>1. \A k \in DOMAIN el : IsObj(el[k]) => after[el[k].obj] = mem[el[k].obj]
  BY DEF Addresses, ObjFields
<1> QED BY <1>1 DEF Deep

LEMMA StaysStep == ShareInv /\ [Next]_vars => Stays
<1> SUFFICES ASSUME ShareInv, [Next]_vars, status = "overlay", at' = at + 1,
                    NEW i \in DOMAIN elements,
                    Deep(objects', elements'[i]) # Deep(objects, elements[i])
             PROVE  /\ Doing("update") /\ Matched
                    /\ i = at \/ Addresses(elements[i]) \cap Addresses(El) \cap OfDocument # {}
  BY DEF Stays
<1>1. MemoryInv /\ ListsInv /\ at \in Nat \ {0} /\ Len(objects) \in Nat /\ IsSequence(objects)
  BY InputFacts DEF ShareInv, MemoryInv
<1>2. UpdateElement \/ RemoveElement \/ CopyElement
  <2>1. Apply
    <3>1. at' # at
      BY <1>1
    <3>2. ~UNCHANGED inputVars
      BY <3>1 DEF inputVars, overlayVars, actionVars
    <3>3. ~Load
      BY DEF Load, ReadFile, LatestCommit, FetchPage, PageRepeats, RequestFails, Loading
    <3> QED BY <3>2, <3>3 DEF Next, vars, IndexElements, ResolveElement, BuildDone, CollectContexts, VisitDescendant,
             ClassifyDescendant, CloseContext, Synthesize, SortProject, RenderProject
  <2>2. ~NextAction
    <3>1. at + 1 # 1
      BY <1>1
    <3> QED BY <3>1 DEF NextAction
  <2>3. ~ActionFails /\ ~ApplyDone
    <3>1. at + 1 # at
      BY <1>1
    <3> QED BY <3>1 DEF ActionFails, ApplyDone, overlayVars, actionVars
  <2> QED BY <2>1, <2>2, <2>3 DEF Apply
<1>3. ~RemoveElement
  BY DEF RemoveElement
<1>4. ~CopyElement
  <2> SUFFICES ASSUME CopyElement
               PROVE  FALSE
    OBVIOUS
  <2>1. UNCHANGED elements /\ IsObject(El, Len(objects)) /\ IsObject(elements[i], Len(objects))
    BY <1>1, AtAnElement DEF CopyElement, ListsInv, AreObjects
  <2>2. \A a \in 1 .. Len(objects) : objects'[a] = objects[a]
    <3>1. CASE ~Matched
      BY <3>1 DEF CopyElement
    <3>2. CASE Matched
      <4>1. objects' = objects \o CopyObjects(El)
        BY <3>2 DEF CopyElement
      <4>2. IsSequence(CopyObjects(El)) /\ Len(CopyObjects(El)) \in Nat
        BY <1>1, <2>1, CopiedAddresses DEF IsObject
      <4>3. \A a \in 1 .. Len(objects) + Len(CopyObjects(El)) :
              objects'[a] = IF a <= Len(objects) THEN objects[a] ELSE CopyObjects(El)[a - Len(objects)]
        BY <1>1, <4>1, <4>2, ConcatFacts
      <4> QED BY <1>1, <4>2, <4>3
    <3> QED BY <3>1, <3>2
  <2>3. Deep(objects', elements[i]) = Deep(objects, elements[i])
    BY <2>1, <2>2, DeepKept DEF IsObject
  <2> QED BY <2>1, <2>3
<1>5. CASE UpdateElement
  <2>1. Doing("update") /\ AtElement /\ at \in DOMAIN elements
    BY <1>5, AtAnElement DEF UpdateElement
  <2>2. Matched
    BY <1>5 DEF UpdateElement
  <2>3. ASSUME i # at
        PROVE  Addresses(elements[i]) \cap Addresses(El) \cap OfDocument # {}
    <3>1. elements'[i] = elements[i] /\ objects' = MergeObjects(objects, El, Action.update)
      BY <1>5, <2>1, <2>2, <2>3 DEF UpdateElement
    <3>2. PICK a \in Addresses(elements[i]) : objects'[a] # objects[a]
      BY <3>1, DeepKept
    <3>3. a \in DOMAIN objects
      <4>1. DOMAIN objects = 1 .. Len(objects)
        BY <1>1, SequenceFacts
      <4> QED BY <1>1, <4>1 DEF ListsInv, AreObjects, IsObject
    <3>4. a \in Addresses(El)
      <4>1. \E k \in Merged(El, Action.update) : El[k].obj = a
        BY <3>1, <3>2, <3>3 DEF MergeObjects
      <4> QED BY <4>1 DEF Merged, Addresses
    <3>5. Within(elements[i], El, OfDocument)
      <4>1. i \in Nat /\ at \in Nat
        BY <1>1, <2>1, SequenceFacts DEF ListsInv, AreObjects
      <4>2. i < at \/ at < i
        BY <2>3, <4>1
      <4> QED BY <1>1, <2>1, <4>2, WithinSymmetric DEF ListsInv, Separate, El
    <3> QED BY <3>2, <3>4, <3>5 DEF Within
  <2> QED BY <2>1, <2>2, <2>3
<1> QED BY <1>2, <1>3, <1>4, <1>5

THEOREM UpdatesStay == Spec => UpdatesStayWithin
<1>1. Spec => [][Stays]_vars
  BY ShareAlways, StaysStep, PTL DEF Spec
<1>2. UpdatesStayWithin <=> [][Stays]_vars
  BY DEF UpdatesStayWithin, Stays
<1> QED BY <1>1, <1>2
-----------------------------------------------------------------------------
(***************************************************************************)
(* Loading is whole.  While a server is asked, the pages visited are the   *)
(* first of a commit and those that each links to, up to the page that is  *)
(* asked for next, and what they hold is what has come; before, no commit  *)
(* has been chosen and nothing has come.                                   *)
(***************************************************************************)
Way(urls, n) ==
  /\ urls \in [1 .. n -> DOMAIN source.pages] /\ visited = {urls[i] : i \in 1 .. n}
  /\ \A i, j \in 1 .. n : urls[i] = urls[j] => i = j
  /\ \A i \in 1 .. n : NextLink(source.pages[urls[i]].links) = IF i < n THEN urls[i + 1] ELSE next
  /\ (IF n = 0 THEN next ELSE urls[1]) = FirstURL(Newest)
  /\ elements = OnPages(source.pages, urls)

WayInv ==
  status = "load" =>
    /\ \E input \in Inputs : source = input.source
    /\ source.kind = "api" =>
         \/ next = NoURL /\ source.commit = "" /\ visited = {} /\ elements = <<>>
         \/ next # NoURL /\ \E n \in Nat : \E urls : Way(urls, n)

\* Pages are lists.
LEMMA PageFacts ==
  ASSUME WayInv, status = "load", source.kind = "api", NEW url \in DOMAIN source.pages
  PROVE  url # NoURL /\ IsSequence(source.pages[url].elements)
<1>1. PICK input \in Inputs : source = input.source
  BY DEF WayInv
<1>2. \A u \in DOMAIN input.source.pages : AreObjects(input.source.pages[u].elements, Len(input.objects))
  BY <1>1, InputsAssumption
<1>3. NoURL \notin DOMAIN input.source.pages
  BY <1>1, ContentAssumption
<1> QED BY <1>1, <1>2, <1>3 DEF AreObjects

\* No pages hold nothing.
LEMMA OnNoPages ==
  ASSUME NEW pages, NEW urls \in [1 .. 0 -> DOMAIN pages]
  PROVE  OnPages(pages, urls) = <<>>
<1>1. PICK ss : ss = [i \in DOMAIN urls |-> pages[urls[i]].elements]
  OBVIOUS
<1>2. ss = [i \in 1 .. 0 |-> ss[i]]
  BY <1>1
<1>3. ss = <<>>
  BY <1>2, SequenceOf, OnlyEmpty
<1> QED BY <1>1, <1>3, FlattenEmpty DEF OnPages

\* One page more.
LEMMA OnMorePages ==
  ASSUME NEW pages, NEW n \in Nat, NEW urls \in [1 .. n -> DOMAIN pages], NEW url,
         IsSequence(pages[url].elements),
         NEW more, more = [i \in 1 .. n + 1 |-> IF i <= n THEN urls[i] ELSE url]
  PROVE  OnPages(pages, more) = OnPages(pages, urls) \o pages[url].elements
<1>1. more = [i \in 1 .. n + 1 |-> IF i <= n THEN urls[i] ELSE url]
  OBVIOUS
<1>2. PICK ss : ss = [i \in 1 .. n |-> pages[urls[i]].elements]
  OBVIOUS
<1>3. PICK e : e = pages[url].elements
  OBVIOUS
<1>4. ss = [i \in 1 .. n |-> ss[i]]
  BY <1>2
<1>5. IsSequence(ss) /\ Len(ss) = n
  BY <1>4, SequenceOf
<1>6. PICK tt : tt = [i \in 1 .. n + 1 |-> pages[more[i]].elements]
  OBVIOUS
<1>7. tt = [i \in 1 .. n + 1 |-> tt[i]] /\ n + 1 \in Nat
  BY <1>6
<1>8. IsSequence(tt) /\ Len(tt) = n + 1
  BY <1>7, SequenceOf
<1>9. PICK r : r = Append(ss, e)
  OBVIOUS
<1>10. IsSequence(r) /\ Len(r) = n + 1 /\ r[n + 1] = e /\ \A i \in 1 .. n : r[i] = ss[i]
  BY <1>5, <1>9, AppendFacts
<1>11. \A i \in 1 .. n + 1 : tt[i] = r[i]
  <2> TAKE i \in 1 .. n + 1
  <2>1. CASE i <= n
    BY <1>1, <1>2, <1>6, <1>10, <2>1
  <2>2. CASE ~(i <= n)
    <3>1. i = n + 1
      BY <2>2
    <3> QED BY <1>1, <1>3, <1>6, <1>10, <2>2, <3>1
  <2> QED BY <2>1, <2>2
<1>12. tt = r
  BY <1>8, <1>10, <1>11, SameSequence
<1>13. r = ss \o <<e>>
  BY <1>5, <1>9, AppendConcat
<1>14. FlattenSeq(ss \o <<e>>) = FlattenSeq(ss) \o e
  BY <1>3, <1>5, FlattenAppend
<1>15. OnPages(pages, more) = FlattenSeq(tt)
  BY <1>1, <1>6 DEF OnPages
<1>16. OnPages(pages, urls) = FlattenSeq(ss)
  BY <1>2 DEF OnPages
<1> QED BY <1>1, <1>3, <1>12, <1>13, <1>14, <1>15, <1>16

\* The page that is asked for is the next of the way.
Longer(urls, n) == [i \in 1 .. n + 1 |-> IF i <= n THEN urls[i] ELSE next]

\* So far the way is one to that page.
Leads(urls, m) ==
  /\ urls \in [1 .. m -> DOMAIN source.pages]
  /\ visited \cup {next} = {urls[i] : i \in 1 .. m}
  /\ \A i, j \in 1 .. m : urls[i] = urls[j] => i = j
  /\ \A i \in 1 .. m - 1 : NextLink(source.pages[urls[i]].links) = urls[i + 1]
  /\ urls[1] = FirstURL(Newest) /\ urls[m] = next
  /\ elements \o source.pages[next].elements = OnPages(source.pages, urls)

LEMMA WayOn ==
  ASSUME WayInv, status = "load", source.kind = "api", next \in DOMAIN source.pages \ visited,
         NEW n \in Nat, NEW urls, Way(urls, n)
  PROVE  Leads(Longer(urls, n), n + 1)
<1> DEFINE more == Longer(urls, n)
<1>1. /\ \A i \in 1 .. n : more[i] = urls[i] /\ urls[i] \in DOMAIN source.pages /\ urls[i] # next
      /\ more[n + 1] = next
  <2>1. urls \in [1 .. n -> DOMAIN source.pages] /\ visited = {urls[i] : i \in 1 .. n}
    BY DEF Way
  <2>2. n + 1 \in 1 .. n + 1 /\ ~(n + 1 <= n) /\ \A i \in 1 .. n : i \in 1 .. n + 1 /\ i <= n
    OBVIOUS
  <2>3. more[n + 1] = next /\ \A i \in 1 .. n : more[i] = urls[i]
    BY <2>2 DEF Longer
  <2>4. \A i \in 1 .. n : urls[i] \in DOMAIN source.pages /\ urls[i] # next
    BY <2>1
  <2> QED BY <2>3, <2>4
<1>2. \A i \in 1 .. n + 1 : i \in 1 .. n \/ i = n + 1
  OBVIOUS
<1>3. more \in [1 .. n + 1 -> DOMAIN source.pages]
  BY <1>1, <1>2 DEF Longer
<1>4. elements \o source.pages[next].elements = OnPages(source.pages, more)
  <2>1. urls \in [1 .. n -> DOMAIN source.pages] /\ elements = OnPages(source.pages, urls)
    BY DEF Way
  <2>2. IsSequence(source.pages[next].elements)
    BY PageFacts
  <2>3. PICK url : url = next /\ IsSequence(source.pages[url].elements)
    BY <2>2
  <2>4. more = [i \in 1 .. n + 1 |-> IF i <= n THEN urls[i] ELSE url]
    BY <2>3 DEF Longer
  <2> HIDE DEF more
  <2>5. urls \in [1 .. n -> DOMAIN source.pages]
    BY <2>1
  <2>6. OnPages(source.pages, more) = OnPages(source.pages, urls) \o source.pages[url].elements
    <3>1. ASSUME NEW p, p = source.pages
          PROVE  OnPages(p, more) = OnPages(p, urls) \o p[url].elements
      <4>1. n \in Nat /\ urls \in [1 .. n -> DOMAIN p] /\ IsSequence(p[url].elements)
        BY <2>3, <2>5, <3>1
      <4> QED BY ZenonT(40), <2>4, <4>1, OnMorePages
    <3> QED BY <3>1
  <2> QED BY <2>1, <2>3, <2>6
<1> HIDE DEF more
<1>5. visited \cup {next} = {more[i] : i \in 1 .. n + 1}
  <2>1. visited = {urls[i] : i \in 1 .. n}
    BY DEF Way
  <2>2. 1 .. n \subseteq 1 .. n + 1 /\ n + 1 \in 1 .. n + 1
    OBVIOUS
  <2> QED BY <1>1, <1>2, <2>1, <2>2
<1>6. \A i, j \in 1 .. n + 1 : more[i] = more[j] => i = j
  BY <1>1, <1>2 DEF Way
<1>7. \A i \in 1 .. n + 1 - 1 : NextLink(source.pages[more[i]].links) = more[i + 1]
  <2> TAKE i \in 1 .. n + 1 - 1
  <2>1. i \in 1 .. n
    OBVIOUS
  <2>2. NextLink(source.pages[urls[i]].links) = IF i < n THEN urls[i + 1] ELSE next
    BY <2>1 DEF Way
  <2>3. more[i] = urls[i] /\ more[i + 1] = IF i < n THEN urls[i + 1] ELSE next
    BY <1>1, <2>1
  <2> QED BY <2>2, <2>3
<1>8. more[1] = FirstURL(Newest)
  <2>1. (IF n = 0 THEN next ELSE urls[1]) = FirstURL(Newest)
    BY DEF Way
  <2>2. CASE n = 0
    BY <1>1, <2>1, <2>2
  <2>3. CASE n # 0
    BY <1>1, <2>1, <2>3
  <2> QED BY <2>2, <2>3
<1>9. Leads(more, n + 1)
  BY <1>1, <1>3, <1>4, <1>5, <1>6, <1>7, <1>8 DEF Leads
<1> QED BY <1>9 DEF more

\* Where there is a way, it can be followed on.
LEMMA WayLeadsOn ==
  ASSUME WayInv, status = "load", source.kind = "api", next \in DOMAIN source.pages \ visited
  PROVE  \E m \in Nat : m >= 1 /\ \E urls : Leads(urls, m)
<1>1. next # NoURL
  BY PageFacts
<1>2. PICK n \in Nat : \E urls : Way(urls, n)
  BY <1>1 DEF WayInv
<1>3. PICK urls : Way(urls, n)
  BY <1>2
<1>4. Leads(Longer(urls, n), n + 1)
  BY <1>3, WayOn
<1>5. n + 1 \in Nat /\ n + 1 >= 1
  OBVIOUS
<1> QED BY <1>4, <1>5

\* Where the way begins.
LEMMA WayFromNothing ==
  (next = FirstURL(Newest) /\ visited = {} /\ elements = <<>>) => \E urls : Way(urls, 0)
<1> SUFFICES ASSUME next = FirstURL(Newest), visited = {}, elements = <<>>
             PROVE  \E urls : Way(urls, 0)
  OBVIOUS
<1>1. PICK urls : urls = [i \in 1 .. 0 |-> CHOOSE u \in DOMAIN source.pages : TRUE]
  OBVIOUS
<1>2. urls \in [1 .. 0 -> DOMAIN source.pages] /\ visited = {urls[i] : i \in 1 .. 0}
  BY <1>1
<1>3. OnPages(source.pages, urls) = <<>>
  BY <1>2, OnNoPages
<1>4. \A i \in 1 .. 0 : FALSE
  OBVIOUS
<1>5. Way(urls, 0)
  BY <1>2, <1>3, <1>4 DEF Way
<1> QED BY <1>5

LEMMA WayInit == Init => WayInv
<1> SUFFICES ASSUME Init
             PROVE  WayInv
  OBVIOUS
<1>1. PICK input \in Inputs : source = input.source
  BY DEF Init, LoaderInit
<1>2. visited = {} /\ elements = <<>> /\ next = FirstURL(source.commit)
  BY DEF Init, LoaderInit
<1>3. CASE source.commit = ""
  <2>1. next = NoURL
    BY <1>2, <1>3 DEF FirstURL
  <2> QED BY <1>1, <1>2, <1>3, <2>1 DEF WayInv
<1>4. CASE source.commit # ""
  <2>1. next = <<source.commit>> /\ next = FirstURL(Newest)
    BY <1>2, <1>4 DEF FirstURL, Newest
  <2>2. next # NoURL
    BY <2>1, SingleFacts, EmptyIsSequence DEF NoURL
  <2>3. \E urls : Way(urls, 0)
    BY <1>2, <2>1, WayFromNothing
  <2>4. 0 \in Nat
    OBVIOUS
  <2> QED BY <1>1, <2>2, <2>3, <2>4 DEF WayInv
<1> QED BY <1>3, <1>4

\* The newest commit is chosen, and its first page is asked for.
LEMMA WayLatestCommit ==
  ASSUME WayInv, LatestCommit, status' = "load"
  PROVE  WayInv'
<1>1. status = "load" /\ source.kind = "api" /\ next = NoURL
  BY DEF LatestCommit, Loading
<1>2. UNCHANGED source /\ UNCHANGED visited /\ UNCHANGED elements
      /\ next' = FirstURL(Head(Named(source.commits)))
  <2>1. ~LoadFails
    BY DEF LoadFails, Returned
  <2> QED BY <2>1 DEF LatestCommit, overlayVars
<1>3. (\E input \in Inputs : source = input.source) /\ source.commit = "" /\ visited = {} /\ elements = <<>>
  BY <1>1 DEF WayInv
<1>4. next' = FirstURL(Newest)
  BY <1>2, <1>3 DEF Newest
<1>5. \E urls : Way(urls, 0)'
  <2>1. Newest' = Newest
    BY <1>2 DEF Newest
  <2>2. (next = FirstURL(Newest) /\ visited = {} /\ elements = <<>>)'
    BY <1>2, <1>3, <1>4, <2>1
  <2>3. ((next = FirstURL(Newest) /\ visited = {} /\ elements = <<>>) => \E urls : Way(urls, 0))'
    BY WayFromNothing, PTL
  <2> QED BY <2>2, <2>3
<1>6. 0 \in Nat
  OBVIOUS
<1> QED BY <1>2, <1>3, <1>5, <1>6 DEF WayInv

\* A page has come that links to another.
LEMMA WayFetchPage ==
  ASSUME WayInv, FetchPage, status' = "load"
  PROVE  WayInv'
<1>1. status = "load" /\ source.kind = "api" /\ next \in DOMAIN source.pages \ visited
  BY DEF FetchPage, Loading
<1>2. PICK page : page = source.pages[next]
  OBVIOUS
<1>3. /\ NextLink(page.links) # NoURL /\ next' = NextLink(page.links) /\ visited' = visited \cup {next}
      /\ elements' = elements \o page.elements /\ UNCHANGED source
  <2>1. ~Loaded(elements \o page.elements)
    BY DEF Loaded, Returned
  <2> QED BY <1>2, <2>1 DEF FetchPage
<1>4. PICK m \in Nat : m >= 1 /\ \E urls : Leads(urls, m)
  BY <1>1, WayLeadsOn
<1>5. PICK more : Leads(more, m)
  BY <1>4
<1>6. m # 0 /\ (\A i \in 1 .. m : i < m <=> i \in 1 .. m - 1)
  BY <1>4
<1>7. /\ more \in [1 .. m -> DOMAIN source.pages] /\ visited' = {more[i] : i \in 1 .. m}
      /\ \A i, j \in 1 .. m : more[i] = more[j] => i = j
      /\ \A i \in 1 .. m - 1 : NextLink(source.pages[more[i]].links) = more[i + 1]
      /\ more[1] = FirstURL(Newest) /\ more[m] = next
      /\ elements' = OnPages(source.pages, more)
  BY <1>2, <1>3, <1>5 DEF Leads
<1>8. \A i \in 1 .. m : NextLink(source.pages[more[i]].links) = IF i < m THEN more[i + 1] ELSE next'
  <2> TAKE i \in 1 .. m
  <2>1. CASE i < m
    BY <1>6, <1>7, <2>1
  <2>2. CASE ~(i < m)
    <3>1. i = m
      BY <1>6, <2>2
    <3> QED BY <1>2, <1>3, <1>7, <2>2, <3>1
  <2> QED BY <2>1, <2>2
<1>9. Newest' = Newest
  BY <1>3 DEF Newest
<1>10. Way(more, m)'
  BY <1>3, <1>6, <1>7, <1>8, <1>9 DEF Way
<1>11. (\E input \in Inputs : source = input.source)'
  BY <1>1, <1>3 DEF WayInv
<1> QED BY <1>3, <1>10, <1>11 DEF WayInv

LEMMA WayStep == WayInv /\ [Next]_vars => WayInv'
<1> SUFFICES ASSUME WayInv, [Next]_vars, status' = "load"
             PROVE  WayInv'
  BY DEF WayInv
<1>1. CASE Load /\ UNCHANGED buildVars
  <2>1. ~LoadFails /\ \A els : ~Loaded(els)
    BY DEF LoadFails, Loaded, Returned
  <2>2. ~ReadFile
    <3>1. \A doc : ~Decode(doc)
      BY <2>1 DEF Decode
    <3> QED BY <3>1 DEF ReadFile
  <2>3. ~PageRepeats /\ ~RequestFails
    BY <2>1 DEF PageRepeats, RequestFails
  <2> QED BY <1>1, <2>2, <2>3, WayLatestCommit, WayFetchPage DEF Load
<1>2. ~Apply
  <2>1. CASE UpdateElement \/ RemoveElement \/ CopyElement \/ NextAction
    BY <2>1 DEF UpdateElement, RemoveElement, CopyElement, NextAction, Doing
  <2>2. CASE ActionFails \/ ApplyDone
    BY <2>2 DEF ActionFails, ApplyDone
  <2> QED BY <2>1, <2>2 DEF Apply
<1>3. CASE UNCHANGED inputVars /\ status = "load"
  BY <1>3 DEF inputVars, loaderVars, overlayVars, WayInv, Way, Newest
<1> QED BY <1>1, <1>2, <1>3, NextCases

LEMMA WayAlways == Spec => []WayInv
BY WayInit, WayStep, PTL DEF Spec

(***************************************************************************)
(* The last page has come: it is the end of a way that holds the commit,   *)
(* unless the page is full.                                                *)
(***************************************************************************)
LEMMA LastPageIsWhole ==
  ASSUME WayInv, FetchPage, status' = "overlay"
  PROVE  elements' = source.content[Newest] \/ CutShort
<1>1. status = "load" /\ source.kind = "api" /\ next \in DOMAIN source.pages \ visited
  BY DEF FetchPage, Loading
<1>2. PICK page : page = source.pages[next]
  OBVIOUS
<1>3. NextLink(page.links) = NoURL /\ elements' = elements \o page.elements
  <2>1. status' = "load" => FALSE
    OBVIOUS
  <2> QED BY <1>1, <1>2, <2>1 DEF FetchPage, Loaded, Returned
<1>4. CASE Len(page.elements) = PageSize
  BY <1>1, <1>2, <1>3, <1>4 DEF CutShort
<1>5. CASE Len(page.elements) # PageSize
  <2>1. PICK m \in Nat : m >= 1 /\ \E urls : Leads(urls, m)
    BY <1>1, WayLeadsOn
  <2>2. PICK more : Leads(more, m)
    BY <2>1
  <2>3. /\ more \in [1 .. m -> DOMAIN source.pages] /\ 1 \in 1 .. m
        /\ \A i, j \in 1 .. m : more[i] = more[j] => i = j
        /\ \A i \in 1 .. m - 1 : NextLink(source.pages[more[i]].links) = more[i + 1]
        /\ more[1] = FirstURL(Newest) /\ more[m] = next
        /\ elements' = OnPages(source.pages, more)
    BY <1>2, <1>3, <2>1, <2>2 DEF Leads
  <2>4. PICK input \in Inputs : source = input.source
    BY <1>1 DEF WayInv
  <2>5. /\ IsFiniteSet(DOMAIN source.pages) /\ NoURL \notin DOMAIN source.pages
        /\ \A k \in 1 .. Cardinality(DOMAIN source.pages) : \A us \in [1 .. k -> DOMAIN source.pages] :
             LET commit == Head(us[1])
             IN  us[1] = FirstURL(commit) /\ Linked(source.pages, us) /\ Complete(source.pages[us[k]]) =>
                   source.content[commit] = OnPages(source.pages, us)
    BY <1>1, <2>4, ContentAssumption
  <2>6. m \in 1 .. Cardinality(DOMAIN source.pages)
    <3>1. more \in Injection(1 .. m, DOMAIN source.pages)
      BY <2>3 DEF Injection, IsInjective
    <3>2. Cardinality(1 .. m) <= Cardinality(DOMAIN source.pages)
      BY <2>5, <3>1, FS_Injection
    <3>3. Cardinality(1 .. m) = m
      BY <2>1, FS_Interval
    <3>4. Cardinality(DOMAIN source.pages) \in Nat
      BY <2>5, FS_CardinalityType
    <3> QED BY <2>1, <3>2, <3>3, <3>4
  <2>7. more[1] = <<Newest>> /\ Head(more[1]) = Newest
    <3>1. more[1] \in DOMAIN source.pages
      BY <2>1, <2>3
    <3>2. FirstURL(Newest) # NoURL
      BY <2>3, <2>5, <3>1
    <3>3. FirstURL(Newest) = <<Newest>>
      BY <3>2 DEF FirstURL
    <3>4. Head(<<Newest>>) = Newest
      OBVIOUS
    <3> QED BY <2>3, <3>3, <3>4
  <2>8. Linked(source.pages, more)
    <3>1. IsSequence(more) /\ Len(more) = m
      <4>1. more = [i \in 1 .. m |-> more[i]]
        BY <2>3
      <4> QED BY <2>1, <4>1, SequenceOf
    <3>2. DOMAIN more = 1 .. m
      BY <2>3
    <3> QED BY <2>1, <2>3, <3>1, <3>2 DEF Linked
  <2>9. Complete(source.pages[more[m]])
    BY <1>2, <1>3, <1>5, <2>3 DEF Complete
  <2>10. source.content[Head(more[1])] = OnPages(source.pages, more)
    BY <2>3, <2>5, <2>6, <2>7, <2>8, <2>9
  <2> QED BY <2>3, <2>7, <2>10
<1> QED BY <1>4, <1>5

Whole ==
  status = "load" /\ status' = "overlay" => elements' = source.content[Newest] \/ CutShort

LEMMA WholeStep == WayInv /\ [Next]_vars => [Whole]_<<overlayVars, loaderVars, status>>
<1> SUFFICES ASSUME WayInv, [Next]_vars, status = "load", status' = "overlay"
             PROVE  elements' = source.content[Newest] \/ CutShort
  BY DEF Whole
<1>1. CASE ReadFile
  <2>1. source.kind = "file" /\ elements' = Held(source.doc)
    <3>1. ~LoadFails
      BY DEF LoadFails, Returned
    <3>2. \A els : Loaded(els) => elements' = els
      BY DEF Loaded, Returned
    <3> QED BY <1>1, <3>1, <3>2 DEF ReadFile, Loading, Decode, Held
  <2>2. PICK input \in Inputs : source = input.source
    BY DEF WayInv
  <2>3. source.commit # "" /\ source.content[source.commit] = Held(source.doc)
    BY <2>1, <2>2, ContentAssumption
  <2> QED BY <2>1, <2>3 DEF Newest
<1>2. CASE FetchPage
  BY <1>2, LastPageIsWhole
<1>3. CASE PageRepeats
  BY <1>3 DEF PageRepeats, CutShort
<1>4. ~LatestCommit /\ ~RequestFails
  BY DEF LatestCommit, RequestFails, LoadFails, Returned
<1>5. Load
  <2>1. ~Apply
    <3>1. CASE UpdateElement \/ RemoveElement \/ CopyElement \/ NextAction
      BY <3>1 DEF UpdateElement, RemoveElement, CopyElement, NextAction, Doing
    <3>2. CASE ActionFails \/ ApplyDone
      BY <3>2 DEF ActionFails, ApplyDone, Doing
    <3> QED BY <3>1, <3>2 DEF Apply
  <2> QED BY <2>1, NextCases
<1> QED BY <1>1, <1>2, <1>3, <1>4, <1>5 DEF Load

(***************************************************************************)
(* Whatever a server answers, and whichever requests fail, what is loaded  *)
(* is the content of the commit, in its order, or the server has cut it    *)
(* short: nothing is left out, repeated or taken from another commit, and  *)
(* a failure is never taken for the end.                                   *)
(***************************************************************************)
THEOREM LoadingIsWhole == Spec => LoadIsWhole
<1>1. Spec => [][Whole]_<<overlayVars, loaderVars, status>>
  BY WayAlways, WholeStep, PTL DEF Spec
<1>2. LoadIsWhole <=> [][Whole]_<<overlayVars, loaderVars, status>>
  BY DEF LoadIsWhole, Whole
<1> QED BY <1>1, <1>2
-----------------------------------------------------------------------------
(***************************************************************************)
(* Which files there are (Renderer). A file of a context is that of an     *)
(* item, or the providers; which items have which files is                 *)
(* renderContext's.                                                        *)
(***************************************************************************)
\* What is in a part that is rendered under a condition.
LEMMA IfFacts ==
  ASSUME NEW condition, NEW s, IsSequence(s)
  PROVE  /\ IsSequence(If(condition, s))
         /\ \A x : x \in ToSet(If(condition, s)) <=> condition /\ x \in ToSet(s)
<1>1. IsSequence(<<>>) /\ \A x : x \notin ToSet(<<>>)
  BY EmptyIsSequence, SmallRanges
<1> QED BY <1>1 DEF If

\* The items of a context that are of some classes.
LEMMA ClassFacts ==
  ASSUME NEW c, NEW S, IsSequence(c.items)
  PROVE  /\ IsSequence(OfClass(c, S))
         /\ \A item : item \in ToSet(OfClass(c, S)) <=> item \in ToSet(c.items) /\ item.class \in S
BY OnlyFacts DEF OfClass

\* The files of aggregates and entities.
LEMMA EntityFilesFacts ==
  ASSUME NEW c, NEW o, IsSequence(c.items), NEW S
  PROVE  /\ IsSequence(FlattenSeq(Mapped(EntityFiles, c, o, S)))
         /\ \A f : f \in ToSet(FlattenSeq(Mapped(EntityFiles, c, o, S))) <=>
              \E item \in ToSet(OfClass(c, S)) :
                 IF item.class = "aggregate"
                   THEN f = Struct(c, o, "aggregate", item) \/ f = Factory(c, o, item)
                   ELSE f = Struct(c, o, "entity", item)
<1>1. PICK those : those = OfClass(c, S)
  OBVIOUS
<1>2. PICK made : made = [i \in DOMAIN those |-> EntityFiles(c, o, those[i])]
  OBVIOUS
<1>3. made = Mapped(EntityFiles, c, o, S)
  BY <1>1, <1>2 DEF Mapped
<1>4. \A item : IsSequence(EntityFiles(c, o, item)) /\ \A f : f \in ToSet(EntityFiles(c, o, item)) <=>
                 IF item.class = "aggregate"
                   THEN f = Struct(c, o, "aggregate", item) \/ f = Factory(c, o, item)
                   ELSE f = Struct(c, o, "entity", item)
  BY PairFacts, SmallRanges, SingleFacts DEF EntityFiles
<1>5. IsSequence(those)
  BY <1>1, ClassFacts
<1>6. /\ made = [i \in DOMAIN those |-> made[i]]
      /\ \A i \in DOMAIN those : made[i] = EntityFiles(c, o, those[i])
  BY <1>2
<1>7. /\ IsSequence(FlattenSeq(made))
      /\ \A f : f \in ToSet(FlattenSeq(made)) <=> \E i \in DOMAIN those : f \in ToSet(EntityFiles(c, o, those[i]))
  BY <1>4, <1>5, <1>6, FlatMadeFacts
<1>8. ToSet(those) = {those[i] : i \in DOMAIN those}
  BY DEF ToSet
<1> QED BY <1>1, <1>2, <1>4, <1>7, <1>8 DEF Mapped

\* The files of services.
LEMMA ServiceFilesFacts ==
  ASSUME NEW c, NEW o, IsSequence(c.items), NEW S
  PROVE  /\ IsSequence(FlattenSeq(Mapped(ServiceFiles, c, o, S)))
         /\ \A f : f \in ToSet(FlattenSeq(Mapped(ServiceFiles, c, o, S))) <=>
              \E item \in ToSet(OfClass(c, S)) : f = ServiceFiles(c, o, item)[1] \/ f = ServiceFiles(c, o, item)[2]
<1>1. PICK those : those = OfClass(c, S)
  OBVIOUS
<1>2. PICK made : made = [i \in DOMAIN those |-> ServiceFiles(c, o, those[i])]
  OBVIOUS
<1>3. made = Mapped(ServiceFiles, c, o, S)
  BY <1>1, <1>2 DEF Mapped
<1>4. ASSUME NEW item
      PROVE  /\ IsSequence(ServiceFiles(c, o, item))
             /\ ToSet(ServiceFiles(c, o, item)) = {ServiceFiles(c, o, item)[1], ServiceFiles(c, o, item)[2]}
  <2>1. PICK a, b : ServiceFiles(c, o, item) = <<a, b>>
    BY DEF ServiceFiles
  <2>2. <<a, b>>[1] = a /\ <<a, b>>[2] = b
    OBVIOUS
  <2> QED BY <2>1, <2>2, PairFacts
<1>5. IsSequence(those)
  BY <1>1, ClassFacts
<1>6. /\ made = [i \in DOMAIN those |-> made[i]]
      /\ \A i \in DOMAIN those : made[i] = ServiceFiles(c, o, those[i])
  BY <1>2
<1>7. /\ IsSequence(FlattenSeq(made))
      /\ \A f : f \in ToSet(FlattenSeq(made)) <=> \E i \in DOMAIN those : f \in ToSet(ServiceFiles(c, o, those[i]))
  BY <1>4, <1>5, <1>6, FlatMadeFacts
<1>8. ToSet(those) = {those[i] : i \in DOMAIN those}
  BY DEF ToSet
<1> QED BY <1>1, <1>2, <1>4, <1>7, <1>8 DEF Mapped

\* The items of a class, as a list.
AreOfClass(those, c, class) ==
  /\ those = OfClass(c, {class}) /\ IsSequence(those)
  /\ \A item : (\E i \in DOMAIN those : item = those[i]) <=> item \in ToSet(c.items) /\ item.class = class

\* The items of one class.
LEMMA ItemsOfClass ==
  ASSUME NEW c, NEW class, IsSequence(c.items)
  PROVE  \E those : AreOfClass(those, c, class)
<1>1. PICK those : those = OfClass(c, {class})
  OBVIOUS
<1>2. IsSequence(those) /\ \A item : item \in ToSet(those) <=> item \in ToSet(c.items) /\ item.class \in {class}
  BY <1>1, ClassFacts
<1>3. ToSet(those) = {those[i] : i \in DOMAIN those}
  BY DEF ToSet
<1>4. AreOfClass(those, c, class)
  BY <1>1, <1>2, <1>3 DEF AreOfClass
<1> QED BY <1>4

\* What f is a file for.
IsEntityFile(c, o, f) ==
  \E item \in ToSet(c.items) :
    \/ item.class = "aggregate" /\ (f = Struct(c, o, "aggregate", item) \/ f = Factory(c, o, item))
    \/ item.class = "entity" /\ f = Struct(c, o, "entity", item)
IsValueFile(c, o, f) ==
  \E item \in ToSet(c.items) : item.class = "value" /\ f = Struct(c, o, "value_object", item)
IsEventFile(c, o, f) ==
  \E item \in ToSet(c.items) : item.class = "event" /\ f = Struct(c, o, "domain_event", item)
IsServiceFile(c, o, f) ==
  \E item \in ToSet(c.items) :
    item.class = "service" /\ (f = ServiceFiles(c, o, item)[1] \/ f = ServiceFiles(c, o, item)[2])
IsPortInFile(c, o, f) == \E item \in ToSet(c.items) : item.class = "in" /\ f = PortInFile(c, o, item)
IsPortOutFile(c, o, f) == \E item \in ToSet(c.items) : item.class = "out" /\ f = PortOutFile(c, o, item)
IsUseCaseFile(c, o, f) == \E item \in ToSet(c.items) : item.class = "usecase" /\ f = UseCaseFile(c, o, item)
IsAdapterFile(c, o, f) == \E item \in ToSet(c.items) : item.class = "out" /\ f = AdapterFile(c, o, item)
IsHandlerFile(c, o, f) == \E item \in ToSet(c.items) : item.class = "in" /\ f = HandlerFile(c, o, item)

IsContextFile(c, o, f) ==
  \/ o.domain /\ (IsEntityFile(c, o, f) \/ IsValueFile(c, o, f) \/ IsServiceFile(c, o, f))
  \/ o.domain /\ o.events /\ IsEventFile(c, o, f)
  \/ o.ports /\ (IsPortInFile(c, o, f) \/ IsPortOutFile(c, o, f))
  \/ o.usecases /\ IsUseCaseFile(c, o, f)
  \/ o.adapters # "off" /\ (IsAdapterFile(c, o, f) \/ IsHandlerFile(c, o, f))
  \/ o.di /\ f = ProvidersFile(c, o)

\* What renderContext renders is what each item stands for, and no more.
LEMMA ContextFiles ==
  ASSUME NEW c, NEW o, IsSequence(c.items)
  PROVE  /\ IsSequence(RenderContext(c, o))
         /\ \A f : f \in ToSet(RenderContext(c, o)) <=> IsContextFile(c, o, f)
<1>1. PICK entities : entities = FlattenSeq([i \in DOMAIN OfClass(c, {"aggregate", "entity"}) |->
                                               EntityFiles(c, o, OfClass(c, {"aggregate", "entity"})[i])])
  OBVIOUS
<1>2. IsSequence(entities) /\ \A f : f \in ToSet(entities) <=> IsEntityFile(c, o, f)
  <2>1. PICK S : S = {"aggregate", "entity"}
    OBVIOUS
  <2>2. /\ IsSequence(entities)
        /\ \A f : f \in ToSet(entities) <=>
              \E item \in ToSet(OfClass(c, S)) :
                 IF item.class = "aggregate"
                   THEN f = Struct(c, o, "aggregate", item) \/ f = Factory(c, o, item)
                   ELSE f = Struct(c, o, "entity", item)
    BY <1>1, <2>1, EntityFilesFacts DEF Mapped
  <2>3. \A item : item \in ToSet(OfClass(c, S)) <=>
                   item \in ToSet(c.items) /\ (item.class = "aggregate" \/ item.class = "entity")
    BY <2>1, ClassFacts
  <2> QED BY <2>2, <2>3 DEF IsEntityFile
<1>3. PICK services : services = FlattenSeq([i \in DOMAIN OfClass(c, {"service"}) |->
                                               ServiceFiles(c, o, OfClass(c, {"service"})[i])])
  OBVIOUS
<1>4. IsSequence(services) /\ \A f : f \in ToSet(services) <=> IsServiceFile(c, o, f)
  BY <1>3, ServiceFilesFacts, ClassFacts DEF IsServiceFile, Mapped
<1>5. PICK values : values = [i \in DOMAIN OfClass(c, {"value"}) |->
                                Struct(c, o, "value_object", OfClass(c, {"value"})[i])]
  OBVIOUS
<1>6. IsSequence(values) /\ \A f : f \in ToSet(values) <=> IsValueFile(c, o, f)
  <2>1. PICK those : AreOfClass(those, c, "value")
    BY ItemsOfClass
  <2>2. values = [i \in DOMAIN those |-> Struct(c, o, "value_object", those[i])]
    BY <1>5, <2>1 DEF AreOfClass
  <2>3. IsSequence(values) /\ ToSet(values) = {Struct(c, o, "value_object", those[i]) : i \in DOMAIN those}
    BY <2>1, <2>2, MadeFacts DEF AreOfClass
  <2> QED BY <2>1, <2>3 DEF AreOfClass, IsValueFile
<1>7. PICK events : events = [i \in DOMAIN OfClass(c, {"event"}) |->
                                Struct(c, o, "domain_event", OfClass(c, {"event"})[i])]
  OBVIOUS
<1>8. IsSequence(events) /\ \A f : f \in ToSet(events) <=> IsEventFile(c, o, f)
  <2>1. PICK those : AreOfClass(those, c, "event")
    BY ItemsOfClass
  <2>2. events = [i \in DOMAIN those |-> Struct(c, o, "domain_event", those[i])]
    BY <1>7, <2>1 DEF AreOfClass
  <2>3. IsSequence(events) /\ ToSet(events) = {Struct(c, o, "domain_event", those[i]) : i \in DOMAIN those}
    BY <2>1, <2>2, MadeFacts DEF AreOfClass
  <2> QED BY <2>1, <2>3 DEF AreOfClass, IsEventFile
<1>9. PICK ins, outs, usecases, adapters, handlers :
        /\ ins = [i \in DOMAIN OfClass(c, {"in"}) |-> PortInFile(c, o, OfClass(c, {"in"})[i])]
        /\ outs = [i \in DOMAIN OfClass(c, {"out"}) |-> PortOutFile(c, o, OfClass(c, {"out"})[i])]
        /\ usecases = [i \in DOMAIN OfClass(c, {"usecase"}) |-> UseCaseFile(c, o, OfClass(c, {"usecase"})[i])]
        /\ adapters = [i \in DOMAIN OfClass(c, {"out"}) |-> AdapterFile(c, o, OfClass(c, {"out"})[i])]
        /\ handlers = [i \in DOMAIN OfClass(c, {"in"}) |-> HandlerFile(c, o, OfClass(c, {"in"})[i])]
  OBVIOUS
<1>10. IsSequence(ins) /\ \A f : f \in ToSet(ins) <=> IsPortInFile(c, o, f)
  <2>1. PICK those : AreOfClass(those, c, "in")
    BY ItemsOfClass
  <2>2. ins = [i \in DOMAIN those |-> PortInFile(c, o, those[i])]
    BY <1>9, <2>1 DEF AreOfClass
  <2>3. IsSequence(ins) /\ ToSet(ins) = {PortInFile(c, o, those[i]) : i \in DOMAIN those}
    BY <2>1, <2>2, MadeFacts DEF AreOfClass
  <2> QED BY <2>1, <2>3 DEF AreOfClass, IsPortInFile
<1>11. IsSequence(outs) /\ \A f : f \in ToSet(outs) <=> IsPortOutFile(c, o, f)
  <2>1. PICK those : AreOfClass(those, c, "out")
    BY ItemsOfClass
  <2>2. outs = [i \in DOMAIN those |-> PortOutFile(c, o, those[i])]
    BY <1>9, <2>1 DEF AreOfClass
  <2>3. IsSequence(outs) /\ ToSet(outs) = {PortOutFile(c, o, those[i]) : i \in DOMAIN those}
    BY <2>1, <2>2, MadeFacts DEF AreOfClass
  <2> QED BY <2>1, <2>3 DEF AreOfClass, IsPortOutFile
<1>12. IsSequence(usecases) /\ \A f : f \in ToSet(usecases) <=> IsUseCaseFile(c, o, f)
  <2>1. PICK those : AreOfClass(those, c, "usecase")
    BY ItemsOfClass
  <2>2. usecases = [i \in DOMAIN those |-> UseCaseFile(c, o, those[i])]
    BY <1>9, <2>1 DEF AreOfClass
  <2>3. IsSequence(usecases) /\ ToSet(usecases) = {UseCaseFile(c, o, those[i]) : i \in DOMAIN those}
    BY <2>1, <2>2, MadeFacts DEF AreOfClass
  <2> QED BY <2>1, <2>3 DEF AreOfClass, IsUseCaseFile
<1>13. IsSequence(adapters) /\ \A f : f \in ToSet(adapters) <=> IsAdapterFile(c, o, f)
  <2>1. PICK those : AreOfClass(those, c, "out")
    BY ItemsOfClass
  <2>2. adapters = [i \in DOMAIN those |-> AdapterFile(c, o, those[i])]
    BY <1>9, <2>1 DEF AreOfClass
  <2>3. IsSequence(adapters) /\ ToSet(adapters) = {AdapterFile(c, o, those[i]) : i \in DOMAIN those}
    BY <2>1, <2>2, MadeFacts DEF AreOfClass
  <2> QED BY <2>1, <2>3 DEF AreOfClass, IsAdapterFile
<1>14. IsSequence(handlers) /\ \A f : f \in ToSet(handlers) <=> IsHandlerFile(c, o, f)
  <2>1. PICK those : AreOfClass(those, c, "in")
    BY ItemsOfClass
  <2>2. handlers = [i \in DOMAIN those |-> HandlerFile(c, o, those[i])]
    BY <1>9, <2>1 DEF AreOfClass
  <2>3. IsSequence(handlers) /\ ToSet(handlers) = {HandlerFile(c, o, those[i]) : i \in DOMAIN those}
    BY <2>1, <2>2, MadeFacts DEF AreOfClass
  <2> QED BY <2>1, <2>3 DEF AreOfClass, IsHandlerFile
<1>15. PICK domain : domain = entities \o values \o If(o.events, events) \o services
  OBVIOUS
<1>16. /\ IsSequence(domain)
       /\ \A f : f \in ToSet(domain) <=>
            \/ IsEntityFile(c, o, f) \/ IsValueFile(c, o, f) \/ IsServiceFile(c, o, f)
            \/ o.events /\ IsEventFile(c, o, f)
  <2>1. /\ IsSequence(If(o.events, events))
        /\ \A f : f \in ToSet(If(o.events, events)) <=> o.events /\ IsEventFile(c, o, f)
    BY <1>8, IfFacts
  <2>2. IsSequence(entities \o values) /\ ToSet(entities \o values) = ToSet(entities) \cup ToSet(values)
    BY <1>2, <1>6, ConcatRange
  <2>3. PICK a, b : a = entities \o values /\ b = If(o.events, events)
    OBVIOUS
  <2>4. IsSequence(a \o b) /\ ToSet(a \o b) = ToSet(a) \cup ToSet(b)
    BY <2>1, <2>2, <2>3, ConcatRange
  <2>5. PICK d : d = a \o b
    OBVIOUS
  <2>6. IsSequence(d \o services) /\ ToSet(d \o services) = ToSet(d) \cup ToSet(services)
    BY <1>4, <2>4, <2>5, ConcatRange
  <2>7. domain = d \o services
    BY <1>15, <2>3, <2>5
  <2>8. ToSet(domain) = ((ToSet(entities) \cup ToSet(values)) \cup ToSet(b)) \cup ToSet(services)
    BY <2>2, <2>3, <2>4, <2>5, <2>6, <2>7
  <2> QED BY <1>2, <1>4, <1>6, <2>1, <2>3, <2>6, <2>7, <2>8
<1>17. PICK p1, p2, p3, p4, p5 :
         /\ p1 = If(o.domain, domain) /\ p2 = If(o.ports, ins \o outs) /\ p3 = If(o.usecases, usecases)
         /\ p4 = If(o.adapters # "off", adapters \o handlers) /\ p5 = If(o.di, <<ProvidersFile(c, o)>>)
  OBVIOUS
<1>18. IsSequence(p1) /\ \A f : f \in ToSet(p1) <=> o.domain /\ f \in ToSet(domain)
  BY <1>16, <1>17, IfFacts
<1>19. /\ IsSequence(p2)
       /\ \A f : f \in ToSet(p2) <=> o.ports /\ (IsPortInFile(c, o, f) \/ IsPortOutFile(c, o, f))
  <2>1. PICK both : both = ins \o outs
    OBVIOUS
  <2>2. IsSequence(both) /\ ToSet(both) = ToSet(ins) \cup ToSet(outs)
    BY <1>10, <1>11, <2>1, ConcatRange
  <2>3. IsSequence(p2) /\ \A f : f \in ToSet(p2) <=> o.ports /\ f \in ToSet(both)
    BY <1>17, <2>1, <2>2, IfFacts
  <2> QED BY <1>10, <1>11, <2>2, <2>3
<1>20. IsSequence(p3) /\ \A f : f \in ToSet(p3) <=> o.usecases /\ IsUseCaseFile(c, o, f)
  BY <1>12, <1>17, IfFacts
<1>21. /\ IsSequence(p4)
       /\ \A f : f \in ToSet(p4) <=> o.adapters # "off" /\ (IsAdapterFile(c, o, f) \/ IsHandlerFile(c, o, f))
  <2>1. PICK both, on : both = adapters \o handlers /\ on = (o.adapters # "off")
    OBVIOUS
  <2>2. IsSequence(both) /\ ToSet(both) = ToSet(adapters) \cup ToSet(handlers)
    BY <1>13, <1>14, <2>1, ConcatRange
  <2>3. IsSequence(p4) /\ \A f : f \in ToSet(p4) <=> on /\ f \in ToSet(both)
    BY <1>17, <2>1, <2>2, IfFacts
  <2> QED BY <1>13, <1>14, <2>1, <2>2, <2>3
<1>22. IsSequence(p5) /\ \A f : f \in ToSet(p5) <=> o.di /\ f = ProvidersFile(c, o)
  <2>1. PICK s : s = <<ProvidersFile(c, o)>>
    OBVIOUS
  <2>2. IsSequence(s) /\ ToSet(s) = {ProvidersFile(c, o)}
    BY <2>1, SingleFacts, SmallRanges
  <2>3. IsSequence(p5) /\ \A f : f \in ToSet(p5) <=> o.di /\ f \in ToSet(s)
    BY <1>17, <2>1, <2>2, IfFacts
  <2> QED BY <2>2, <2>3
<1>23. PICK all : all = p1 \o p2 \o p3 \o p4 \o p5
  OBVIOUS
<1>24. /\ IsSequence(all)
       /\ ToSet(all) = (((ToSet(p1) \cup ToSet(p2)) \cup ToSet(p3)) \cup ToSet(p4)) \cup ToSet(p5)
  BY <1>18, <1>19, <1>20, <1>21, <1>22, <1>23, FiveConcatenated
<1>25. RenderContext(c, o) = all
  BY <1>1, <1>3, <1>5, <1>7, <1>9, <1>15, <1>17, <1>23 DEF RenderContext, Mapped
<1> QED BY <1>16, <1>18, <1>19, <1>20, <1>21, <1>22, <1>24, <1>25 DEF IsContextFile

-----------------------------------------------------------------------------
(***************************************************************************)
(* What a file imports and what it uses. The types of a file are qualified *)
(* and printed alike, so that they differ only in packages that are named  *)
(* as the file's own.                                                      *)
(***************************************************************************)
\* The directories of the ports, as a configuration gives them.
DirsOf(o) == /\ IsSequence(o.drivingDir) /\ o.drivingDir # <<>>
             /\ IsSequence(o.drivenDir) /\ o.drivenDir # <<>>

\* A path through a directory of a context.
LEMMA LongerPath ==
  ASSUME NEW s, NEW t, IsSequence(s), IsSequence(t), Len(s) >= 2, Head(s) = "internal", t # <<>>
  PROVE  IsSequence(s \o t) /\ Len(s \o t) \in Nat /\ Len(s \o t) >= 3 /\ Head(s \o t) = "internal"
<1>1. Len(s) \in Nat /\ Len(t) \in Nat /\ Len(t) # 0
  BY SequenceFacts, EmptyIsSequence
<1>2. PICK u : u = s \o t
  OBVIOUS
<1>3. IsSequence(u) /\ Len(u) = Len(s) + Len(t) /\ u[1] = s[1]
  <2>1. 1 \in 1 .. Len(s) + Len(t) /\ 1 <= Len(s)
    BY <1>1
  <2> QED BY <1>2, <2>1, ConcatFacts
<1>4. Head(u) = u[1] /\ Head(s) = s[1]
  OBVIOUS
<1> QED BY <1>1, <1>2, <1>3, <1>4

\* The packages of a context stand deeper than its root.
IsInternal(dir) == Len(dir) \in Nat /\ Len(dir) >= 3 /\ Head(dir) = "internal"

LEMMA DirFacts ==
  ASSUME NEW c, NEW o, DirsOf(o)
  PROVE  /\ Len(Root(c)) = 2
         /\ \A dir \in PortDirs(c, o) \cup AppDirs(c) : IsInternal(dir)
<1>1. PICK root : root = Root(c)
  OBVIOUS
<1>2. IsSequence(root) /\ Len(root) = 2 /\ Head(root) = "internal"
  <2>1. root \in Seq({"internal", Slug(c.name)}) /\ Len(root) = 2 /\ Head(root) = "internal"
    BY <1>1 DEF Root
  <2> QED BY <2>1, SeqIsSequence
<1>3. \A w : IsSequence(<<w>>) /\ <<w>> # <<>>
  BY SingleFacts, EmptyIsSequence
<1>4. \A v, w : IsSequence(<<v, w>>) /\ <<v, w>> # <<>>
  <2>1. \A v, w : <<v, w>> # <<>>
    OBVIOUS
  <2> QED BY <2>1, PairFacts
<1>5. \A t : IsSequence(t) /\ t # <<>> => IsSequence(root \o t) /\ IsInternal(root \o t)
  BY <1>2, LongerPath DEF IsInternal
<1>6. IsInternal(Domain(c))
  BY <1>1, <1>3, <1>5 DEF Domain
<1>7. IsInternal(PortIn(c, o)) /\ IsInternal(PortOut(c, o))
  <2>1. IsInternal(root \o o.drivingDir) /\ IsInternal(root \o o.drivenDir)
    BY <1>5 DEF DirsOf
  <2>2. PortOut(c, o) = Domain(c) \/ PortOut(c, o) = root \o o.drivenDir
    BY <1>1 DEF PortOut
  <2> QED BY <1>1, <1>6, <2>1, <2>2 DEF PortIn
<1>8. IsInternal(UseCases(c))
  <2>1. PICK t : t = <<"app", "usecase">>
    OBVIOUS
  <2> QED BY <1>1, <1>4, <1>5, <2>1 DEF UseCases
<1>9. \A v, w : IsInternal(Adapters(c, <<v, w>>))
  <2> TAKE v, w
  <2>1. PICK s, t, u : s = <<"adapter">> /\ t = <<v, w>> /\ u = root \o s
    OBVIOUS
  <2>2. IsSequence(u) /\ IsInternal(u)
    BY <1>3, <1>5, <2>1
  <2>3. IsInternal(u \o t)
    <3>1. Len(u) >= 2 /\ Head(u) = "internal"
      BY <2>2 DEF IsInternal
    <3>2. IsSequence(t) /\ t # <<>>
      BY <1>4, <2>1
    <3> QED BY <2>2, <3>1, <3>2, LongerPath DEF IsInternal
  <2> QED BY <1>1, <2>1, <2>3 DEF Adapters
<1> QED BY <1>1, <1>2, <1>6, <1>7, <1>8, <1>9 DEF PortDirs, AppDirs, Handlers

\* A package that is known by a selector is from outside.
LEMMA ExternOutside ==
  ASSUME NEW o, NEW sel, NEW dir \in Extern(o, sel)
  PROVE  \E path : dir = <<"", sel, path>>
BY DEF Extern

\* Where every selector stands for one path, and every path for one selector,
\* a selector is known by its path, whenever that was asked for.
Agreed(o) ==
  /\ IsSequence(o.imports)
  /\ \A i, j \in DOMAIN o.imports : o.imports[i].sel = o.imports[j].sel <=> o.imports[i].path = o.imports[j].path

LEMMA ExternFacts ==
  ASSUME NEW o, Agreed(o), NEW i \in DOMAIN o.imports
  PROVE  Extern(o, o.imports[i].sel) = {<<"", o.imports[i].sel, o.imports[i].path>>}
<1>1. PICK m : m = o.imports
  OBVIOUS
<1>2. PICK sel : sel = m[i].sel
  OBVIOUS
<1>3. DOMAIN m = 1 .. Len(m) /\ Len(m) \in Nat
  BY <1>1, SequenceFacts DEF Agreed
<1>4. PICK D : D = {k \in DOMAIN m : m[k].path = m[i].path}
  OBVIOUS
<1>5. PICK l \in D : \A k \in D : l <= k
  <2>1. D \in SUBSET Nat /\ i \in D
    BY <1>1, <1>3, <1>4
  <2> QED BY <2>1, LeastElement
<1>6. l \in DOMAIN m /\ m[l].path = m[i].path /\ m[l].sel = sel
  BY <1>1, <1>2, <1>4, <1>5 DEF Agreed
<1>7. l \in NewPaths(m)
  <2> SUFFICES ASSUME NEW j \in 1 .. l - 1, m[j].path = m[l].path
               PROVE  FALSE
    BY <1>6 DEF NewPaths
  <2>1. j \in DOMAIN m /\ ~(l <= j)
    BY <1>3, <1>6
  <2> QED BY <1>4, <1>5, <1>6, <2>1
<1>8. ASSUME NEW k \in NewPaths(m), m[k].sel = sel
      PROVE  k = l
  <2>1. k \in DOMAIN m /\ \A j \in 1 .. k - 1 : m[j].path # m[k].path
    BY DEF NewPaths
  <2>2. m[k].path = m[l].path
    BY <1>1, <1>6, <1>8, <2>1 DEF Agreed
  <2>3. k \in D
    BY <1>4, <1>6, <2>1, <2>2
  <2>4. l <= k
    BY <1>5, <2>3
  <2>5. l \notin 1 .. k - 1
    BY <2>1, <2>2
  <2>6. l \in Nat /\ l >= 1 /\ k \in Nat
    BY <1>3, <1>6, <2>1
  <2> QED BY <2>4, <2>5, <2>6
<1>9. PICK known : known = {k \in NewPaths(m) : m[k].sel = sel}
  OBVIOUS
<1>10. known = {l}
  BY <1>6, <1>7, <1>8, <1>9
<1>11. {k \in known : \A j \in known : j <= k} = {l}
  <2>1. l <= l
    BY <1>3, <1>6
  <2> QED BY <1>10, <2>1
<1>12. Extern(o, sel) = {<<"", sel, m[k].path>> : k \in {k \in known : \A j \in known : j <= k}}
  BY <1>1, <1>9 DEF Extern
<1> QED BY <1>1, <1>2, <1>6, <1>11, <1>12

\* A package that a type is in has what it is called, or is from outside.
LEMMA HomeFacts ==
  ASSUME NEW c, NEW o, NEW type, NEW dir \in Home(c, o, type)
  PROVE  \/ type.sel \notin {"", "builtin"} /\ \E path : dir = <<"", type.sel, path>>
         \/ type.sel = "" /\ \E r \in 1 .. 3 : dir = Regions(c, o)[r].dir /\ type.name \in Regions(c, o)[r].names
<1>1. PICK regions : regions = {r \in 1 .. 3 : type.name \in Regions(c, o)[r].names}
  OBVIOUS
<1>2. type.sel = "" => regions # {} /\ dir = Regions(c, o)[Min(regions)].dir
  BY <1>1 DEF Home
<1>3. regions # {} => Min(regions) \in regions
  <2> SUFFICES ASSUME regions # {}
               PROVE  \E n \in regions : \A m \in regions : n <= m
    BY DEF Min
  <2>1. regions \subseteq 1 .. 3
    BY <1>1
  <2>2. \A r \in regions : r = 1 \/ r = 2 \/ r = 3
    BY <2>1
  <2>3. 1 \in regions \/ 2 \in regions \/ 3 \in regions
    BY <2>2
  <2> QED BY <2>2, <2>3
<1>4. type.sel # "builtin"
  BY DEF Home
<1>5. type.sel \notin {"", "builtin"} => dir \in Extern(o, type.sel) \/ dir = <<"", type.sel, type.import>>
  BY DEF Home
<1> QED BY ZenonT(30), <1>1, <1>2, <1>3, <1>4, <1>5, ExternOutside

\* The regions, one by one.
LEMMA RegionDirs ==
  ASSUME NEW c, NEW o
  PROVE  /\ Regions(c, o)[1].dir = Domain(c) /\ Regions(c, o)[2].dir = PortIn(c, o)
         /\ Regions(c, o)[3].dir = PortOut(c, o)
         /\ Regions(c, o)[1].names = NamesOf(c, {"aggregate", "entity", "value", "event", "service"})
         /\ Regions(c, o)[2].names = NamesOf(c, {"in"}) \cup
               UNION {{Append(n, "input"), Append(n, "output")} : n \in NamesOf(c, {"usecase"})}
         /\ Regions(c, o)[3].names = NamesOf(c, {"out"})
BY DEF Regions

\* TypesArePlain of one type, of which the import has been asked for, and
\* PackagesDiffer of one context.
IsKnown(o, type) ==
  type.sel \in {"", "builtin"} \/ type.import # "" \/ \E i \in DOMAIN o.imports : o.imports[i].sel = type.sel
IsAsked(o, type) ==
  type.sel \notin {"", "builtin"} /\ type.import # "" =>
    \E i \in DOMAIN o.imports : o.imports[i].sel = type.sel /\ o.imports[i].path = type.import
IsPlain(o, type) == ~Hidden(type) /\ IsKnown(o, type) /\ IsAsked(o, type)
Differ(c, o) ==
  \A dir \in PortDirs(c, o) :
    /\ dir \notin AppDirs(c)
    /\ \A other \in PortDirs(c, o) \cup AppDirs(c) : Last(dir) = Last(other) => dir = other

\* A file imports the packages of its types, and no package of its own.
LEMMA QualifiedIsHome ==
  ASSUME NEW c, NEW o, DirsOf(o), Agreed(o), Differ(c, o), NEW own \in PortDirs(c, o) \cup AppDirs(c),
         NEW type, IsPlain(o, type)
  PROVE  Qualify(c, o, Last(own), type) = Home(c, o, type) \ {own}
<1>1. CASE type.sel = ""
  <2>1. \A dir \in Home(c, o, type) : dir \in PortDirs(c, o)
    <3> TAKE dir \in Home(c, o, type)
    <3>3. \/ type.sel \notin {"", "builtin"} /\ \E path : dir = <<"", type.sel, path>>
          \/ type.sel = "" /\ \E r \in 1 .. 3 : dir = Regions(c, o)[r].dir /\ type.name \in Regions(c, o)[r].names
      BY HomeFacts
    <3>1. PICK r \in 1 .. 3 : dir = Regions(c, o)[r].dir
      BY <1>1, <3>3
    <3>2. r = 1 \/ r = 2 \/ r = 3
      OBVIOUS
    <3> QED BY <3>1, <3>2, RegionDirs DEF PortDirs
  <2>2. \A dir \in Home(c, o, type) : Last(dir) = Last(own) <=> dir = own
    BY <2>1 DEF Differ
  <2>3. Qualify(c, o, Last(own), type) = {dir \in Home(c, o, type) : Last(dir) # Last(own)}
    BY <1>1 DEF Qualify, IsPlain
  <2> QED BY <2>2, <2>3
<1>2. CASE type.sel = "builtin"
  BY <1>2 DEF Qualify, IsPlain, Home
<1>3. CASE type.sel \notin {"", "builtin"}
  <2>1. PICK i \in DOMAIN o.imports :
          o.imports[i].sel = type.sel /\ (type.import # "" => o.imports[i].path = type.import)
    BY <1>3 DEF IsPlain, IsKnown, IsAsked
  <2>2. PICK extern : extern = Extern(o, type.sel)
    OBVIOUS
  <2>3. extern = {<<"", type.sel, o.imports[i].path>>}
    BY <2>1, <2>2, ExternFacts
  <2>4. Qualify(c, o, Last(own), type) = extern
    BY <1>3, <2>2 DEF Qualify, IsPlain
  <2>5. Home(c, o, type) = IF type.import = "" /\ extern # {} THEN extern ELSE {<<"", type.sel, type.import>>}
    BY <1>3, <2>2 DEF Home
  <2>6. Home(c, o, type) = extern
    BY <2>1, <2>3, <2>5
  <2>7. own \notin extern
    <3>1. Head(own) = "internal"
      BY DirFacts DEF IsInternal
    <3>2. \A path : Head(<<"", type.sel, path>>) = ""
      OBVIOUS
    <3> QED BY <2>3, <3>1, <3>2
  <2> QED BY <2>4, <2>6, <2>7
<1> QED BY <1>1, <1>2, <1>3

\* What a file prints is what is qualified for it.
LEMMA GoFits ==
  ASSUME NEW c, NEW o, DirsOf(o), Agreed(o), Differ(c, o), NEW own \in PortDirs(c, o) \cup AppDirs(c),
         NEW template, NEW base, NEW once, NEW types, NEW added,
         \A type \in types : IsPlain(o, type), own \notin added
  PROVE  Go(c, o, File(template, own, base, once), types, types, added).uses
           = Go(c, o, File(template, own, base, once), types, types, added).imports
<1>1. PICK file : file = File(template, own, base, once)
  OBVIOUS
<1>2. Head(file.path) = own
  BY <1>1 DEF File
<1>3. Go(c, o, file, types, types, added).imports = added \cup UNION {Qualify(c, o, Last(own), type) : type \in types}
  BY <1>2 DEF Go, Depending
<1>4. Go(c, o, file, types, types, added).uses = (added \cup UNION {Home(c, o, type) : type \in types}) \ {own}
  BY <1>2 DEF Go, Depending
<1>5. \A type \in types : Qualify(c, o, Last(own), type) = Home(c, o, type) \ {own}
  BY QualifiedIsHome
<1>6. UNION {Qualify(c, o, Last(own), type) : type \in types} = (UNION {Home(c, o, type) : type \in types}) \ {own}
  <2>1. ASSUME NEW x, x \in UNION {Qualify(c, o, Last(own), type) : type \in types}
        PROVE  x \in (UNION {Home(c, o, type) : type \in types}) \ {own}
    <3>1. PICK type \in types : x \in Qualify(c, o, Last(own), type)
      BY <2>1
    <3>2. x \in Home(c, o, type) \ {own}
      BY <1>5, <3>1
    <3> QED BY <3>2
  <2>2. ASSUME NEW x, x \in UNION {Home(c, o, type) : type \in types}, x # own
        PROVE  x \in UNION {Qualify(c, o, Last(own), type) : type \in types}
    <3>1. PICK type \in types : x \in Home(c, o, type)
      BY <2>2
    <3>2. x \in Qualify(c, o, Last(own), type)
      BY <1>5, <2>2, <3>1
    <3> QED BY <3>2
  <2> QED BY <2>1, <2>2
<1>7. PICK q, h : /\ q = UNION {Qualify(c, o, Last(own), type) : type \in types}
                  /\ h = UNION {Home(c, o, type) : type \in types}
  OBVIOUS
<1>8. q = h \ {own}
  BY <1>6, <1>7
<1>9. added \cup q = (added \cup h) \ {own}
  BY <1>8
<1> QED BY <1>1, <1>3, <1>4, <1>7, <1>9

\* The first half of ImportsFit, of one file, and TypesArePlain of one context.
Fits(f) == f.uses \subseteq f.imports /\ (f.imports \subseteq f.uses \/ f.template = "http_handler")
PlainContext(c, o) == \A item \in ToSet(c.items) : \A type \in TypesOf(item) : IsPlain(o, type)

\* A file that is given no imports but of packages from outside, or of ports.
LEMMA GivenFits ==
  ASSUME NEW c, NEW o, DirsOf(o), Agreed(o), Differ(c, o), NEW own \in PortDirs(c, o) \cup AppDirs(c),
         NEW template, NEW base, NEW once, NEW types, NEW added,
         \A type \in types : IsPlain(o, type),
         \A dir \in added : Len(dir) = 1 \/ (dir \in PortDirs(c, o) /\ own \in AppDirs(c))
  PROVE  Fits(Go(c, o, File(template, own, base, once), types, types, added))
<1>1. own \notin added
  <2> SUFFICES ASSUME own \in added
               PROVE  FALSE
    OBVIOUS
  <2>1. PICK n \in Nat : n = Len(own) /\ n >= 3
    BY DirFacts DEF IsInternal
  <2>2. Len(own) = 1 \/ (own \in PortDirs(c, o) /\ own \in AppDirs(c))
    OBVIOUS
  <2>3. n # 1
    BY <2>1
  <2>4. Len(own) # 1
    BY <2>1, <2>3
  <2> QED BY <2>2, <2>4 DEF Differ
<1> QED BY <1>1, GoFits DEF Fits

\* Every file of a context imports what it uses.
LEMMA ContextFilesFit ==
  ASSUME NEW c, NEW o, DirsOf(o), Agreed(o), Differ(c, o), PlainContext(c, o), IsSequence(c.items),
         NEW f, IsContextFile(c, o, f)
  PROVE  Fits(f)
<1>1. /\ Domain(c) \in PortDirs(c, o) \cup AppDirs(c)
      /\ PortIn(c, o) \in PortDirs(c, o) \cup AppDirs(c) /\ PortOut(c, o) \in PortDirs(c, o) \cup AppDirs(c)
      /\ UseCases(c) \in AppDirs(c) /\ \A port : AdapterDir(c, port) \in AppDirs(c)
  BY DEF PortDirs, AppDirs, AdapterDir
<1>2. \A item \in ToSet(c.items) :
        /\ \A type \in FieldTypes(item) : IsPlain(o, type)
        /\ \A type \in MethodTypes(item) : IsPlain(o, type)
        /\ \A type \in DTOTypes(item) : IsPlain(o, type)
  BY DEF PlainContext, TypesOf
<1>3. \A word : Len(<<word>>) = 1
  BY SingleFacts
<1>4. \A template : \A item \in ToSet(c.items) : Fits(Struct(c, o, template, item))
  BY <1>1, <1>2, GivenFits DEF Struct
<1>5. \A item : Fits(Factory(c, o, item))
  BY <1>1, GivenFits DEF Factory
<1>6. CASE IsEntityFile(c, o, f) \/ IsValueFile(c, o, f) \/ IsEventFile(c, o, f)
  BY <1>4, <1>5, <1>6 DEF IsEntityFile, IsValueFile, IsEventFile
<1>7. CASE IsServiceFile(c, o, f)
  <2>1. PICK item \in ToSet(c.items) : f = ServiceFiles(c, o, item)[1] \/ f = ServiceFiles(c, o, item)[2]
    BY <1>7 DEF IsServiceFile
  <2>2. PICK types : types = MethodTypes(item)
    OBVIOUS
  <2>3. \/ f = Go(c, o, File("domain_service", Domain(c), item.name, FALSE), types, types, {})
        \/ f = Go(c, o, File("domain_service_impl", Domain(c), Append(item.name, "impl"), TRUE),
                  types, types, {<<"errors">>})
    BY <2>1, <2>2 DEF ServiceFiles
  <2>4. \A type \in types : IsPlain(o, type)
    BY <1>2, <2>2
  <2>5. Fits(Go(c, o, File("domain_service", Domain(c), item.name, FALSE), types, types, {}))
    BY <1>1, <2>4, GivenFits
  <2>6. Fits(Go(c, o, File("domain_service_impl", Domain(c), Append(item.name, "impl"), TRUE),
                types, types, {<<"errors">>}))
    BY <1>1, <1>3, <2>4, GivenFits
  <2> QED BY <2>3, <2>5, <2>6
<1>8. CASE IsPortInFile(c, o, f)
  <2>1. PICK port \in ToSet(c.items) : f = PortInFile(c, o, port)
    BY <1>8 DEF IsPortInFile
  <2>2. PICK types : types = MethodTypes(port) \cup
                       UNION {DTOTypes(uc) : uc \in {i \in ToSet(OfClass(c, {"usecase"})) : i.of = port.of}}
    OBVIOUS
  <2>3. \A type \in types : IsPlain(o, type)
    BY <1>2, <2>2, ClassFacts
  <2>4. f = Go(c, o, File("port_in", PortIn(c, o), port.name, FALSE), types, types, {})
    BY <2>1, <2>2 DEF PortInFile
  <2> QED BY <1>1, <2>3, <2>4, GivenFits
<1>9. CASE IsPortOutFile(c, o, f)
  BY <1>1, <1>2, <1>9, GivenFits DEF IsPortOutFile, PortOutFile
<1>10. CASE IsUseCaseFile(c, o, f)
  <2>1. PICK uc \in ToSet(c.items) : f = UseCaseFile(c, o, uc)
    BY <1>10 DEF IsUseCaseFile
  <2>2. \A dir \in {PortIn(c, o), <<"errors">>} : Len(dir) = 1 \/ dir \in PortDirs(c, o)
    BY <1>3 DEF PortDirs
  <2> QED BY <1>1, <1>2, <2>1, <2>2, GivenFits DEF UseCaseFile
<1>11. CASE IsAdapterFile(c, o, f)
  <2>1. PICK port \in ToSet(c.items) : f = AdapterFile(c, o, port)
    BY <1>11 DEF IsAdapterFile
  <2>2. \A dir \in {PortOut(c, o), <<"errors">>} : Len(dir) = 1 \/ dir \in PortDirs(c, o)
    BY <1>3 DEF PortDirs
  <2> QED BY <1>1, <1>2, <2>1, <2>2, GivenFits DEF AdapterFile
<1>12. CASE IsHandlerFile(c, o, f)
  <2>1. PICK port : f = HandlerFile(c, o, port)
    BY <1>12 DEF IsHandlerFile
  <2>2. f.template = "http_handler"
    BY <2>1 DEF HandlerFile, Go, Depending, File
  <2>3. f.uses = {PortIn(c, o), <<"net/http">>} \ {Handlers(c)}
    BY <2>1 DEF HandlerFile, Go, Depending, File
  <2>4. {PortIn(c, o), <<"net/http">>} \subseteq f.imports
    BY <2>1 DEF HandlerFile, Go, Depending, File
  <2> QED BY <2>2, <2>3, <2>4 DEF Fits
<1>13. CASE f = ProvidersFile(c, o)
  <2>1. PICK providers : providers = {<<"wire">>} \cup Providers(c, o)
    OBVIOUS
  <2>2. f.imports = providers /\ f.uses = providers \ {Root(c)}
    BY <1>13, <2>1 DEF ProvidersFile, Go, Depending, File
  <2>3. Root(c) \notin providers
    <3> SUFFICES ASSUME Root(c) \in providers
                 PROVE  FALSE
      OBVIOUS
    <3>1. Len(Root(c)) = 2
      BY DirFacts
    <3>2. Root(c) # <<"wire">>
      BY <1>3, <3>1
    <3>3. Root(c) \in PortDirs(c, o) \cup AppDirs(c)
      BY <1>1, <2>1, <3>2 DEF Providers, PortDirs, AppDirs
    <3>4. Len(Root(c)) >= 3
      BY <3>3, DirFacts DEF IsInternal
    <3> QED BY <3>1, <3>4
  <2> QED BY <2>2, <2>3 DEF Fits
<1> QED BY <1>6, <1>7, <1>8, <1>9, <1>10, <1>11, <1>12, <1>13 DEF IsContextFile

\* Where there are items of a class, there is one.
LEMMA SomeOfClass ==
  ASSUME NEW c, NEW class, IsSequence(c.items), OfClass(c, {class}) # <<>>
  PROVE  \E item \in ToSet(c.items) : item.class = class
<1>1. PICK those : AreOfClass(those, c, class)
  BY ItemsOfClass
<1>2. IsSequence(those) /\ those # <<>>
  BY <1>1 DEF AreOfClass
<1>3. 1 \in DOMAIN those
  BY <1>2, SequenceFacts, EmptyIsSequence
<1>4. those[1] \in ToSet(c.items) /\ those[1].class = class
  BY <1>1, <1>3 DEF AreOfClass
<1> QED BY <1>4

-----------------------------------------------------------------------------
(***************************************************************************)
(* What is imported of the project is there. A type is in a package        *)
(* because an item of the context has its name, and that item has a file;  *)
(* but a use case's input and output are in the package of the ports, so   *)
(* that there must be a port with every use case.                          *)
(***************************************************************************)
\* There is a file in a directory; where use cases are, ports are; and what
\* ImportsFit says of the options.
HasFile(c, o, dir) == \E f : IsContextFile(c, o, f) /\ Head(f.path) = dir
HavePorts(parts) ==
  \A part \in ToSet(parts) : part.class = "usecase" => \E port \in ToSet(parts) : port.class = "in"
AllShown(o) == o.domain /\ o.events /\ o.ports

\* Where the files of a context are.
LEMMA Places ==
  ASSUME NEW c, NEW o
  PROVE  /\ \A template, item : Head(Struct(c, o, template, item).path) = Domain(c)
         /\ \A item : /\ Head(ServiceFiles(c, o, item)[1].path) = Domain(c)
                      /\ Head(PortInFile(c, o, item).path) = PortIn(c, o)
                      /\ Head(PortOutFile(c, o, item).path) = PortOut(c, o)
                      /\ Head(UseCaseFile(c, o, item).path) = UseCases(c)
                      /\ Head(AdapterFile(c, o, item).path) = AdapterDir(c, item)
                      /\ Head(HandlerFile(c, o, item).path) = Handlers(c)
         /\ Head(ProvidersFile(c, o).path) = Root(c)
<1>1. \A template, item : Head(Struct(c, o, template, item).path) = Domain(c)
  BY DEF Struct, Go, Depending, File
<1>2. \A item : Head(ServiceFiles(c, o, item)[1].path) = Domain(c)
  BY DEF ServiceFiles, Go, Depending, File
<1>3. \A item : Head(PortInFile(c, o, item).path) = PortIn(c, o)
  BY DEF PortInFile, Go, Depending, File
<1>4. \A item : Head(PortOutFile(c, o, item).path) = PortOut(c, o)
  BY DEF PortOutFile, Go, Depending, File
<1>5. \A item : Head(UseCaseFile(c, o, item).path) = UseCases(c)
  BY DEF UseCaseFile, Go, Depending, File
<1>6. \A item : Head(AdapterFile(c, o, item).path) = AdapterDir(c, item)
  BY DEF AdapterFile, Go, Depending, File
<1>7. \A item : Head(HandlerFile(c, o, item).path) = Handlers(c)
  BY DEF HandlerFile, Go, Depending, File
<1>8. Head(ProvidersFile(c, o).path) = Root(c)
  BY DEF ProvidersFile, Go, Depending, File
<1> QED BY <1>1, <1>2, <1>3, <1>4, <1>5, <1>6, <1>7, <1>8

\* What an item has rendered.
LEMMA FilesThere ==
  ASSUME NEW c, NEW o, AllShown(o), HavePorts(c.items)
  PROVE  /\ \A item \in ToSet(c.items) :
              /\ item.class \in {"aggregate", "entity", "value", "event", "service"} => HasFile(c, o, Domain(c))
              /\ item.class \in {"in", "usecase"} => HasFile(c, o, PortIn(c, o))
              /\ item.class = "out" => HasFile(c, o, PortOut(c, o))
              /\ item.class = "usecase" /\ o.usecases => HasFile(c, o, UseCases(c))
              /\ item.class = "out" /\ o.adapters # "off" => HasFile(c, o, AdapterDir(c, item))
              /\ item.class = "in" /\ o.adapters # "off" => HasFile(c, o, Handlers(c))
         /\ o.di => HasFile(c, o, Root(c))
<1>1. ASSUME NEW item \in ToSet(c.items)
      PROVE  /\ item.class \in {"aggregate", "entity", "value", "event", "service"} => HasFile(c, o, Domain(c))
             /\ item.class = "in" => HasFile(c, o, PortIn(c, o))
             /\ item.class = "out" => HasFile(c, o, PortOut(c, o))
             /\ item.class = "usecase" /\ o.usecases => HasFile(c, o, UseCases(c))
             /\ item.class = "out" /\ o.adapters # "off" => HasFile(c, o, AdapterDir(c, item))
             /\ item.class = "in" /\ o.adapters # "off" => HasFile(c, o, Handlers(c))
  <2> USE Places DEF HasFile, IsContextFile, AllShown
  <2>1. CASE item.class = "aggregate"
    BY <2>1 DEF IsEntityFile
  <2>2. CASE item.class = "entity"
    BY <2>2 DEF IsEntityFile
  <2>3. CASE item.class = "value"
    BY <2>3 DEF IsValueFile
  <2>4. CASE item.class = "event"
    BY <2>4 DEF IsEventFile
  <2>5. CASE item.class = "service"
    BY <2>5 DEF IsServiceFile
  <2>6. CASE item.class = "in"
    BY <2>6 DEF IsPortInFile, IsHandlerFile
  <2>7. CASE item.class = "out"
    BY <2>7 DEF IsPortOutFile, IsAdapterFile
  <2>8. CASE item.class = "usecase"
    BY <2>8 DEF IsUseCaseFile
  <2> QED BY <2>1, <2>2, <2>3, <2>4, <2>5, <2>6, <2>7, <2>8
<1>2. o.di => HasFile(c, o, Root(c))
  BY Places DEF HasFile, IsContextFile
<1> QED BY <1>1, <1>2 DEF HavePorts

\* A package of the project that a type is in has a file.
LEMMA HomesThere ==
  ASSUME NEW c, NEW o, AllShown(o), HavePorts(c.items), IsSequence(c.items),
         NEW type, NEW dir \in Home(c, o, type), Head(dir) = "internal"
  PROVE  HasFile(c, o, dir)
<1>1. \/ type.sel \notin {"", "builtin"} /\ \E path : dir = <<"", type.sel, path>>
      \/ type.sel = "" /\ \E r \in 1 .. 3 : dir = Regions(c, o)[r].dir /\ type.name \in Regions(c, o)[r].names
  BY HomeFacts
<1>2. \A path : dir # <<"", type.sel, path>>
  <2>1. \A path : Head(<<"", type.sel, path>>) = ""
    OBVIOUS
  <2> QED BY <2>1
<1>3. PICK r \in 1 .. 3 : dir = Regions(c, o)[r].dir /\ type.name \in Regions(c, o)[r].names
  BY <1>1, <1>2
<1>4. r = 1 \/ r = 2 \/ r = 3
  OBVIOUS
<1>5. \A classes : \A name \in NamesOf(c, classes) : \E item \in ToSet(c.items) : item.class \in classes
  BY ClassFacts DEF NamesOf
<1>6. CASE r = 1
  BY <1>3, <1>5, <1>6, FilesThere, RegionDirs
<1>7. CASE r = 2
  <2>1. type.name \in NamesOf(c, {"in"}) \/ \E n : n \in NamesOf(c, {"usecase"})
    BY <1>3, <1>7, RegionDirs
  <2>2. \E item \in ToSet(c.items) : item.class \in {"in", "usecase"}
    BY <1>5, <2>1
  <2> QED BY <1>3, <1>7, <2>2, FilesThere, RegionDirs
<1>8. CASE r = 3
  BY <1>3, <1>5, <1>8, FilesThere, RegionDirs
<1> QED BY <1>4, <1>6, <1>7, <1>8

\* The second half of ImportsFit, of some imports.
Found(c, o, dirs) == \A dir \in dirs : Head(dir) = "internal" => HasFile(c, o, dir)

\* So has what a file imports for its types.
LEMMA GoFound ==
  ASSUME NEW c, NEW o, AllShown(o), HavePorts(c.items), IsSequence(c.items),
         NEW file, NEW qualified, NEW printed, NEW added, Found(c, o, added)
  PROVE  Found(c, o, Go(c, o, file, qualified, printed, added).imports)
<1>1. PICK dirs : dirs = UNION {Qualify(c, o, Last(Head(file.path)), type) : type \in qualified}
  OBVIOUS
<1>2. \A package, type : Qualify(c, o, package, type) \subseteq Home(c, o, type) \cup Extern(o, type.sel)
  BY DEF Qualify
<1>5. \A sel : \A dir \in Extern(o, sel) : Head(dir) # "internal"
  <2> TAKE sel
  <2> TAKE dir \in Extern(o, sel)
  <2>1. PICK path : dir = <<"", sel, path>>
    BY DEF Extern
  <2>2. Head(<<"", sel, path>>) = ""
    OBVIOUS
  <2> QED BY <2>1, <2>2
<1>3. Found(c, o, dirs)
  <2> SUFFICES ASSUME NEW dir \in dirs, Head(dir) = "internal"
               PROVE  HasFile(c, o, dir)
    BY DEF Found
  <2>1. PICK type \in qualified : dir \in Home(c, o, type) \cup Extern(o, type.sel)
    BY <1>1, <1>2
  <2>2. dir \in Home(c, o, type)
    BY <1>5, <2>1
  <2> QED BY <2>2, HomesThere
<1>4. Go(c, o, file, qualified, printed, added).imports = added \cup dirs
  BY <1>1 DEF Go, Depending
<1> QED BY <1>3, <1>4 DEF Found

\* What a file of a context imports of the project is there.
LEMMA ContextImportsFound ==
  ASSUME NEW c, NEW o, AllShown(o), HavePorts(c.items), IsSequence(c.items), NEW f, IsContextFile(c, o, f)
  PROVE  Found(c, o, f.imports)
<1>1. Found(c, o, {})
  BY DEF Found
<1>2. \A name : Head(<<name>>) = name
  OBVIOUS
<1>3. \A name : name # "internal" => Found(c, o, {<<name>>})
  BY <1>2 DEF Found
<1>4. \A template, item : Found(c, o, Struct(c, o, template, item).imports)
  BY <1>1, GoFound DEF Struct
<1>5. \A item : Found(c, o, Factory(c, o, item).imports)
  BY <1>1, GoFound DEF Factory
<1>6. \A item : /\ Found(c, o, ServiceFiles(c, o, item)[1].imports)
                /\ Found(c, o, ServiceFiles(c, o, item)[2].imports)
  BY <1>1, <1>3, GoFound DEF ServiceFiles
<1>7. \A item : Found(c, o, PortInFile(c, o, item).imports) /\ Found(c, o, PortOutFile(c, o, item).imports)
  BY <1>1, GoFound DEF PortInFile, PortOutFile
<1>8. \A dir, name : HasFile(c, o, dir) /\ name # "internal" => Found(c, o, {dir, <<name>>})
  BY <1>2 DEF Found
<1>9. ASSUME NEW item \in ToSet(c.items), item.class = "usecase"
      PROVE  Found(c, o, UseCaseFile(c, o, item).imports)
  BY <1>8, <1>9, FilesThere, GoFound DEF UseCaseFile
<1>10. ASSUME NEW item \in ToSet(c.items), item.class = "out"
       PROVE  Found(c, o, AdapterFile(c, o, item).imports)
  BY <1>8, <1>10, FilesThere, GoFound DEF AdapterFile
<1>11. ASSUME NEW item \in ToSet(c.items), item.class = "in"
       PROVE  Found(c, o, HandlerFile(c, o, item).imports)
  BY <1>8, <1>11, FilesThere, GoFound DEF HandlerFile
<1>12. Found(c, o, ProvidersFile(c, o).imports)
  <2>1. \A port \in ToSet(OfClass(c, {"out"})) : port \in ToSet(c.items) /\ port.class = "out"
    BY ClassFacts
  <2>2. ASSUME NEW dir \in Providers(c, o)
        PROVE  HasFile(c, o, dir)
    <3>1. CASE o.adapters # "off" /\ \E port \in ToSet(OfClass(c, {"out"})) : dir = AdapterDir(c, port)
      BY <2>1, <3>1, FilesThere
    <3>2. CASE OfClass(c, {"out"}) # <<>> /\ dir = PortOut(c, o)
      BY <3>2, FilesThere, SomeOfClass
    <3>3. CASE o.usecases /\ OfClass(c, {"usecase"}) # <<>> /\ dir \in {UseCases(c), PortIn(c, o)}
      <4>1. PICK item \in ToSet(c.items) : item.class = "usecase"
        BY <3>3, SomeOfClass
      <4>2. HasFile(c, o, PortIn(c, o)) /\ HasFile(c, o, UseCases(c))
        BY <3>3, <4>1, FilesThere
      <4> QED BY <3>3, <4>2
    <3>4. CASE o.adapters # "off" /\ OfClass(c, {"in"}) # <<>> /\ dir = Handlers(c)
      BY <3>4, FilesThere, SomeOfClass
    <3> QED BY <3>1, <3>2, <3>3, <3>4 DEF Providers
  <2>3. Found(c, o, {<<"wire">>} \cup Providers(c, o))
    BY <1>2, <2>2 DEF Found
  <2> QED BY <2>3, GoFound DEF ProvidersFile
<1> QED
  BY <1>4, <1>5, <1>6, <1>7, <1>9, <1>10, <1>11, <1>12
     DEF IsContextFile, IsEntityFile, IsValueFile, IsEventFile, IsServiceFile, IsPortInFile, IsPortOutFile,
         IsUseCaseFile, IsAdapterFile, IsHandlerFile

-----------------------------------------------------------------------------
\* What the contexts are, and the binaries of a configuration.
AreContexts(project) == IsSequence(project) /\ \A c \in ToSet(project) : IsSequence(c.items)
GroupsOf(o) ==
  /\ o.cmd \in {"off", "mono", "per-context", "custom"}
  /\ IsSequence(o.groups) /\ \A i \in DOMAIN o.groups : IsSequence(o.groups[i].contexts)
  /\ o.cmd = "custom" => \A i, j \in DOMAIN o.groups : o.groups[i].name = o.groups[j].name => i = j

\* A group of the configuration names contexts of the project.
LEMMA CalledFacts ==
  ASSUME NEW project, NEW reference, IsSequence(project), Called(project, reference) # <<>>
  PROVE  Last(Called(project, reference)) \in ToSet(project)
<1>1. PICK called : called = Called(project, reference)
  OBVIOUS
<1>2. IsSequence(called) /\ ToSet(called) \subseteq ToSet(project)
  BY <1>1, OnlyFacts DEF Called
<1> QED BY <1>1, <1>2, LastIn

\* Binaries are made of contexts of the project.
LEMMA BinariesFacts ==
  ASSUME NEW project, NEW o, IsSequence(project), GroupsOf(o), ~RenderFails(project, o)
  PROVE  /\ IsSequence(Binaries(project, o))
         /\ \A i \in DOMAIN Binaries(project, o) : ToSet(Binaries(project, o)[i].contexts) \subseteq ToSet(project)
<1>1. PICK binaries : binaries = Binaries(project, o)
  OBVIOUS
<1>2. CASE o.cmd = "off"
  <2>1. binaries = <<>>
    BY <1>1, <1>2 DEF Binaries
  <2> QED BY <1>1, <2>1, EmptyIsSequence
<1>3. CASE o.cmd = "mono"
  <2>1. PICK b : b = [name |-> o.app, contexts |-> project]
    OBVIOUS
  <2>2. binaries = <<b>>
    BY <1>1, <1>3, <2>1 DEF Binaries
  <2>3. IsSequence(binaries) /\ \A i \in DOMAIN binaries : binaries[i] = b
    <3>1. IsSequence(binaries) /\ Len(binaries) = 1 /\ binaries[1] = b
      BY <2>2, SingleFacts
    <3>2. DOMAIN binaries = 1 .. 1
      BY <3>1, SequenceFacts
    <3> QED BY <3>1, <3>2
  <2>4. b.contexts = project
    BY <2>1
  <2> QED BY <1>1, <2>3, <2>4
<1>4. CASE o.cmd = "per-context"
  <2>1. binaries = [i \in DOMAIN project |-> [name |-> Slug(project[i].name), contexts |-> <<project[i]>>]]
    BY <1>1, <1>4 DEF Binaries
  <2>2. IsSequence(binaries) /\ DOMAIN binaries = DOMAIN project
    <3>1. binaries = [i \in DOMAIN project |-> binaries[i]]
      BY <2>1
    <3> QED BY <3>1, MappedFacts
  <2>3. ASSUME NEW i \in DOMAIN project
        PROVE  ToSet(binaries[i].contexts) \subseteq ToSet(project)
    <3>1. PICK c : c = project[i]
      OBVIOUS
    <3>2. binaries[i].contexts = <<c>>
      BY <2>1, <3>1
    <3>3. ToSet(<<c>>) = {c}
      BY SmallRanges
    <3>4. c \in ToSet(project)
      BY <3>1 DEF ToSet
    <3> QED BY <3>2, <3>3, <3>4
  <2> QED BY <1>1, <2>2, <2>3
<1>5. CASE o.cmd = "custom"
  <2>1. binaries =
          [i \in DOMAIN o.groups |->
            [name |-> o.groups[i].name,
             contexts |-> [j \in DOMAIN o.groups[i].contexts |-> Last(Called(project, o.groups[i].contexts[j]))]]]
    BY <1>1, <1>5 DEF Binaries
  <2>2. IsSequence(binaries) /\ DOMAIN binaries = DOMAIN o.groups
    <3>1. binaries = [i \in DOMAIN o.groups |-> binaries[i]]
      BY <2>1
    <3> QED BY <3>1, MappedFacts DEF GroupsOf
  <2>3. ASSUME NEW i \in DOMAIN o.groups
        PROVE  ToSet(binaries[i].contexts) \subseteq ToSet(project)
    <3>1. PICK references : references = o.groups[i].contexts
      OBVIOUS
    <3>2. binaries[i].contexts = [j \in DOMAIN references |-> Last(Called(project, references[j]))]
      BY <2>1, <3>1
    <3>3. o.groups[i] \in ToSet(o.groups) /\ \A j \in DOMAIN references : references[j] \in ToSet(references)
      BY DEF ToSet
    <3>4. \A j \in DOMAIN references : Called(project, references[j]) # <<>>
      BY <1>5, <3>1, <3>3 DEF RenderFails
    <3>5. \A j \in DOMAIN references : Last(Called(project, references[j])) \in ToSet(project)
      BY <3>4, CalledFacts
    <3> QED BY <3>2, <3>5 DEF ToSet
  <2> QED BY <1>1, <2>2, <2>3
<1> QED BY <1>2, <1>3, <1>4, <1>5 DEF GroupsOf

\* What a binary is made of.
MainImports(o) == {<<"log">>} \cup (IF o.di THEN {<<"cobra">>} ELSE {})
WireImports(b, o) == {<<"wire">>} \cup UNION {{Root(c), PortIn(c, o)} : c \in Injectable(b, o)}
IsBinaryFile(b, o, f) ==
  /\ Len(f.path[1]) = 2 /\ f.path[1][1] = "cmd" /\ f.path[1][2] = b.name /\ f.once = TRUE
  /\ \/ f.imports = MainImports(o) /\ f.uses = MainImports(o)
     \/ f.imports = WireImports(b, o) /\ f.uses = WireImports(b, o)

\* The files of a binary.
LEMMA BinaryFilesFacts ==
  ASSUME NEW b, NEW o
  PROVE  IsSequence(BinaryFiles(b, o)) /\ \A f \in ToSet(BinaryFiles(b, o)) : IsBinaryFile(b, o, f)
<1>1. PICK main : main = Depending(File("main", <<"cmd", b.name>>, <<"main">>, TRUE), MainImports(o), MainImports(o))
  OBVIOUS
<1>2. PICK wire : wire = Depending(File("wire", <<"cmd", b.name>>, <<"wire">>, TRUE), WireImports(b, o), WireImports(b, o))
  OBVIOUS
<1>3. IsBinaryFile(b, o, main) /\ IsBinaryFile(b, o, wire)
  BY <1>1, <1>2 DEF Depending, File, IsBinaryFile
<1>4. PICK s, t : s = <<main>> /\ t = If(Injectable(b, o) # {}, <<wire>>)
  OBVIOUS
<1>5. IsSequence(s) /\ ToSet(s) = {main}
  BY <1>4, SingleFacts, SmallRanges
<1>6. IsSequence(t) /\ ToSet(t) \subseteq {wire}
  <2>1. IsSequence(<<wire>>) /\ ToSet(<<wire>>) = {wire}
    BY SingleFacts, SmallRanges
  <2>2. IsSequence(<<>>) /\ ToSet(<<>>) = {}
    BY EmptyIsSequence, SmallRanges
  <2> QED BY <1>4, <2>1, <2>2 DEF If
<1>7. IsSequence(s \o t) /\ ToSet(s \o t) \subseteq {main, wire}
  BY <1>5, <1>6, ConcatRange
<1>8. BinaryFiles(b, o) = s \o t
  BY <1>1, <1>2, <1>4 DEF BinaryFiles, MainImports, WireImports
<1> QED BY <1>3, <1>7, <1>8

\* What a rendered file can be.
IsProjectFile(project, o, f) ==
  \/ \E c \in ToSet(project) : IsContextFile(c, o, f)
  \/ \E i \in DOMAIN Binaries(project, o) : IsBinaryFile(Binaries(project, o)[i], o, f)
  \/ Len(f.path[1]) = 0 /\ f.once = FALSE /\ f.imports = {} /\ f.uses = {}

\* What is rendered, in whatever order it is sorted.
LEMMA RenderedFiles ==
  ASSUME NEW project, NEW o, AreContexts(project), GroupsOf(o), ~RenderFails(project, o)
  PROVE  /\ \A f \in ToSet(Render(project, o)) : IsProjectFile(project, o, f)
         /\ \A c \in ToSet(project) : \A f : IsContextFile(c, o, f) => f \in ToSet(Render(project, o))
<1>1. PICK rendered : rendered = [i \in DOMAIN project |-> RenderContext(project[i], o)]
  OBVIOUS
<1>2. IsSequence(project) /\ \A i \in DOMAIN project : project[i] \in ToSet(project)
  BY DEF AreContexts, ToSet
<1>3. \A i \in DOMAIN project :
        IsSequence(rendered[i]) /\ \A f : f \in ToSet(rendered[i]) <=> IsContextFile(project[i], o, f)
  BY <1>1, <1>2, ContextFiles DEF AreContexts
<1>4. PICK contextual : contextual = FlattenSeq(rendered)
  OBVIOUS
<1>5. /\ IsSequence(contextual)
      /\ \A f : f \in ToSet(contextual) <=> \E i \in DOMAIN project : f \in ToSet(rendered[i])
  <2>1. rendered = [i \in DOMAIN project |-> rendered[i]]
    BY <1>1
  <2> QED BY <1>2, <1>3, <1>4, <2>1, FlatMadeFacts
<1>6. PICK binaries : binaries = Binaries(project, o)
  OBVIOUS
<1>7. IsSequence(binaries)
  BY <1>2, <1>6, BinariesFacts
<1>8. PICK made : made = [i \in DOMAIN binaries |-> BinaryFiles(binaries[i], o)]
  OBVIOUS
<1>9. PICK binary : binary = FlattenSeq(made)
  OBVIOUS
<1>10. IsSequence(binary) /\ \A f \in ToSet(binary) : \E i \in DOMAIN binaries : IsBinaryFile(binaries[i], o, f)
  <2>1. made = [i \in DOMAIN binaries |-> made[i]]
    BY <1>8
  <2>2. \A i \in DOMAIN binaries : IsSequence(made[i]) /\ \A f \in ToSet(made[i]) : IsBinaryFile(binaries[i], o, f)
    BY <1>8, BinaryFilesFacts
  <2>3. IsSequence(binary) /\ \A f : f \in ToSet(binary) <=> \E i \in DOMAIN binaries : f \in ToSet(made[i])
    BY <1>7, <1>9, <2>1, <2>2, FlatMadeFacts
  <2> QED BY <2>2, <2>3
<1>11. PICK lint : lint = If(o.importlint, <<ArchLint>>)
  OBVIOUS
<1>12. /\ IsSequence(lint)
       /\ \A f \in ToSet(lint) : Len(f.path[1]) = 0 /\ f.once = FALSE /\ f.imports = {} /\ f.uses = {}
  <2>1. IsSequence(<<ArchLint>>) /\ ToSet(<<ArchLint>>) = {ArchLint}
    BY SingleFacts, SmallRanges
  <2>2. IsSequence(<<>>) /\ ToSet(<<>>) = {}
    BY EmptyIsSequence, SmallRanges
  <2>3. /\ Len(ArchLint.path[1]) = 0 /\ ArchLint.once = FALSE
        /\ ArchLint.imports = {} /\ ArchLint.uses = {}
    BY EmptyIsSequence DEF ArchLint, Depending, File
  <2> QED BY <1>11, <2>1, <2>2, <2>3 DEF If
<1>13. PICK both : both = contextual \o binary
  OBVIOUS
<1>14. IsSequence(both) /\ ToSet(both) = ToSet(contextual) \cup ToSet(binary)
  BY <1>5, <1>10, <1>13, ConcatRange
<1>15. IsSequence(both \o lint) /\ ToSet(both \o lint) = ToSet(both) \cup ToSet(lint)
  BY <1>12, <1>14, ConcatRange
<1>16. FilesOf(project, o) = both \o lint
  BY <1>1, <1>4, <1>6, <1>8, <1>9, <1>11, <1>13 DEF FilesOf
<1>17. ToSet(Render(project, o)) = ToSet(both \o lint)
  BY <1>15, <1>16, ArrangedFacts DEF Render, ByPath
<1>18. \A f \in ToSet(Render(project, o)) : f \in ToSet(contextual) \/ f \in ToSet(binary) \/ f \in ToSet(lint)
  BY <1>14, <1>15, <1>17
<1>19. \A f \in ToSet(Render(project, o)) : IsProjectFile(project, o, f)
  BY <1>2, <1>3, <1>5, <1>6, <1>10, <1>12, <1>18 DEF IsProjectFile
<1>20. \A c \in ToSet(project) : \A f : IsContextFile(c, o, f) => f \in ToSet(Render(project, o))
  <2>1. \A c \in ToSet(project) : \E i \in DOMAIN project : c = project[i]
    BY DEF ToSet
  <2>2. \A c \in ToSet(project) : \A f : IsContextFile(c, o, f) => f \in ToSet(contextual)
    BY <1>3, <1>5, <2>1
  <2> QED BY <1>14, <1>15, <1>17, <2>2
<1> QED BY <1>19, <1>20

-----------------------------------------------------------------------------
(***************************************************************************)
(* What has been rendered is what Render makes of the contexts and one of  *)
(* the configurations, and wherever a use case has been put, in the        *)
(* context that is being made or in one that is made, there is a port as   *)
(* well, and names are sequences of words.                                 *)
(***************************************************************************)
AreNamed(parts) == \A part \in ToSet(parts) : IsSequence(part.name)
AreParts(parts) == HavePorts(parts) /\ AreNamed(parts)

FitInv ==
  /\ IsSequence(items) /\ AreParts(items)
  /\ AreContexts(contexts) /\ \A c \in ToSet(contexts) : "items" \in DOMAIN c /\ AreParts(c.items)
  /\ status = "rendered" =>
       options \in Configured /\ ~RenderFails(contexts, options) /\ files = Render(contexts, options)

\* What the configurations are when a model has been mapped.
LEMMA ConfiguredFacts ==
  ASSUME ShareInv, NEW o \in Configured
  PROVE  /\ DirsOf(o) /\ GroupsOf(o)
         /\ IsSequence(requests) => IsSequence(o.imports) /\ ToSet(requests) \subseteq ToSet(o.imports)
<1>1. PICK input \in Inputs : source = input.source
  BY DEF ShareInv, MemoryInv, FromInput
<1>2. PICK given \in source.options : o = [given EXCEPT !.imports = given.imports \o requests]
  BY DEF Configured, Registered
<1>3. DirsOf(given) /\ GroupsOf(given) /\ IsSequence(given.imports)
  BY <1>1, OptionsAssumption DEF DirsOf, GroupsOf
<1>4. {"drivingDir", "drivenDir", "cmd", "groups", "imports"} \subseteq DOMAIN given
  BY <1>1, OptionsAssumption
<1>5. /\ o.drivingDir = given.drivingDir /\ o.drivenDir = given.drivenDir
      /\ o.cmd = given.cmd /\ o.groups = given.groups
      /\ o.imports = given.imports \o requests
  BY <1>2, <1>4
<1>6. DirsOf(o)
  BY <1>3, <1>5 DEF DirsOf
<1>7. GroupsOf(o)
  BY <1>3, <1>5 DEF GroupsOf
<1>8. IsSequence(requests) => IsSequence(o.imports) /\ ToSet(requests) \subseteq ToSet(o.imports)
  BY <1>3, <1>5, ConcatRange
<1> QED BY <1>6, <1>7, <1>8

\* The imports of all types of a context have been asked for.
AreAsked(parts, asked) ==
  \A part \in ToSet(parts) : \A type \in TypesOf(part) : ToSet(Ask(type)) \subseteq ToSet(asked)

\* Then the renderer knows them.
LEMMA AskedFacts ==
  ASSUME NEW o, ToSet(requests) \subseteq ToSet(o.imports), NEW type, ToSet(Ask(type)) \subseteq ToSet(requests)
  PROVE  IsAsked(o, type)
<1> SUFFICES ASSUME type.sel \notin {"", "builtin"}, type.import # ""
             PROVE  \E i \in DOMAIN o.imports : o.imports[i].sel = type.sel /\ o.imports[i].path = type.import
  BY DEF IsAsked
<1>1. PICK ask : ask = [sel |-> type.sel, path |-> type.import]
  OBVIOUS
<1>2. Ask(type) = <<ask>>
  BY <1>1 DEF Ask
<1>3. ToSet(<<ask>>) = {ask}
  BY SmallRanges
<1>4. ask \in ToSet(o.imports)
  BY <1>2, <1>3
<1>5. PICK i \in DOMAIN o.imports : o.imports[i] = ask
  BY <1>4 DEF ToSet
<1>6. ask.sel = type.sel /\ ask.path = type.import
  BY <1>1
<1>7. o.imports[i].sel = type.sel /\ o.imports[i].path = type.import
  BY <1>5, <1>6
<1> QED BY <1>7

\* What has been rendered under FitInv fits, if all imports have been asked for.
LEMMA RenderFits ==
  ASSUME FitInv, ShareInv, status = "rendered",
         IsSequence(requests), \A c \in ToSet(contexts) : AreAsked(c.items, requests)
  PROVE  ImportsFit
<1>2. PICK o : o = options
  OBVIOUS
<1>3. DirsOf(o) /\ GroupsOf(o) /\ IsSequence(o.imports) /\ ToSet(requests) \subseteq ToSet(o.imports)
  BY <1>2, ConfiguredFacts DEF FitInv
<1>4. PICK project : project = contexts
  OBVIOUS
<1>5. AreContexts(project) /\ ~RenderFails(project, o) /\ files = Render(project, o)
  BY <1>2, <1>4 DEF FitInv
<1>6. /\ \A f \in ToSet(files) : IsProjectFile(project, o, f)
      /\ \A c \in ToSet(project) : \A f : IsContextFile(c, o, f) => f \in ToSet(files)
  BY <1>3, <1>5, RenderedFiles
<1>7. \A c \in ToSet(project) : IsSequence(c.items) /\ HavePorts(c.items)
  BY <1>4, <1>5 DEF AreContexts, FitInv, AreParts
<1>8. ASSUME NEW f \in ToSet(files), TypesArePlain, ImportsAgree, PackagesDiffer
      PROVE  Fits(f)
  <2>1. CASE \E c \in ToSet(project) : IsContextFile(c, o, f)
    <3>1. PICK c \in ToSet(project) : IsContextFile(c, o, f)
      BY <2>1
    <3>2. Differ(c, o)
      BY <1>2, <1>4, <1>8 DEF PackagesDiffer, Differ
    <3>3. Agreed(o)
      BY <1>2, <1>3, <1>8 DEF ImportsAgree, Agreed
    <3>4. ASSUME NEW item \in ToSet(c.items), NEW type \in TypesOf(item)
          PROVE  IsPlain(o, type)
      <4>1. ~Hidden(type) /\ IsKnown(o, type)
        BY <1>2, <1>4, <1>8 DEF TypesArePlain, IsKnown
      <4>2. ToSet(Ask(type)) \subseteq ToSet(requests)
        BY <1>4 DEF AreAsked
      <4>3. IsAsked(o, type)
        BY <1>3, <4>2, AskedFacts
      <4> QED BY <4>1, <4>3 DEF IsPlain
    <3>5. PlainContext(c, o)
      BY <3>4 DEF PlainContext
    <3> QED BY <1>3, <1>7, <3>1, <3>2, <3>3, <3>5, ContextFilesFit
  <2>2. CASE \E b : IsBinaryFile(b, o, f)
    BY <2>2 DEF IsBinaryFile, Fits
  <2>3. CASE f.imports = {} /\ f.uses = {}
    BY <2>3 DEF Fits
  <2> QED BY <1>6, <2>1, <2>2, <2>3 DEF IsProjectFile
<1>9. ASSUME NEW f \in ToSet(files), AllShown(o), NEW dir \in f.imports, Head(dir) = "internal"
      PROVE  dir \in Dirs
  <2>1. ASSUME NEW c \in ToSet(project), HasFile(c, o, dir)
        PROVE  dir \in Dirs
    <3>1. PICK g : g \in ToSet(files) /\ Head(g.path) = dir
      BY <1>6, <2>1 DEF HasFile
    <3>2. PICK i \in DOMAIN files : g = files[i]
      BY <3>1 DEF ToSet
    <3> QED BY <3>1, <3>2 DEF Dirs
  <2>2. CASE \E c \in ToSet(project) : IsContextFile(c, o, f)
    <3>1. PICK c \in ToSet(project) : IsContextFile(c, o, f)
      BY <2>2
    <3>2. HasFile(c, o, dir)
      BY <1>7, <1>9, <3>1, ContextImportsFound DEF Found
    <3> QED BY <2>1, <3>2
  <2>3. CASE \E i \in DOMAIN Binaries(project, o) : IsBinaryFile(Binaries(project, o)[i], o, f)
    <3>1. PICK i \in DOMAIN Binaries(project, o) : IsBinaryFile(Binaries(project, o)[i], o, f)
      BY <2>3
    <3>2. PICK b : b = Binaries(project, o)[i]
      OBVIOUS
    <3>3. ToSet(b.contexts) \subseteq ToSet(project)
      BY <1>3, <1>5, <3>2, BinariesFacts DEF AreContexts
    <3>4. \A name : name # "internal" => dir # <<name>>
      <4>1. \A name : Head(<<name>>) = name
        OBVIOUS
      <4> QED BY <1>9, <4>1
    <3>5. PICK c \in Injectable(b, o) : dir \in {Root(c), PortIn(c, o)}
      BY <1>9, <3>1, <3>2, <3>4 DEF IsBinaryFile, MainImports, WireImports
    <3>6. c \in ToSet(project) /\ o.di /\ OfClass(c, {"in"}) # <<>>
      BY <3>3, <3>5 DEF Injectable
    <3>7. PICK item \in ToSet(c.items) : item.class = "in"
      BY <1>7, <3>6, SomeOfClass
    <3>8. HasFile(c, o, Root(c)) /\ HasFile(c, o, PortIn(c, o))
      BY <1>7, <1>9, <3>6, <3>7, FilesThere
    <3> QED BY <2>1, <3>5, <3>6, <3>8
  <2>4. ~(f.imports = {})
    OBVIOUS
  <2> QED BY <1>6, <2>2, <2>3, <2>4 DEF IsProjectFile
<1> QED BY <1>2, <1>8, <1>9 DEF ImportsFit, Fits, AllShown
-----------------------------------------------------------------------------
\* Nothing has been made.
LEMMA FitInit == Init => FitInv
<1> SUFFICES ASSUME Init
             PROVE  FitInv
  OBVIOUS
<1>1. items = <<>> /\ contexts = <<>> /\ status = "load"
  BY DEF Init, LoaderInit
<1> QED BY <1>1, EmptyIsSequence, SmallRanges DEF FitInv, HavePorts, AreNamed, AreParts, AreContexts

\* A use case comes with its port.
LEMMA ClassesFacts ==
  ASSUME NEW g, NEW id
  PROVE  /\ IsSequence(Classes(g, id))
         /\ "usecase" \in ToSet(Classes(g, id)) => "in" \in ToSet(Classes(g, id))
<1>1. PartClass(g, id) # "usecase"
  BY DEF PartClass
<1>2. PortClass(g, id) # "usecase"
  BY DEF PortClass
<1>3. IsSequence(<<>>) /\ ToSet(<<>>) = {}
  BY EmptyIsSequence, SmallRanges
<1>4. \A class : IsSequence(<<class>>) /\ ToSet(<<class>>) = {class}
  BY SingleFacts, SmallRanges
<1>5. IsSequence(<<"usecase", "in">>) /\ ToSet(<<"usecase", "in">>) = {"usecase", "in"}
  BY PairFacts
<1>6. \/ Classes(g, id) = <<>> \/ Classes(g, id) = <<PartClass(g, id)>> \/ Classes(g, id) = <<"value">>
      \/ Classes(g, id) = <<PortClass(g, id)>> \/ Classes(g, id) = <<"usecase", "in">>
  BY DEF Classes
<1> QED BY <1>1, <1>2, <1>3, <1>4, <1>5, <1>6

\* What an item is called is a sequence of words.
LEMMA ItemNames ==
  ASSUME NEW g, NEW id, NEW class
  PROVE  IsSequence(Item(g, id, class).name)
<1>1. \A name : IsSequence(SplitWords(name))
  BY EmptyIsSequence, WordsAssumption DEF SplitWords
<1>2. IsSequence(<<"x">>) /\ IsSequence(<<"use", "case">>)
  BY SingleFacts, PairFacts
<1>3. PICK name : name = NameOf(g.nodes[id])
  OBVIOUS
<1>4. IsSequence(name)
  BY <1>1, <1>2, <1>3 DEF NameOf, GoName
<1>5. PICK t : t = <<"use", "case">>
  OBVIOUS
<1>6. IsSequence(name \o t)
  BY <1>2, <1>4, <1>5, ConcatRange
<1>7. Item(g, id, class).name = name \/ Item(g, id, class).name = name \o t
  BY <1>3, <1>5 DEF Item
<1> QED BY <1>4, <1>6, <1>7

\* What an element adds to a context.
LEMMA ClassifiedFacts ==
  ASSUME NEW id
  PROVE  IsSequence(Classified(id)) /\ AreParts(Classified(id))
<1>1. PICK classes : classes = Classes(Graph, id)
  OBVIOUS
<1>2. PICK parts : parts = [i \in DOMAIN classes |-> Item(Graph, id, classes[i])]
  OBVIOUS
<1>3. Classified(id) = parts
  BY <1>1, <1>2 DEF Classified
<1>4. IsSequence(parts) /\ ToSet(parts) = {parts[i] : i \in DOMAIN classes}
  <2>1. parts = [i \in DOMAIN classes |-> parts[i]]
    BY <1>2
  <2> QED BY <1>1, <2>1, ClassesFacts, MadeFacts
<1>5. \A i \in DOMAIN classes : parts[i].class = classes[i]
  BY <1>2 DEF Item
<1>6. HavePorts(parts)
  <2> SUFFICES ASSUME NEW part \in ToSet(parts), part.class = "usecase"
               PROVE  \E port \in ToSet(parts) : port.class = "in"
    BY DEF HavePorts
  <2>1. "usecase" \in ToSet(classes)
    BY <1>4, <1>5 DEF ToSet
  <2>2. "in" \in ToSet(classes)
    BY <1>1, <2>1, ClassesFacts
  <2>3. PICK i \in DOMAIN classes : classes[i] = "in"
    BY <2>2 DEF ToSet
  <2> QED BY <1>4, <1>5, <2>3
<1>7. AreNamed(parts)
  <2>1. \A i \in DOMAIN classes : IsSequence(parts[i].name)
    BY <1>2, ItemNames
  <2> QED BY <1>4, <2>1 DEF AreNamed
<1> QED BY <1>3, <1>4, <1>6, <1>7 DEF AreParts

\* Sorting by name keeps what there is.
LEMMA SortedFacts ==
  ASSUME NEW parts, IsSequence(parts)
  PROVE  IsSequence(Sorted(parts)) /\ ToSet(Sorted(parts)) = ToSet(parts)
BY ArrangedFacts DEF Sorted

\* Elements come with what they need, and lists of them are only joined and sorted.
LEMMA FitStep == FitInv /\ [Next]_vars => FitInv'
<1> SUFFICES ASSUME FitInv, [Next]_vars
             PROVE  FitInv'
  OBVIOUS
<1> DEFINE Kept == UNCHANGED items /\ UNCHANGED contexts
           NotYet == status' # "rendered"
<1>1. CASE (Load /\ UNCHANGED buildVars) \/ (Apply /\ UNCHANGED <<loaderVars, buildVars>>)
  <2>1. Kept
    BY <1>1 DEF buildVars, mapVars
  <2>2. CASE Load
    <3>1. \A outcome, els : Returned(outcome, els) => status' = outcome
      BY DEF Returned
    <3>2. \A doc : Decode(doc) => NotYet
      BY <3>1 DEF Decode, Loaded, LoadFails
    <3> QED BY <2>1, <2>2, <3>1, <3>2, Zenon
            DEF FitInv, Load, ReadFile, LatestCommit, FetchPage, PageRepeats, RequestFails, Loaded, LoadFails, Loading
  <2>3. CASE Apply
    <3>1. NotYet
      <4>1. CASE UpdateElement \/ RemoveElement \/ CopyElement \/ NextAction
        BY <4>1 DEF UpdateElement, RemoveElement, CopyElement, NextAction, Doing
      <4>2. CASE ActionFails \/ ApplyDone
        BY <4>2 DEF ActionFails, ApplyDone
      <4> QED BY <2>3, <4>1, <4>2 DEF Apply
    <3> QED BY <2>1, <3>1 DEF FitInv
  <2> QED BY <1>1, <2>2, <2>3
<1>2. CASE IndexElements \/ (\E id \in unvisited : ResolveElement(id)) \/ BuildDone
  <2>1. Kept /\ NotYet
    <3>1. CASE IndexElements
      BY <3>1 DEF IndexElements, mapVars
    <3>2. CASE \E id \in unvisited : ResolveElement(id)
      BY <3>2 DEF ResolveElement, mapVars
    <3>3. CASE BuildDone
      BY <3>3 DEF BuildDone
    <3> QED BY <1>2, <3>1, <3>2, <3>3
  <2> QED BY <2>1 DEF FitInv
<1>3. CASE CollectContexts \/ VisitDescendant \/ Synthesize
  <2>1. Kept /\ NotYet
    <3>1. CASE CollectContexts
      BY <3>1, Zenon DEF CollectContexts, Calling
    <3>2. CASE VisitDescendant
      BY <3>2, Zenon DEF VisitDescendant, Calling
    <3>3. CASE Synthesize
      BY <3>3, Zenon DEF Synthesize
    <3> QED BY <1>3, <3>1, <3>2, <3>3
  <2> QED BY <2>1 DEF FitInv
<1>4. CASE ClassifyDescendant
  <2>1. PICK parts : parts = Classified(Head(list))
    OBVIOUS
  <2>2. items' = items \o parts /\ UNCHANGED contexts /\ NotYet
    BY <1>4, <2>1 DEF ClassifyDescendant, Calling
  <2>3. IsSequence(parts) /\ AreParts(parts)
    BY <2>1, ClassifiedFacts
  <2>4. IsSequence(items \o parts) /\ ToSet(items \o parts) = ToSet(items) \cup ToSet(parts)
    BY <2>3, ConcatRange DEF FitInv
  <2>5. IsSequence(items') /\ AreParts(items')
    BY <2>2, <2>3, <2>4 DEF FitInv, AreParts, HavePorts, AreNamed
  <2> QED BY <2>2, <2>5 DEF FitInv
<1>5. CASE CloseContext
  <2>1. items' = <<>> /\ NotYet
    BY <1>5 DEF CloseContext, Calling
  <2>2. IsSequence(<<>>) /\ AreParts(<<>>)
    BY EmptyIsSequence, SmallRanges DEF AreParts, HavePorts, AreNamed
  <2>3. CASE UNCHANGED contexts
    BY <2>1, <2>2, <2>3 DEF FitInv
  <2>4. CASE contexts' = Append(contexts, Context(Callee))
    <3>1. PICK c : c = Context(Callee)
      OBVIOUS
    <3>2. "items" \in DOMAIN c /\ c.items = items
      BY <3>1 DEF Context
    <3>3. IsSequence(Append(contexts, c)) /\ ToSet(Append(contexts, c)) = ToSet(contexts) \cup {c}
      <4>1. IsSequence(contexts)
        BY DEF FitInv, AreContexts
      <4>2. Append(contexts, c) = contexts \o <<c>>
        BY <4>1, AppendConcat
      <4>3. IsSequence(<<c>>) /\ ToSet(<<c>>) = {c}
        BY SingleFacts, SmallRanges
      <4> QED BY <4>1, <4>2, <4>3, ConcatRange
    <3> QED BY <2>1, <2>2, <2>4, <3>1, <3>2, <3>3 DEF FitInv, AreContexts
  <2> QED BY <1>5, <2>3, <2>4 DEF CloseContext
<1>6. CASE SortProject
  <2>1. PICK inner : inner = [i \in DOMAIN contexts |-> [contexts[i] EXCEPT !.items = Sorted(@)]]
    OBVIOUS
  <2>2. contexts' = Sorted(inner) /\ UNCHANGED items /\ NotYet
    BY <1>6, <2>1 DEF SortProject
  <2>3. IsSequence(contexts) /\ \A i \in DOMAIN contexts : contexts[i] \in ToSet(contexts)
    BY DEF FitInv, AreContexts, ToSet
  <2>4. IsSequence(inner) /\ ToSet(inner) = {inner[i] : i \in DOMAIN contexts}
    <3>1. inner = [i \in DOMAIN contexts |-> inner[i]]
      BY <2>1
    <3> QED BY <2>3, <3>1, MadeFacts
  <2>5. IsSequence(contexts') /\ ToSet(contexts') = ToSet(inner)
    BY <2>2, <2>4, SortedFacts
  <2>6. ASSUME NEW i \in DOMAIN contexts
        PROVE  "items" \in DOMAIN inner[i] /\ IsSequence(inner[i].items) /\ AreParts(inner[i].items)
    <3>1. PICK c : c = contexts[i]
      OBVIOUS
    <3>2. "items" \in DOMAIN c /\ IsSequence(c.items) /\ AreParts(c.items)
      BY <2>3, <3>1 DEF FitInv, AreContexts
    <3>3. inner[i] = [c EXCEPT !.items = Sorted(c.items)]
      BY <2>1, <3>1
    <3>4. "items" \in DOMAIN inner[i] /\ inner[i].items = Sorted(c.items)
      BY <3>2, <3>3
    <3> QED BY <3>2, <3>4, SortedFacts DEF AreParts, HavePorts, AreNamed
  <2>7. \A c \in ToSet(contexts') : "items" \in DOMAIN c /\ IsSequence(c.items) /\ AreParts(c.items)
    BY <2>4, <2>5, <2>6
  <2> QED BY <2>2, <2>5, <2>7 DEF FitInv, AreContexts
<1>7. CASE RenderProject
  <2>1. UNCHANGED items /\ UNCHANGED contexts /\ UNCHANGED Configured /\ status = "done"
    <3>1. UNCHANGED items /\ UNCHANGED contexts /\ UNCHANGED source /\ UNCHANGED requests /\ status = "done"
      BY <1>7 DEF RenderProject, inputVars, loaderVars, mapVars
    <3> QED BY <3>1 DEF Configured, Registered
  <2>2. PICK o \in Configured :
          /\ options' = o
          /\ IF RenderFails(contexts, o)
               THEN status' = "failed" /\ UNCHANGED files
               ELSE /\ status' = "rendered"
                    /\ \E unsorted \in {FilesOf(contexts, o)} : files' = ByPath(unsorted)
    BY <1>7 DEF RenderProject
  <2>3. status' = "rendered" => ~RenderFails(contexts, o) /\ files' = Render(contexts, o)
    BY <2>2 DEF Render
  <2> QED BY <2>1, <2>2, <2>3 DEF FitInv
<1>8. CASE UNCHANGED vars
  <2>1. /\ UNCHANGED items /\ UNCHANGED contexts /\ UNCHANGED status /\ UNCHANGED source
        /\ UNCHANGED requests /\ UNCHANGED options /\ UNCHANGED files
    BY <1>8 DEF vars, buildVars, mapVars, renderVars, inputVars, loaderVars
  <2>2. UNCHANGED Configured
    BY <2>1 DEF Configured, Registered
  <2> QED BY <2>1, <2>2 DEF FitInv
<1> QED BY <1>1, <1>2, <1>3, <1>4, <1>5, <1>6, <1>7, <1>8 DEF Next

-----------------------------------------------------------------------------
(***************************************************************************)
(* Owners: while children are resolved, an element is owned by one of its  *)
(* containers that has been visited, if there is one, and the fields of    *)
(* what is in contexts are those that the owners give.                     *)
(***************************************************************************)
OwnedAsVisited ==
  /\ unvisited \subseteq DOMAIN nodes
  /\ owner = [id \in DOMAIN nodes |-> owner[id]]
  /\ \A id \in DOMAIN nodes :
       \/ owner[id] \in Containers(id) \ unvisited
       \/ owner[id] = None /\ Containers(id) \subseteq unvisited

HaveFields(parts) ==
  \A item \in ToSet(parts) : item.fields # <<>> => item.fields = BuildFields(Graph, item.of)

StableInv ==
  /\ status \in {"resolve", "map", "default", "done", "rendered"} => OwnedAsVisited
  /\ status \in {"map", "default", "done", "rendered"} => unvisited = {}
  /\ status \in {"load", "overlay", "index", "resolve"} => items = <<>> /\ contexts = <<>>
  /\ HaveFields(items) /\ \A c \in ToSet(contexts) : HaveFields(c.items)

LEMMA NoFields == HaveFields(<<>>) /\ \A c \in ToSet(<<>>) : HaveFields(c.items)
BY SmallRanges DEF HaveFields

LEMMA StableInit == Init => StableInv
<1> SUFFICES ASSUME Init
             PROVE  StableInv
  OBVIOUS
<1>1. items = <<>> /\ contexts = <<>> /\ status = "load"
  BY DEF Init, LoaderInit
<1> QED BY <1>1, NoFields DEF StableInv

\* When all have been visited, and no element stands in two, owners are containers.
LEMMA VisitedIsContainment ==
  ASSUME OwnedAsVisited, unvisited = {}, IsForest
  PROVE  ByContainment = Graph
<1>1. PICK o : o = [id \in DOMAIN nodes |-> CHOOSE p \in DOMAIN nodes \cup {None} :
                      IF Containers(id) = {} THEN p = None ELSE p \in Containers(id)]
  OBVIOUS
<1>2. ASSUME NEW id \in DOMAIN nodes
      PROVE  o[id] = owner[id]
  <2>1. o[id] = CHOOSE p \in DOMAIN nodes \cup {None} :
                  IF Containers(id) = {} THEN p = None ELSE p \in Containers(id)
    BY <1>1
  <2>2. CASE Containers(id) = {}
    BY <2>1, <2>2 DEF OwnedAsVisited
  <2>3. CASE Containers(id) # {}
    <3>1. owner[id] \in Containers(id) /\ owner[id] \in DOMAIN nodes
      BY <2>3 DEF OwnedAsVisited, Containers
    <3>2. \A p \in Containers(id) : p = owner[id]
      BY <3>1 DEF IsForest
    <3> QED BY <2>1, <2>3, <3>1, <3>2
  <2> QED BY <2>2, <2>3
<1>3. o = owner
  BY <1>1, <1>2 DEF OwnedAsVisited
<1>4. ByContainment = [Graph EXCEPT !.owner = o]
  BY <1>1 DEF ByContainment
<1> QED BY <1>3, <1>4 DEF Graph

\* What an element is made of.
LEMMA ClassifiedFields ==
  ASSUME NEW id
  PROVE  HaveFields(Classified(id))
<1>1. PICK classes : classes = Classes(Graph, id)
  OBVIOUS
<1>2. PICK parts : parts = [i \in DOMAIN classes |-> Item(Graph, id, classes[i])]
  OBVIOUS
<1>3. Classified(id) = parts
  BY <1>1, <1>2 DEF Classified
<1>4. ToSet(parts) = {parts[i] : i \in DOMAIN classes}
  <2>1. parts = [i \in DOMAIN classes |-> parts[i]]
    BY <1>2
  <2> QED BY <1>1, <2>1, ClassesFacts, MadeFacts
<1>5. \A i \in DOMAIN classes : parts[i].of = id /\ (parts[i].fields = <<>> \/ parts[i].fields = BuildFields(Graph, id))
  BY <1>2 DEF Item
<1> QED BY <1>3, <1>4, <1>5 DEF HaveFields

LEMMA StableStep == FitInv /\ StableInv /\ [Next]_vars => StableInv'
<1> SUFFICES ASSUME FitInv, StableInv, [Next]_vars
             PROVE  StableInv'
  OBVIOUS
<1> DEFINE Kept == UNCHANGED <<items, contexts>>
           GraphKept == UNCHANGED <<nodes, objects, owner>>
           Before == {"load", "overlay", "index", "resolve"}
<1>1. ASSUME Kept, items = <<>> /\ contexts = <<>>
      PROVE  /\ items' = <<>> /\ contexts' = <<>>
             /\ HaveFields(items)' /\ (\A c \in ToSet(contexts) : HaveFields(c.items))'
  BY <1>1, SmallRanges DEF HaveFields
<1>2. ASSUME GraphKept, UNCHANGED unvisited
      PROVE  Graph' = Graph /\ (OwnedAsVisited => OwnedAsVisited')
  BY <1>2 DEF Graph, OwnedAsVisited, Containers
<1>3. ASSUME Graph' = Graph, NEW parts, HaveFields(parts)
      PROVE  HaveFields(parts)'
  BY <1>3 DEF HaveFields
<1>4. CASE (Load /\ UNCHANGED buildVars) \/ (Apply /\ UNCHANGED <<loaderVars, buildVars>>)
  <2>1. Kept
    BY <1>4 DEF buildVars, mapVars
  <2>2. status \in {"load", "overlay"} /\ status' \in {"load", "overlay", "index", "failed"}
    <3>1. CASE Load
      <4>1. \A outcome, els : Returned(outcome, els) => status' = outcome
        BY DEF Returned
      <4>2. \A doc : Decode(doc) => status' \in {"overlay", "failed"}
        BY <4>1 DEF Decode, Loaded, LoadFails
      <4> QED BY <3>1, <4>1, <4>2, Zenon
              DEF Load, ReadFile, LatestCommit, FetchPage, PageRepeats, RequestFails, Loaded, LoadFails, Loading
    <3>2. CASE Apply
      <4>1. CASE UpdateElement \/ RemoveElement \/ CopyElement \/ NextAction
        BY <4>1 DEF UpdateElement, RemoveElement, CopyElement, NextAction, Doing
      <4>2. CASE ActionFails \/ ApplyDone
        BY <4>2 DEF ActionFails, ApplyDone, Doing
      <4> QED BY <3>2, <4>1, <4>2 DEF Apply
    <3> QED BY <1>4, <3>1, <3>2
  <2> QED BY <1>1, <2>1, <2>2 DEF StableInv
<1>5. CASE IndexElements
  <2>1. status = "index" /\ Kept /\ UNCHANGED objects
    BY <1>5 DEF IndexElements, mapVars, inputVars, overlayVars
  <2>2. /\ items = <<>> /\ contexts = <<>>
        /\ items' = <<>> /\ contexts' = <<>>
        /\ HaveFields(items)' /\ (\A c \in ToSet(contexts) : HaveFields(c.items))'
    BY <1>1, <2>1 DEF StableInv
  <2>3. status' = "resolve" => OwnedAsVisited'
    <3> SUFFICES ASSUME status' = "resolve"
                 PROVE  OwnedAsVisited'
      OBVIOUS
    <3>1. PICK indexed : /\ indexed = [id \in IDs |-> elements[CHOOSE i \in WithID(id) : TRUE]]
                         /\ nodes' = indexed
                         /\ unvisited' = {id \in IDs : ResolveChildren(indexed, objects, id) # <<>>}
                         /\ owner' = [id \in IDs |-> None]
      BY <1>5 DEF IndexElements
    <3>2. DOMAIN nodes' = IDs
      BY <3>1
    <3>3. ASSUME NEW id \in IDs, NEW p \in Containers(id)'
          PROVE  p \in unvisited'
      <4>1. p \in IDs /\ id \in ToSet(ResolveChildren(indexed, objects, p))
        BY <2>1, <3>1, <3>2, <3>3 DEF Containers, Owned, Graph
      <4> QED BY <3>1, <4>1, SmallRanges
    <3> QED BY <3>1, <3>2, <3>3 DEF OwnedAsVisited
  <2>4. status' \in {"resolve", "failed"}
    BY <1>5 DEF IndexElements
  <2> QED BY <2>2, <2>3, <2>4 DEF StableInv
<1>6. ASSUME NEW id \in unvisited, ResolveElement(id)
      PROVE  StableInv'
  <2>1. PICK children : children = ToSet(Owned(Graph, id))
    OBVIOUS
  <2>2. /\ status = "resolve" /\ status' = "resolve" /\ Kept /\ UNCHANGED <<objects, nodes>>
        /\ owner' = [c \in DOMAIN nodes |-> IF c \in children THEN id ELSE owner[c]]
        /\ unvisited' = unvisited \ {id}
    BY <1>6, <2>1 DEF ResolveElement, mapVars, inputVars, overlayVars
  <2>3. OwnedAsVisited /\ items = <<>> /\ contexts = <<>>
    BY <2>2 DEF StableInv
  <2>4. \A c : Containers(c)' = Containers(c)
    BY <2>2 DEF Containers, Owned, Graph
  <2>5. id \in DOMAIN nodes
    BY <2>3 DEF OwnedAsVisited
  <2>6. ASSUME NEW c \in DOMAIN nodes
        PROVE  owner'[c] \in Containers(c) \ unvisited' \/ (owner'[c] = None /\ Containers(c) \subseteq unvisited')
    <3>1. PICK those, before, after, o, p :
            those = Containers(c) /\ before = unvisited /\ after = unvisited' /\ o = owner[c] /\ p = owner'[c]
      OBVIOUS
    <3>2. c \in children <=> id \in those
      BY <2>1, <2>5, <3>1 DEF Containers
    <3>3. after = before \ {id} /\ p = IF c \in children THEN id ELSE o
      BY <2>2, <3>1
    <3>4. o \in those \ before \/ (o = None /\ those \subseteq before)
      BY <2>3, <3>1 DEF OwnedAsVisited
    <3>5. p \in those \ after \/ (p = None /\ those \subseteq after)
      BY <3>2, <3>3, <3>4
    <3> QED BY <3>1, <3>5
  <2>7. OwnedAsVisited'
    <3>1. unvisited' \subseteq DOMAIN nodes' /\ owner' = [c \in DOMAIN nodes' |-> owner'[c]]
      BY <2>2, <2>3 DEF OwnedAsVisited
    <3>2. \A c \in DOMAIN nodes' :
            owner'[c] \in Containers(c)' \ unvisited' \/ (owner'[c] = None /\ Containers(c)' \subseteq unvisited')
      BY <2>2, <2>4, <2>6
    <3> QED BY <3>1, <3>2 DEF OwnedAsVisited
  <2> QED BY <1>1, <2>2, <2>3, <2>7 DEF StableInv
<1>7. CASE BuildDone \/ CollectContexts \/ VisitDescendant \/ Synthesize
  <2>1. /\ Kept /\ GraphKept /\ UNCHANGED unvisited
        /\ \/ status = "resolve" /\ unvisited = {} /\ status' = "map"
           \/ status \in {"map", "default"} /\ status' \in {"map", "default"}
    <3>1. CASE BuildDone
      BY <3>1 DEF BuildDone, graphVars, inputVars, overlayVars
    <3>2. CASE CollectContexts
      BY <3>2, Zenon DEF CollectContexts, Calling, graphVars, inputVars, overlayVars
    <3>3. CASE VisitDescendant
      BY <3>3, Zenon DEF VisitDescendant, Calling, graphVars, inputVars, overlayVars
    <3>4. CASE Synthesize
      BY <3>4, Zenon DEF Synthesize, graphVars, inputVars, overlayVars
    <3> QED BY <1>7, <3>1, <3>2, <3>3, <3>4
  <2>2. HaveFields(items)' /\ (\A c \in ToSet(contexts) : HaveFields(c.items))'
    BY <1>2, <1>3, <2>1 DEF StableInv
  <2> QED BY <1>2, <2>1, <2>2 DEF StableInv
<1>8. CASE ClassifyDescendant
  <2>1. PICK parts : parts = Classified(Head(list))
    OBVIOUS
  <2>2. /\ items' = items \o parts /\ UNCHANGED contexts /\ GraphKept /\ UNCHANGED unvisited
        /\ UNCHANGED status /\ status \in {"map", "default"}
    BY <1>8, <2>1 DEF ClassifyDescendant, Calling, graphVars, inputVars, overlayVars
  <2>3. IsSequence(parts) /\ HaveFields(parts)
    BY <2>1, ClassifiedFacts, ClassifiedFields
  <2>4. ToSet(items \o parts) = ToSet(items) \cup ToSet(parts)
    BY <2>3, ConcatRange DEF FitInv
  <2>5. Graph' = Graph
    BY <1>2, <2>2
  <2>6. HaveFields(items)'
    BY <2>2, <2>3, <2>4, <2>5 DEF StableInv, HaveFields
  <2>7. (\A c \in ToSet(contexts) : HaveFields(c.items))'
    BY <1>3, <2>2, <2>5 DEF StableInv
  <2> QED BY <1>2, <2>2, <2>6, <2>7 DEF StableInv
<1>9. CASE CloseContext
  <2>1. /\ items' = <<>> /\ GraphKept /\ UNCHANGED unvisited /\ UNCHANGED status /\ status \in {"map", "default"}
        /\ contexts' = contexts \/ contexts' = Append(contexts, Context(Callee))
    BY <1>9 DEF CloseContext, Calling, graphVars, inputVars, overlayVars
  <2>2. Graph' = Graph
    BY <1>2, <2>1
  <2>3. HaveFields(items)'
    BY <2>1, SmallRanges DEF HaveFields
  <2>4. \A c \in ToSet(contexts) : HaveFields(c.items)'
    BY <1>3, <2>2 DEF StableInv
  <2>5. CASE contexts' = Append(contexts, Context(Callee))
    <3>1. PICK c : c = Context(Callee)
      OBVIOUS
    <3>2. c.items = items
      BY <3>1 DEF Context
    <3>3. HaveFields(c.items)'
      BY <1>3, <2>2, <3>2 DEF StableInv
    <3>4. ToSet(Append(contexts, c)) = ToSet(contexts) \cup {c}
      <4>1. IsSequence(contexts)
        BY DEF FitInv, AreContexts
      <4>2. Append(contexts, c) = contexts \o <<c>>
        BY <4>1, AppendConcat
      <4>3. IsSequence(<<c>>) /\ ToSet(<<c>>) = {c}
        BY SingleFacts, SmallRanges
      <4> QED BY <4>1, <4>2, <4>3, ConcatRange
    <3>5. \A d \in ToSet(contexts') : HaveFields(d.items)'
      BY <2>4, <2>5, <3>1, <3>3, <3>4
    <3> QED BY <1>2, <2>1, <2>3, <3>5 DEF StableInv
  <2>6. CASE contexts' = contexts
    BY <1>2, <2>1, <2>3, <2>4, <2>6 DEF StableInv
  <2> QED BY <2>1, <2>5, <2>6
<1>10. CASE SortProject
  <2>1. PICK inner : inner = [i \in DOMAIN contexts |-> [contexts[i] EXCEPT !.items = Sorted(@)]]
    OBVIOUS
  <2>2. /\ contexts' = Sorted(inner) /\ UNCHANGED items /\ GraphKept /\ UNCHANGED unvisited
        /\ status \in {"map", "default"} /\ status' = "done"
    BY <1>10, <2>1 DEF SortProject, graphVars, inputVars, overlayVars
  <2>3. IsSequence(contexts) /\ \A i \in DOMAIN contexts : contexts[i] \in ToSet(contexts)
    BY DEF FitInv, AreContexts, ToSet
  <2>4. IsSequence(inner) /\ ToSet(inner) = {inner[i] : i \in DOMAIN contexts}
    <3>1. inner = [i \in DOMAIN contexts |-> inner[i]]
      BY <2>1
    <3> QED BY <2>3, <3>1, MadeFacts
  <2>5. ToSet(contexts') = ToSet(inner)
    BY <2>2, <2>4, SortedFacts
  <2>6. ASSUME NEW i \in DOMAIN contexts
        PROVE  HaveFields(inner[i].items)
    <3>1. PICK c : c = contexts[i]
      OBVIOUS
    <3>2. "items" \in DOMAIN c /\ IsSequence(c.items) /\ HaveFields(c.items)
      BY <2>3, <3>1 DEF FitInv, AreContexts, StableInv
    <3>3. inner[i] = [c EXCEPT !.items = Sorted(c.items)]
      BY <2>1, <3>1
    <3>4. inner[i].items = Sorted(c.items)
      BY <3>2, <3>3
    <3> QED BY <3>2, <3>4, SortedFacts DEF HaveFields
  <2>7. Graph' = Graph
    BY <1>2, <2>2
  <2>8. \A c \in ToSet(contexts') : HaveFields(c.items)'
    BY <1>3, <2>4, <2>5, <2>6, <2>7
  <2>9. HaveFields(items)'
    BY <1>3, <2>2, <2>7 DEF StableInv
  <2> QED BY <1>2, <2>2, <2>8, <2>9 DEF StableInv
<1>11. CASE RenderProject \/ UNCHANGED vars
  <2>1. /\ Kept /\ GraphKept /\ UNCHANGED unvisited
        /\ status' = status \/ (status = "done" /\ status' \in {"rendered", "failed"})
    <3>1. CASE RenderProject
      BY <3>1 DEF RenderProject, graphVars, inputVars, overlayVars, mapVars
    <3>2. CASE UNCHANGED vars
      BY <3>2 DEF vars, buildVars, graphVars, inputVars, overlayVars, mapVars
    <3> QED BY <1>11, <3>1, <3>2
  <2>2. HaveFields(items)' /\ (\A c \in ToSet(contexts) : HaveFields(c.items))'
    BY <1>2, <1>3, <2>1 DEF StableInv
  <2> QED BY <1>2, <2>1, <2>2 DEF StableInv
<1> QED BY <1>4, <1>5, <1>6, <1>7, <1>8, <1>9, <1>10, <1>11 DEF Next

(***************************************************************************)
(* The order in which Build visits the elements, that of a Go map, does    *)
(* not matter for what is generated: for every model and overlay, unless   *)
(* an element stands in two others, the fields of all that is generated    *)
(* are those that containment gives.  OwnedAsVisited says what holds while *)
(* some have been visited and others have not.                             *)
(***************************************************************************)
THEOREM OutputStable == Spec => []OutputIsStable
<1>1. FitInv /\ StableInv => OutputIsStable
  <2> SUFFICES ASSUME FitInv, StableInv, status = "done", IsForest,
                      NEW i \in DOMAIN contexts, NEW j \in DOMAIN contexts[i].items,
                      contexts[i].items[j].fields # <<>>
               PROVE  contexts[i].items[j].fields = BuildFields(ByContainment, contexts[i].items[j].of)
    BY DEF OutputIsStable
  <2>1. HaveFields(contexts[i].items)
    BY DEF StableInv, ToSet
  <2>2. contexts[i].items[j] \in ToSet(contexts[i].items)
    BY DEF ToSet
  <2>3. ByContainment = Graph
    BY VisitedIsContainment DEF StableInv
  <2> QED BY <2>1, <2>2, <2>3 DEF HaveFields
<1>2. FitInv /\ StableInv /\ [Next]_vars => (FitInv /\ StableInv)'
  BY FitStep, StableStep
<1> QED BY <1>1, <1>2, FitInit, StableInit, PTL DEF Spec

-----------------------------------------------------------------------------
(***************************************************************************)
(* Files that keep apart: no two of a list have one path, and none of a    *)
(* list has the path of one in another.                                    *)
(***************************************************************************)
PathsDiffer(s) == \A i, j \in DOMAIN s : s[i].path = s[j].path => i = j
NoneShared(s, t) == \A f \in ToSet(s), g \in ToSet(t) : f.path # g.path

\* None, or one.
LEMMA FewDiffer ==
  ASSUME NEW f
  PROVE  PathsDiffer(<<>>) /\ PathsDiffer(<<f>>)
BY EmptyIsSequence, SingleFacts DEF PathsDiffer

\* A list that is made or is not.
LEMMA IfDiffers ==
  ASSUME NEW condition, NEW s, PathsDiffer(s)
  PROVE  PathsDiffer(If(condition, s))
BY FewDiffer DEF If

\* One list after another.
LEMMA ConcatDiffer ==
  ASSUME NEW s, NEW t, IsSequence(s), IsSequence(t), PathsDiffer(s), PathsDiffer(t), NoneShared(s, t)
  PROVE  IsSequence(s \o t) /\ ToSet(s \o t) = ToSet(s) \cup ToSet(t) /\ PathsDiffer(s \o t)
<1>1. PICK n, m : n = Len(s) /\ m = Len(t)
  OBVIOUS
<1>2. n \in Nat /\ m \in Nat /\ DOMAIN s = 1 .. n /\ DOMAIN t = 1 .. m
  BY <1>1, SequenceFacts
<1>3. PICK u : u = s \o t
  OBVIOUS
<1>4. IsSequence(u) /\ Len(u) = n + m /\ \A i \in 1 .. n + m : u[i] = IF i <= n THEN s[i] ELSE t[i - n]
  BY <1>1, <1>3, ConcatFacts
<1>5. DOMAIN u = 1 .. n + m
  BY <1>4, SequenceFacts
<1>6. \A i \in 1 .. n + m : IF i <= n THEN i \in 1 .. n /\ u[i] = s[i] ELSE i - n \in 1 .. m /\ u[i] = t[i - n]
  BY <1>2, <1>4
<1>7. \A i \in 1 .. n : \A j \in 1 .. m : s[i].path # t[j].path
  BY <1>2 DEF NoneShared, ToSet
<1>8. PathsDiffer(u)
  <2> SUFFICES ASSUME NEW i \in 1 .. n + m, NEW j \in 1 .. n + m, u[i].path = u[j].path
               PROVE  i = j
    BY <1>5 DEF PathsDiffer
  <2>1. CASE i <= n /\ j <= n
    BY <1>2, <1>6, <2>1 DEF PathsDiffer
  <2>2. CASE ~(i <= n) /\ ~(j <= n)
    <3>1. i - n \in 1 .. m /\ j - n \in 1 .. m /\ t[i - n].path = t[j - n].path
      BY <1>6, <2>2
    <3>2. i - n = j - n
      BY <1>2, <3>1 DEF PathsDiffer
    <3> QED BY <1>2, <3>2
  <2>3. CASE i <= n /\ ~(j <= n)
    BY <1>6, <1>7, <2>3
  <2>4. CASE ~(i <= n) /\ j <= n
    BY <1>6, <1>7, <2>4
  <2> QED BY <2>1, <2>2, <2>3, <2>4
<1> QED BY <1>3, <1>8, ConcatRange

\* Several lists, one after the other.
LEMMA FlattenDiffer ==
  ASSUME NEW ss, IsSequence(ss), \A i \in DOMAIN ss : IsSequence(ss[i]) /\ PathsDiffer(ss[i]),
         \A i, j \in DOMAIN ss : i # j => NoneShared(ss[i], ss[j])
  PROVE  PathsDiffer(FlattenSeq(ss))
<1>1. DOMAIN ss = 1 .. Len(ss)
  BY SequenceFacts
<1>2. PICK F : F = FlattenSeq(ss)
  OBVIOUS
<1>3. IsSequence(F) /\ Len(F) \in Nat /\ DOMAIN F = 1 .. Len(F)
  BY <1>2, FlattenIsSequence, SequenceFacts
<1>4. PICK b, o : FlattenedBy(F, ss, b, o)
  BY <1>2, FlattenBlocks
<1>5. \A p \in DOMAIN F : b[p] \in DOMAIN ss /\ o[p] \in 1 .. Len(ss[b[p]]) /\ F[p] = ss[b[p]][o[p]]
  BY <1>1, <1>3, <1>4 DEF FlattenedBy
<1>6. ASSUME NEW p \in DOMAIN F, NEW q \in DOMAIN F, F[p].path = F[q].path
      PROVE  p = q
  <2>1. PICK i \in DOMAIN ss, j \in DOMAIN ss : i = b[p] /\ j = b[q]
    BY <1>5
  <2>2. DOMAIN ss[i] = 1 .. Len(ss[i]) /\ DOMAIN ss[j] = 1 .. Len(ss[j])
    BY SequenceFacts
  <2>3. o[p] \in DOMAIN ss[i] /\ o[q] \in DOMAIN ss[j] /\ F[p] = ss[i][o[p]] /\ F[q] = ss[j][o[q]]
    BY <1>5, <2>1, <2>2
  <2>4. i = j
    <3> SUFFICES ASSUME i # j
                 PROVE  FALSE
      OBVIOUS
    <3>1. F[p] \in ToSet(ss[i]) /\ F[q] \in ToSet(ss[j])
      BY <2>3 DEF ToSet
    <3> QED BY <1>6, <3>1 DEF NoneShared
  <2>5. o[p] = o[q]
    BY <1>6, <2>3, <2>4 DEF PathsDiffer
  <2>6. b[p] = b[q] /\ p \in 1 .. Len(F) /\ q \in 1 .. Len(F)
    BY <1>3, <2>1, <2>4
  <2> QED BY <1>3, <1>4, <2>5, <2>6, FlattenOrder
<1> QED BY <1>2, <1>6 DEF PathsDiffer

\* In whatever order.
LEMMA ArrangedDiffer ==
  ASSUME NEW s, NEW before, IsSequence(s), PathsDiffer(s)
  PROVE  PathsDiffer(Arranged(s, before))
<1>1. PICK e : /\ \A p \in DOMAIN s : e[p] \in DOMAIN s /\ Arranged(s, before)[p] = s[e[p]]
               /\ \A p, q \in DOMAIN s : e[p] = e[q] => p = q
  BY ArrangedEmbeds
<1>2. DOMAIN Arranged(s, before) = DOMAIN s
  BY ArrangedFacts, SequenceFacts
<1> QED BY <1>1, <1>2 DEF PathsDiffer

\* Names that differ still do where only some classes are listed.
LEMMA ListedNames ==
  ASSUME NEW c, NEW classes, NEW those, IsSequence(c.items), those = OfClass(c, classes), NamesDiffer(c, classes)
  PROVE  \A i, j \in DOMAIN those : those[i].name = those[j].name => i = j
<1>1. PICK S : S = {item \in ToSet(c.items) : item.class \in classes}
  OBVIOUS
<1>2. those = Only(c.items, S)
  BY <1>1 DEF OfClass
<1>3. PICK e : /\ \A p \in DOMAIN those : e[p] \in DOMAIN c.items /\ those[p] = c.items[e[p]] /\ c.items[e[p]] \in S
               /\ \A p, q \in DOMAIN those : e[p] = e[q] => p = q
  BY <1>2, OnlyEmbeds
<1>4. \A p \in DOMAIN those : c.items[e[p]].class \in classes
  BY <1>1, <1>3
<1>5. \A p, q \in DOMAIN those : c.items[e[p]].name = c.items[e[q]].name => e[p] = e[q]
  BY <1>3, <1>4 DEF NamesDiffer
<1> QED BY <1>3, <1>5

\* And items of one name are one.
LEMMA OneOfName ==
  ASSUME NEW c, NEW classes, NamesDiffer(c, classes),
         NEW v \in ToSet(c.items), NEW w \in ToSet(c.items), v.class \in classes, w.class \in classes, v.name = w.name
  PROVE  v = w
BY DEF NamesDiffer, ToSet

\* What every directory of a context begins with.
IsOf(c, dir) == Len(dir) \in Nat /\ Len(dir) >= 2 /\ dir[1] = "internal" /\ dir[2] = Slug(c.name)

\* The directory of a context.
LEMMA RootFacts ==
  ASSUME NEW c
  PROVE  IsSequence(Root(c)) /\ Len(Root(c)) = 2 /\ Root(c)[1] = "internal" /\ Root(c)[2] = Slug(c.name)
<1>1. Root(c) \in Seq({"internal", Slug(c.name)}) /\ Len(Root(c)) = 2
  BY DEF Root
<1>2. Root(c)[1] = "internal" /\ Root(c)[2] = Slug(c.name)
  BY DEF Root
<1> QED BY <1>1, <1>2, SeqIsSequence

\* A directory under the root.
LEMMA UnderTheRoot ==
  ASSUME NEW c, NEW t, IsSequence(t), t # <<>>
  PROVE  /\ IsOf(c, Root(c) \o t) /\ IsSequence(Root(c) \o t) /\ Len(Root(c) \o t) = Len(t) + 2
         /\ \A i \in 1 .. Len(t) : (Root(c) \o t)[i + 2] = t[i]
<1>1. PICK root, dir : root = Root(c) /\ dir = Root(c) \o t
  OBVIOUS
<1>2. Len(t) \in Nat /\ Len(t) >= 1
  BY SequenceFacts, EmptyIsSequence, OnlyEmpty
<1>3. IsSequence(root) /\ Len(root) = 2 /\ root[1] = "internal" /\ root[2] = Slug(c.name)
  BY <1>1, RootFacts
<1>4. /\ IsSequence(dir) /\ Len(dir) = 2 + Len(t)
      /\ \A i \in 1 .. 2 + Len(t) : dir[i] = IF i <= 2 THEN root[i] ELSE t[i - 2]
  <2>1. /\ IsSequence(dir) /\ Len(dir) = Len(root) + Len(t)
        /\ \A i \in 1 .. Len(root) + Len(t) : dir[i] = IF i <= Len(root) THEN root[i] ELSE t[i - Len(root)]
    BY <1>1, <1>3, ConcatFacts
  <2> QED BY <1>3, <2>1
<1>5. dir[1] = "internal" /\ dir[2] = Slug(c.name)
  <2>1. 1 \in 1 .. 2 + Len(t) /\ 2 \in 1 .. 2 + Len(t)
    BY <1>2
  <2> QED BY <1>3, <1>4, <2>1
<1>6. ASSUME NEW i \in 1 .. Len(t)
      PROVE  dir[i + 2] = t[i]
  <2>1. i + 2 \in 1 .. 2 + Len(t) /\ ~(i + 2 <= 2) /\ i + 2 - 2 = i
    BY <1>2
  <2> QED BY <1>4, <2>1
<1>7. Len(dir) \in Nat /\ Len(dir) >= 2 /\ Len(dir) = Len(t) + 2
  BY <1>2, <1>4
<1> QED BY <1>1, <1>4, <1>5, <1>6, <1>7 DEF IsOf

\* A directory of adapters.
LEMMA AdapterDirFacts ==
  ASSUME NEW c, NEW v, NEW w
  PROVE  /\ IsOf(c, Adapters(c, <<v, w>>)) /\ IsSequence(Adapters(c, <<v, w>>)) /\ Len(Adapters(c, <<v, w>>)) = 5
         /\ Adapters(c, <<v, w>>)[3] = "adapter" /\ Adapters(c, <<v, w>>)[4] = v
<1>1. PICK s, t : s = <<"adapter">> /\ t = <<v, w>>
  OBVIOUS
<1>2. IsSequence(s) /\ s # <<>> /\ Len(s) = 1 /\ s[1] = "adapter"
  BY <1>1, SingleFacts, EmptyIsSequence
<1>3. IsSequence(t) /\ Len(t) = 2 /\ t[1] = v
  BY <1>1, PairFacts
<1>4. PICK u : u = s \o t
  OBVIOUS
<1>5. IsSequence(u) /\ Len(u) = 3 /\ u[1] = "adapter" /\ u[2] = v /\ u # <<>>
  <2>1. /\ IsSequence(u) /\ Len(u) = Len(s) + Len(t)
        /\ \A i \in 1 .. Len(s) + Len(t) : u[i] = IF i <= Len(s) THEN s[i] ELSE t[i - Len(s)]
    BY <1>2, <1>3, <1>4, ConcatFacts
  <2>2. IsSequence(u) /\ Len(u) = 1 + 2 /\ \A i \in 1 .. 1 + 2 : u[i] = IF i <= 1 THEN s[i] ELSE t[i - 1]
    BY <1>2, <1>3, <2>1
  <2>3. u[1] = s[1] /\ u[2] = t[1]
    BY <2>2
  <2> QED BY <1>2, <1>3, <2>2, <2>3, EmptyIsSequence
<1>6. PICK root : root = Root(c) /\ IsSequence(root)
  BY RootFacts
<1>7. (root \o s) \o t = root \o u
  BY <1>2, <1>3, <1>4, <1>6, ConcatAssociates
<1>8. Adapters(c, <<v, w>>) = root \o u
  BY <1>1, <1>6, <1>7 DEF Adapters
<1>9. PICK dir : dir = root \o u
  OBVIOUS
<1>10. IsOf(c, dir) /\ IsSequence(dir) /\ Len(dir) = Len(u) + 2 /\ \A i \in 1 .. Len(u) : dir[i + 2] = u[i]
  <2>1. IsSequence(u) /\ u # <<>>
    BY <1>5
  <2>2. /\ IsOf(c, Root(c) \o u) /\ IsSequence(Root(c) \o u) /\ Len(Root(c) \o u) = Len(u) + 2
        /\ \A i \in 1 .. Len(u) : (Root(c) \o u)[i + 2] = u[i]
    BY <2>1, UnderTheRoot, Zenon
  <2>3. dir = Root(c) \o u
    BY <1>6, <1>9
  <2> QED BY <2>2, <2>3
<1>11. dir[1 + 2] = u[1] /\ dir[2 + 2] = u[2]
  BY <1>5, <1>10
<1>12. 1 + 2 = 3 /\ 2 + 2 = 4
  OBVIOUS
<1>13. dir[3] = u[1] /\ dir[4] = u[2]
  BY <1>11, <1>12
<1>14. Len(dir) = 5
  BY <1>5, <1>10
<1> QED BY <1>5, <1>8, <1>9, <1>10, <1>13, <1>14

\* The directories of a context are its own, and those of the application differ.
LEMMA DirsOfContext ==
  ASSUME NEW c, NEW o, DirsOf(o)
  PROVE  /\ IsOf(c, Root(c)) /\ \A dir \in PortDirs(c, o) \cup AppDirs(c) : IsOf(c, dir) /\ dir # Root(c)
         /\ \A kind : UseCases(c) # Adapters(c, <<"out", kind>>) /\ Handlers(c) # Adapters(c, <<"out", kind>>)
         /\ UseCases(c) # Handlers(c)
<1>1. IsOf(c, Root(c))
  <2>1. 2 \in Nat /\ 2 >= 2
    OBVIOUS
  <2> QED BY <2>1, RootFacts DEF IsOf
<1>2. IsOf(c, UseCases(c)) /\ Len(UseCases(c)) = 4
  <2>1. PICK t : t = <<"app", "usecase">>
    OBVIOUS
  <2>2. IsSequence(t) /\ Len(t) = 2 /\ t # <<>>
    BY <2>1, PairFacts, EmptyIsSequence
  <2>3. IsOf(c, Root(c) \o t) /\ Len(Root(c) \o t) = Len(t) + 2
    BY <2>2, UnderTheRoot
  <2> QED BY <2>1, <2>2, <2>3 DEF UseCases
<1>3. IsOf(c, Domain(c))
  <2>1. PICK t : t = <<"domain">> /\ IsSequence(t) /\ t # <<>>
    BY SingleFacts, EmptyIsSequence
  <2> QED BY <2>1, UnderTheRoot DEF Domain
<1>4. IsOf(c, PortIn(c, o)) /\ IsOf(c, PortOut(c, o))
  BY <1>3, UnderTheRoot DEF DirsOf, PortIn, PortOut
<1>5. \A v, w : IsOf(c, Adapters(c, <<v, w>>)) /\ Len(Adapters(c, <<v, w>>)) = 5 /\ Adapters(c, <<v, w>>)[4] = v
  <2> TAKE v, w
  <2> QED BY AdapterDirFacts
<1>6. \A dir \in PortDirs(c, o) \cup AppDirs(c) : IsOf(c, dir) /\ dir # Root(c)
  <2>1. \A dir \in PortDirs(c, o) \cup AppDirs(c) : IsOf(c, dir)
    BY <1>2, <1>3, <1>4, <1>5 DEF PortDirs, AppDirs, Handlers
  <2>2. \A dir \in PortDirs(c, o) \cup AppDirs(c) : dir # Root(c)
    <3> SUFFICES ASSUME NEW dir \in PortDirs(c, o) \cup AppDirs(c), dir = Root(c)
                 PROVE  FALSE
      OBVIOUS
    <3>1. Len(Root(c)) = 2 /\ Len(dir) >= 3
      BY DirFacts DEF IsInternal
    <3> QED BY <3>1
  <2> QED BY <2>1, <2>2
<1>7. \A v, w : UseCases(c) # Adapters(c, <<v, w>>)
  <2> SUFFICES ASSUME NEW v, NEW w, NEW dir, dir = Adapters(c, <<v, w>>), dir = UseCases(c)
               PROVE  FALSE
    OBVIOUS
  <2>1. Len(dir) = 5
    BY <1>5, Zenon
  <2> QED BY <1>2, <2>1
<1>8. \A kind : Handlers(c) # Adapters(c, <<"out", kind>>)
  BY <1>5 DEF Handlers
<1> QED BY <1>1, <1>6, <1>7, <1>8 DEF Handlers

\* What a file for an item can be called.
Forms(name) == {name, Append(name, "factory"), Append(name, "impl")}
ClearNames(c) ==
  /\ IsSequence(c.items) /\ AreNamed(c.items)
  /\ NamesDiffer(c, InDomain) /\ NamesDiffer(c, {"usecase"}) /\ NamesDiffer(c, {"in"})
  /\ \A v, w \in NamesOf(c, InDomain) : v \notin {Append(w, "factory"), Append(w, "impl")}

\* From what has been appended to, and what has been appended, a form is known.
LEMMA AppendedForms ==
  ASSUME NEW v, NEW w, NEW x, NEW y, IsSequence(v), IsSequence(w), Append(v, x) = Append(w, y)
  PROVE  v = w /\ x = y
<1>1. PICK u : u = Append(v, x)
  OBVIOUS
<1>2. Len(v) \in Nat /\ Len(w) \in Nat
  BY SequenceFacts
<1>3. Len(u) = Len(v) + 1 /\ (\A i \in 1 .. Len(v) : u[i] = v[i]) /\ u[Len(v) + 1] = x
  BY <1>1, AppendFacts
<1>4. Len(u) = Len(w) + 1 /\ (\A i \in 1 .. Len(w) : u[i] = w[i]) /\ u[Len(w) + 1] = y
  BY <1>1, AppendFacts
<1>5. Len(v) = Len(w)
  BY <1>2, <1>3, <1>4
<1>6. v = w
  BY <1>3, <1>4, <1>5, SameSequence
<1> QED BY <1>3, <1>4, <1>5, <1>6

\* The names that items of a domain have.
LEMMA NamesInDomain ==
  ASSUME NEW c, IsSequence(c.items), NEW v \in ToSet(c.items), NEW classes, v.class \in classes
  PROVE  v.name \in NamesOf(c, classes)
BY ClassFacts DEF NamesOf

\* Files for two items of a domain have two names, and those for one have, too.
LEMMA FormsDiffer ==
  ASSUME NEW c, ClearNames(c), NEW v \in ToSet(c.items), NEW w \in ToSet(c.items),
         v.class \in InDomain, w.class \in InDomain, NEW u, u \in Forms(v.name), u \in Forms(w.name)
  PROVE  v = w
<1>1. IsSequence(v.name) /\ IsSequence(w.name)
  BY DEF ClearNames, AreNamed
<1>2. v.name \in NamesOf(c, InDomain) /\ w.name \in NamesOf(c, InDomain)
  BY NamesInDomain DEF ClearNames
<1>3. PICK m, n : m = v.name /\ n = w.name
  OBVIOUS
<1>4. m \notin {Append(n, "factory"), Append(n, "impl")} /\ n \notin {Append(m, "factory"), Append(m, "impl")}
  BY <1>2, <1>3 DEF ClearNames
<1>5. \A x, y : Append(m, x) = Append(n, y) => m = n
  BY <1>1, <1>3, AppendedForms
<1>6. m = n
  BY <1>3, <1>4, <1>5 DEF Forms
<1> QED BY <1>3, <1>6, OneOfName DEF ClearNames

\* The forms of one name are three.
LEMMA FormsOfOne ==
  ASSUME NEW name, IsSequence(name)
  PROVE  name # Append(name, "factory") /\ name # Append(name, "impl") /\ Append(name, "factory") # Append(name, "impl")
<1>1. \A x : Len(Append(name, x)) = Len(name) + 1
  BY AppendFacts
<1>2. Len(name) \in Nat
  BY SequenceFacts
<1>3. \A x : name # Append(name, x)
  BY <1>1, <1>2
<1> QED BY <1>3, AppendedForms

-----------------------------------------------------------------------------
(***************************************************************************)
(* Files of a context at some places, each of a directory and a class of   *)
(* items: those keep apart that are in two directories, or for items of    *)
(* two classes of the domain.                                              *)
(***************************************************************************)
LiesAt(f, dir, base) == f.path[1] = dir /\ f.path[2] = base
IsAt(c, f, places) ==
  \E place \in places : \E v \in ToSet(c.items) :
    v.class = place.class /\ \E u \in Forms(v.name) : LiesAt(f, place.dir, u)
Placed(c, t, places) == IsSequence(t) /\ PathsDiffer(t) /\ \A f \in ToSet(t) : IsAt(c, f, places)
PlacesApart(P, Q) ==
  \A p \in P, q \in Q : p.dir # q.dir \/ (p.class # q.class /\ p.class \in InDomain /\ q.class \in InDomain)

\* Files at places apart have two paths.
LEMMA PlacedApart ==
  ASSUME NEW c, ClearNames(c), NEW P, NEW Q, PlacesApart(P, Q), NEW f, NEW g, IsAt(c, f, P), IsAt(c, g, Q)
  PROVE  f.path # g.path
<1> SUFFICES ASSUME f.path = g.path
             PROVE  FALSE
  OBVIOUS
<1>1. PICK p \in P, v \in ToSet(c.items) : v.class = p.class /\ \E u \in Forms(v.name) : LiesAt(f, p.dir, u)
  BY DEF IsAt
<1>2. PICK q \in Q, w \in ToSet(c.items) : w.class = q.class /\ \E z \in Forms(w.name) : LiesAt(g, q.dir, z)
  BY DEF IsAt
<1>3. PICK u \in Forms(v.name), z \in Forms(w.name) : LiesAt(f, p.dir, u) /\ LiesAt(g, q.dir, z)
  BY <1>1, <1>2
<1>4. p.dir = q.dir /\ u = z
  BY <1>3 DEF LiesAt
<1>5. v.class # w.class /\ v.class \in InDomain /\ w.class \in InDomain
  BY <1>1, <1>2, <1>4 DEF PlacesApart
<1> QED BY <1>3, <1>4, <1>5, FormsDiffer

\* Two lists of files that keep apart.
LEMMA PlacedTogether ==
  ASSUME NEW c, ClearNames(c), NEW s, NEW t, NEW P, NEW Q, PlacesApart(P, Q), Placed(c, s, P), Placed(c, t, Q)
  PROVE  Placed(c, s \o t, P \cup Q)
<1>1. NoneShared(s, t)
  BY PlacedApart DEF Placed, NoneShared
<1>2. PICK u : u = s \o t
  OBVIOUS
<1>3. IsSequence(u) /\ ToSet(u) = ToSet(s) \cup ToSet(t) /\ PathsDiffer(u)
  BY <1>1, <1>2, ConcatDiffer DEF Placed
<1>4. \A f \in ToSet(u) : IsAt(c, f, P \cup Q)
  BY <1>3 DEF Placed, IsAt
<1> QED BY <1>2, <1>3, <1>4 DEF Placed

\* Files at places that are made or are not.
LEMMA PlacedIf ==
  ASSUME NEW c, NEW t, NEW P, NEW condition, Placed(c, t, P)
  PROVE  Placed(c, If(condition, t), P)
BY IfFacts, IfDiffers DEF Placed

\* A file for each item of a class, with its name.
LEMMA OneFileEach ==
  ASSUME NEW c, NEW class, IsSequence(c.items), NamesDiffer(c, {class}), NEW those, AreOfClass(those, c, class),
         NEW t, t = [i \in DOMAIN those |-> t[i]], NEW dirs,
         \A i \in DOMAIN those : \E dir \in dirs : LiesAt(t[i], dir, those[i].name)
  PROVE  Placed(c, t, [dir : dirs, class : {class}])
<1> DEFINE places == [dir : dirs, class : {class}]
<1>1. IsSequence(t) /\ DOMAIN t = DOMAIN those /\ ToSet(t) = {t[i] : i \in DOMAIN those}
  <2>1. IsSequence(those)
    BY DEF AreOfClass
  <2> QED BY <2>1, MappedFacts, MadeFacts
<1>2. \A i \in DOMAIN those : those[i] \in ToSet(c.items) /\ those[i].class = class
  BY DEF AreOfClass
<1>3. ASSUME NEW i \in DOMAIN those
      PROVE  IsAt(c, t[i], places) /\ t[i].path[2] = those[i].name
  <2>1. PICK dir \in dirs : LiesAt(t[i], dir, those[i].name)
    OBVIOUS
  <2>2. PICK place : place = [dir |-> dir, class |-> class]
    OBVIOUS
  <2>3. those[i].name \in Forms(those[i].name)
    BY DEF Forms
  <2>4. place \in places /\ place.dir = dir /\ place.class = class
    BY <2>2
  <2> HIDE DEF places
  <2>5. IsAt(c, t[i], places)
    BY <1>2, <2>1, <2>3, <2>4 DEF IsAt
  <2> QED BY <2>1, <2>5 DEF LiesAt
<1>4. \A i, j \in DOMAIN those : those[i].name = those[j].name => i = j
  BY ListedNames DEF AreOfClass
<1>5. PathsDiffer(t)
  BY <1>1, <1>3, <1>4 DEF PathsDiffer
<1> QED BY <1>1, <1>3, <1>5 DEF Placed

\* Some files for each item of the domain, with its name in some form.
LEMMA SomeFilesEach ==
  ASSUME NEW c, ClearNames(c), NEW S, S \subseteq InDomain, NEW those, those = OfClass(c, S),
         NEW t, t = [i \in DOMAIN those |-> t[i]], NEW dir,
         \A i \in DOMAIN those :
           /\ IsSequence(t[i]) /\ PathsDiffer(t[i])
           /\ \A f \in ToSet(t[i]) : \E u \in Forms(those[i].name) : LiesAt(f, dir, u)
  PROVE  Placed(c, FlattenSeq(t), [dir : {dir}, class : S])
<1>1. IsSequence(those) /\ \A i \in DOMAIN those : those[i] \in ToSet(c.items) /\ those[i].class \in S
  BY ClassFacts DEF ClearNames, ToSet
<1>2. IsSequence(t) /\ DOMAIN t = DOMAIN those
  BY <1>1, MappedFacts
<1>3. NamesDiffer(c, S)
  BY DEF ClearNames, NamesDiffer
<1>4. \A i, j \in DOMAIN those : those[i].name = those[j].name => i = j
  BY <1>3, ListedNames DEF ClearNames
<1>5. ASSUME NEW i \in DOMAIN t, NEW j \in DOMAIN t, i # j
      PROVE  NoneShared(t[i], t[j])
  <2> SUFFICES ASSUME NEW f \in ToSet(t[i]), NEW g \in ToSet(t[j]), f.path = g.path
               PROVE  FALSE
    BY DEF NoneShared
  <2>1. PICK u \in Forms(those[i].name) : LiesAt(f, dir, u)
    BY <1>2
  <2>2. PICK z \in Forms(those[j].name) : LiesAt(g, dir, z)
    BY <1>2
  <2>3. u = z
    BY <2>1, <2>2 DEF LiesAt
  <2>4. those[i] = those[j]
    BY <1>1, <1>2, <2>3, FormsDiffer
  <2> QED BY <1>2, <1>4, <1>5, <2>4
<1>6. PathsDiffer(FlattenSeq(t))
  BY <1>2, <1>5, FlattenDiffer
<1>7. IsSequence(FlattenSeq(t)) /\ \A f \in ToSet(FlattenSeq(t)) : \E i \in DOMAIN those : f \in ToSet(t[i])
  BY <1>1, FlatMadeFacts
<1>8. ASSUME NEW f \in ToSet(FlattenSeq(t))
      PROVE  IsAt(c, f, [dir : {dir}, class : S])
  <2>1. PICK i \in DOMAIN those : f \in ToSet(t[i])
    BY <1>7
  <2>2. PICK v : v = those[i] /\ \E u \in Forms(v.name) : LiesAt(f, dir, u)
    <3>1. PICK u \in Forms(those[i].name) : LiesAt(f, dir, u)
      BY <2>1
    <3> QED BY <3>1
  <2>3. v \in ToSet(c.items) /\ v.class \in S
    BY <1>1, <2>2
  <2>4. PICK place : place = [dir |-> dir, class |-> v.class]
    OBVIOUS
  <2> QED BY <2>2, <2>3, <2>4 DEF IsAt
<1> QED BY <1>6, <1>7, <1>8 DEF Placed

\* Where the files of a context are, and which are scaffold-once.
LEMMA FilePaths ==
  ASSUME NEW c, NEW o
  PROVE  /\ \A template, item : /\ LiesAt(Struct(c, o, template, item), Domain(c), item.name)
                                /\ Struct(c, o, template, item).once = FALSE
         /\ \A item : /\ LiesAt(Factory(c, o, item), Domain(c), Append(item.name, "factory"))
                      /\ Factory(c, o, item).once = FALSE
         /\ \A item : /\ LiesAt(ServiceFiles(c, o, item)[1], Domain(c), item.name)
                      /\ ServiceFiles(c, o, item)[1].once = FALSE
         /\ \A item : /\ LiesAt(ServiceFiles(c, o, item)[2], Domain(c), Append(item.name, "impl"))
                      /\ ServiceFiles(c, o, item)[2].once = TRUE
         /\ \A item : LiesAt(PortInFile(c, o, item), PortIn(c, o), item.name) /\ PortInFile(c, o, item).once = FALSE
         /\ \A item : LiesAt(PortOutFile(c, o, item), PortOut(c, o), item.name) /\ PortOutFile(c, o, item).once = FALSE
         /\ \A item : LiesAt(UseCaseFile(c, o, item), UseCases(c), item.name) /\ UseCaseFile(c, o, item).once = TRUE
         /\ \A item : LiesAt(AdapterFile(c, o, item), AdapterDir(c, item), item.name) /\ AdapterFile(c, o, item).once = TRUE
         /\ \A item : LiesAt(HandlerFile(c, o, item), Handlers(c), item.name) /\ HandlerFile(c, o, item).once = TRUE
         /\ LiesAt(ProvidersFile(c, o), Root(c), <<"providers">>) /\ ProvidersFile(c, o).once = FALSE
<1>1. \A template, item : /\ LiesAt(Struct(c, o, template, item), Domain(c), item.name)
                          /\ Struct(c, o, template, item).once = FALSE
  BY DEF Struct, Go, Depending, File, LiesAt
<1>2. \A item : /\ LiesAt(Factory(c, o, item), Domain(c), Append(item.name, "factory"))
                /\ Factory(c, o, item).once = FALSE
  BY DEF Factory, Go, Depending, File, LiesAt
<1>3. ASSUME NEW item
      PROVE  /\ LiesAt(ServiceFiles(c, o, item)[1], Domain(c), item.name)
             /\ ServiceFiles(c, o, item)[1].once = FALSE
             /\ LiesAt(ServiceFiles(c, o, item)[2], Domain(c), Append(item.name, "impl"))
             /\ ServiceFiles(c, o, item)[2].once = TRUE
  <2>1. PICK a, b :
          /\ ServiceFiles(c, o, item) = <<a, b>>
          /\ LiesAt(a, Domain(c), item.name) /\ a.once = FALSE
          /\ LiesAt(b, Domain(c), Append(item.name, "impl")) /\ b.once = TRUE
    <3>1. PICK types : types = MethodTypes(item)
      OBVIOUS
    <3>2. PICK a : a = Go(c, o, File("domain_service", Domain(c), item.name, FALSE), types, types, {})
      OBVIOUS
    <3>3. PICK b : b = Go(c, o, File("domain_service_impl", Domain(c), Append(item.name, "impl"), TRUE),
                          types, types, {<<"errors">>})
      OBVIOUS
    <3>4. ServiceFiles(c, o, item) = <<a, b>>
      BY <3>1, <3>2, <3>3 DEF ServiceFiles
    <3>5. LiesAt(a, Domain(c), item.name) /\ a.once = FALSE
      BY <3>2 DEF Go, Depending, File, LiesAt
    <3>6. LiesAt(b, Domain(c), Append(item.name, "impl")) /\ b.once = TRUE
      BY <3>3 DEF Go, Depending, File, LiesAt
    <3> QED BY <3>4, <3>5, <3>6
  <2>2. <<a, b>>[1] = a /\ <<a, b>>[2] = b
    OBVIOUS
  <2> QED BY <2>1, <2>2
<1>4. \A item : LiesAt(PortInFile(c, o, item), PortIn(c, o), item.name) /\ PortInFile(c, o, item).once = FALSE
  BY DEF PortInFile, Go, Depending, File, LiesAt
<1>5. \A item : LiesAt(PortOutFile(c, o, item), PortOut(c, o), item.name) /\ PortOutFile(c, o, item).once = FALSE
  BY DEF PortOutFile, Go, Depending, File, LiesAt
<1>6. \A item : LiesAt(UseCaseFile(c, o, item), UseCases(c), item.name) /\ UseCaseFile(c, o, item).once = TRUE
  BY DEF UseCaseFile, Go, Depending, File, LiesAt
<1>7. \A item : LiesAt(AdapterFile(c, o, item), AdapterDir(c, item), item.name) /\ AdapterFile(c, o, item).once = TRUE
  BY DEF AdapterFile, Go, Depending, File, LiesAt
<1>8. \A item : LiesAt(HandlerFile(c, o, item), Handlers(c), item.name) /\ HandlerFile(c, o, item).once = TRUE
  BY DEF HandlerFile, Go, Depending, File, LiesAt
<1>9. LiesAt(ProvidersFile(c, o), Root(c), <<"providers">>) /\ ProvidersFile(c, o).once = FALSE
  BY DEF ProvidersFile, Go, Depending, File, LiesAt
<1> QED BY <1>1, <1>2, <1>3, <1>4, <1>5, <1>6, <1>7, <1>8, <1>9, Zenon

\* Two files of one name.
LEMMA TwoFiles ==
  ASSUME NEW name, IsSequence(name), NEW dir, NEW f, NEW g, NEW w, w \in {"factory", "impl"},
         LiesAt(f, dir, name), LiesAt(g, dir, Append(name, w))
  PROVE  /\ IsSequence(<<f, g>>) /\ PathsDiffer(<<f, g>>)
         /\ \A x \in ToSet(<<f, g>>) : \E u \in Forms(name) : LiesAt(x, dir, u)
<1>1. f.path # g.path
  BY FormsOfOne DEF LiesAt
<1>2. PICK pair : pair = <<f, g>>
  OBVIOUS
<1>3. pair[1] = f /\ pair[2] = g /\ DOMAIN pair = {1, 2}
  BY <1>2
<1>4. PathsDiffer(pair)
  BY <1>1, <1>3 DEF PathsDiffer
<1>5. name \in Forms(name) /\ Append(name, w) \in Forms(name)
  BY DEF Forms
<1>6. IsSequence(<<f, g>>) /\ ToSet(<<f, g>>) = {f, g}
  BY PairFacts
<1> QED BY <1>2, <1>4, <1>5, <1>6

\* One file of a name.
LEMMA OneFile ==
  ASSUME NEW name, NEW dir, NEW f, LiesAt(f, dir, name)
  PROVE  /\ IsSequence(<<f>>) /\ PathsDiffer(<<f>>)
         /\ \A x \in ToSet(<<f>>) : \E u \in Forms(name) : LiesAt(x, dir, u)
<1>1. name \in Forms(name)
  BY DEF Forms
<1> QED BY <1>1, FewDiffer, SingleFacts, SmallRanges

\* The files of the domain, class by class.
LEMMA EntitiesPlaced ==
  ASSUME NEW c, NEW o, ClearNames(c), NEW S, S = {"aggregate", "entity"}
  PROVE  Placed(c, FlattenSeq([i \in DOMAIN OfClass(c, S) |-> EntityFiles(c, o, OfClass(c, S)[i])]),
                [dir : {Domain(c)}, class : S])
<1>1. PICK those : those = OfClass(c, S)
  OBVIOUS
<1>2. PICK t : t = [i \in DOMAIN those |-> EntityFiles(c, o, those[i])]
  OBVIOUS
<1>3. t = [i \in DOMAIN those |-> t[i]] /\ \A i \in DOMAIN those : t[i] = EntityFiles(c, o, those[i])
  BY <1>2
<1>4. \A i \in DOMAIN those : those[i] \in ToSet(c.items) /\ IsSequence(those[i].name)
  BY <1>1, ClassFacts DEF ClearNames, AreNamed, ToSet
<1>5. ASSUME NEW i \in DOMAIN those
      PROVE  /\ IsSequence(t[i]) /\ PathsDiffer(t[i])
             /\ \A f \in ToSet(t[i]) : \E u \in Forms(those[i].name) : LiesAt(f, Domain(c), u)
  <2>1. PICK item : item = those[i] /\ IsSequence(item.name)
    BY <1>4
  <2>2. CASE item.class = "aggregate"
    <3>1. PICK f, g : f = Struct(c, o, "aggregate", item) /\ g = Factory(c, o, item)
      OBVIOUS
    <3>2. LiesAt(f, Domain(c), item.name) /\ LiesAt(g, Domain(c), Append(item.name, "factory"))
      BY <3>1, FilePaths
    <3>3. t[i] = <<f, g>>
      BY <1>3, <2>1, <2>2, <3>1 DEF EntityFiles
    <3> QED BY <2>1, <3>2, <3>3, TwoFiles
  <2>3. CASE item.class # "aggregate"
    <3>1. PICK f : f = Struct(c, o, "entity", item)
      OBVIOUS
    <3>2. LiesAt(f, Domain(c), item.name)
      BY <3>1, FilePaths
    <3>3. t[i] = <<f>>
      BY <1>3, <2>1, <2>3, <3>1 DEF EntityFiles
    <3> QED BY <2>1, <3>2, <3>3, OneFile
  <2> QED BY <2>2, <2>3
<1>6. S \subseteq InDomain
  BY DEF InDomain
<1>7. Placed(c, FlattenSeq(t), [dir : {Domain(c)}, class : S])
  BY <1>1, <1>3, <1>5, <1>6, SomeFilesEach
<1> QED BY <1>1, <1>2, <1>7

\* And those of services, which have a second form of the name.
LEMMA ServicesPlaced ==
  ASSUME NEW c, NEW o, ClearNames(c), NEW S, S = {"service"}
  PROVE  Placed(c, FlattenSeq([i \in DOMAIN OfClass(c, S) |-> ServiceFiles(c, o, OfClass(c, S)[i])]),
                [dir : {Domain(c)}, class : S])
<1>1. PICK those : those = OfClass(c, S)
  OBVIOUS
<1>2. PICK t : t = [i \in DOMAIN those |-> ServiceFiles(c, o, those[i])]
  OBVIOUS
<1>3. t = [i \in DOMAIN those |-> t[i]] /\ \A i \in DOMAIN those : t[i] = ServiceFiles(c, o, those[i])
  BY <1>2
<1>4. \A i \in DOMAIN those : those[i] \in ToSet(c.items) /\ IsSequence(those[i].name)
  BY <1>1, ClassFacts DEF ClearNames, AreNamed, ToSet
<1>5. ASSUME NEW i \in DOMAIN those
      PROVE  /\ IsSequence(t[i]) /\ PathsDiffer(t[i])
             /\ \A f \in ToSet(t[i]) : \E u \in Forms(those[i].name) : LiesAt(f, Domain(c), u)
  <2>1. PICK item : item = those[i] /\ IsSequence(item.name)
    BY <1>4
  <2>2. PICK f, g : f = ServiceFiles(c, o, item)[1] /\ g = ServiceFiles(c, o, item)[2]
    OBVIOUS
  <2>3. LiesAt(f, Domain(c), item.name) /\ LiesAt(g, Domain(c), Append(item.name, "impl"))
    BY <2>2, FilePaths
  <2>4. t[i] = <<f, g>>
    <3>1. PICK a, b : ServiceFiles(c, o, item) = <<a, b>>
      BY DEF ServiceFiles
    <3>2. <<a, b>>[1] = a /\ <<a, b>>[2] = b
      OBVIOUS
    <3> QED BY <1>3, <2>1, <2>2, <3>1, <3>2
  <2> QED BY <2>1, <2>3, <2>4, TwoFiles
<1>6. S \subseteq InDomain
  BY DEF InDomain
<1>7. Placed(c, FlattenSeq(t), [dir : {Domain(c)}, class : S])
  BY <1>1, <1>3, <1>5, <1>6, SomeFilesEach
<1> QED BY <1>1, <1>2, <1>7

\* What LayoutIsClear says of one context.
ClearDirs(c, o) == PortIn(c, o) \notin {Domain(c), PortOut(c, o)} /\ PortDirs(c, o) \cap AppDirs(c) = {}

\* All files of a context keep apart.
LEMMA ContextPathsDiffer ==
  ASSUME NEW c, NEW o, ClearNames(c), DirsOf(o), ClearDirs(c, o)
  PROVE  PathsDiffer(RenderContext(c, o))
<1>1. PICK D, N, P, U, A, H, R :
        /\ D = Domain(c) /\ N = PortIn(c, o) /\ P = PortOut(c, o) /\ U = UseCases(c) /\ H = Handlers(c) /\ R = Root(c)
        /\ A = {Adapters(c, <<"out", kind>>) : kind \in {"repository", "gateway"}}
  OBVIOUS
<1>2. PICK entities : entities = FlattenSeq([i \in DOMAIN OfClass(c, {"aggregate", "entity"}) |->
                                               EntityFiles(c, o, OfClass(c, {"aggregate", "entity"})[i])])
  OBVIOUS
<1>3. Placed(c, entities, [dir : {D}, class : {"aggregate", "entity"}])
  <2>1. PICK S : S = {"aggregate", "entity"}
    OBVIOUS
  <2> QED BY <1>1, <1>2, <2>1, EntitiesPlaced
<1>4. PICK services : services = FlattenSeq([i \in DOMAIN OfClass(c, {"service"}) |->
                                               ServiceFiles(c, o, OfClass(c, {"service"})[i])])
  OBVIOUS
<1>5. Placed(c, services, [dir : {D}, class : {"service"}])
  <2>1. PICK S : S = {"service"}
    OBVIOUS
  <2> QED BY <1>1, <1>4, <2>1, ServicesPlaced
<1>6. PICK values, events :
        /\ values = [i \in DOMAIN OfClass(c, {"value"}) |-> Struct(c, o, "value_object", OfClass(c, {"value"})[i])]
        /\ events = [i \in DOMAIN OfClass(c, {"event"}) |-> Struct(c, o, "domain_event", OfClass(c, {"event"})[i])]
  OBVIOUS
<1>7. IsSequence(c.items)
  BY DEF ClearNames
<1>8. /\ NamesDiffer(c, {"value"}) /\ NamesDiffer(c, {"event"}) /\ NamesDiffer(c, {"out"})
      /\ NamesDiffer(c, {"in"}) /\ NamesDiffer(c, {"usecase"})
  BY DEF ClearNames, NamesDiffer, InDomain
<1>9. Placed(c, values, [dir : {D}, class : {"value"}])
  <2>1. PICK those : AreOfClass(those, c, "value")
    BY <1>7, ItemsOfClass
  <2>2. values = [i \in DOMAIN those |-> Struct(c, o, "value_object", those[i])]
    BY <1>6, <2>1 DEF AreOfClass
  <2>3. values = [i \in DOMAIN those |-> values[i]] /\ \A i \in DOMAIN those : LiesAt(values[i], D, those[i].name)
    BY <1>1, <2>2, FilePaths
  <2> QED BY <1>7, <1>8, <2>1, <2>3, OneFileEach
<1>10. Placed(c, events, [dir : {D}, class : {"event"}])
  <2>1. PICK those : AreOfClass(those, c, "event")
    BY <1>7, ItemsOfClass
  <2>2. events = [i \in DOMAIN those |-> Struct(c, o, "domain_event", those[i])]
    BY <1>6, <2>1 DEF AreOfClass
  <2>3. events = [i \in DOMAIN those |-> events[i]] /\ \A i \in DOMAIN those : LiesAt(events[i], D, those[i].name)
    BY <1>1, <2>2, FilePaths
  <2> QED BY <1>7, <1>8, <2>1, <2>3, OneFileEach
<1>11. PICK ins, outs, usecases, adapters, handlers :
        /\ ins = [i \in DOMAIN OfClass(c, {"in"}) |-> PortInFile(c, o, OfClass(c, {"in"})[i])]
        /\ outs = [i \in DOMAIN OfClass(c, {"out"}) |-> PortOutFile(c, o, OfClass(c, {"out"})[i])]
        /\ usecases = [i \in DOMAIN OfClass(c, {"usecase"}) |-> UseCaseFile(c, o, OfClass(c, {"usecase"})[i])]
        /\ adapters = [i \in DOMAIN OfClass(c, {"out"}) |-> AdapterFile(c, o, OfClass(c, {"out"})[i])]
        /\ handlers = [i \in DOMAIN OfClass(c, {"in"}) |-> HandlerFile(c, o, OfClass(c, {"in"})[i])]
  OBVIOUS
<1>12. Placed(c, ins, [dir : {N}, class : {"in"}])
  <2>1. PICK those : AreOfClass(those, c, "in")
    BY <1>7, ItemsOfClass
  <2>2. ins = [i \in DOMAIN those |-> PortInFile(c, o, those[i])]
    BY <1>11, <2>1 DEF AreOfClass
  <2>3. ins = [i \in DOMAIN those |-> ins[i]] /\ \A i \in DOMAIN those : LiesAt(ins[i], N, those[i].name)
    BY <1>1, <2>2, FilePaths
  <2> QED BY <1>7, <1>8, <2>1, <2>3, OneFileEach
<1>13. Placed(c, outs, [dir : {P}, class : {"out"}])
  <2>1. PICK those : AreOfClass(those, c, "out")
    BY <1>7, ItemsOfClass
  <2>2. outs = [i \in DOMAIN those |-> PortOutFile(c, o, those[i])]
    BY <1>11, <2>1 DEF AreOfClass
  <2>3. outs = [i \in DOMAIN those |-> outs[i]] /\ \A i \in DOMAIN those : LiesAt(outs[i], P, those[i].name)
    BY <1>1, <2>2, FilePaths
  <2> QED BY <1>7, <1>8, <2>1, <2>3, OneFileEach
<1>14. Placed(c, usecases, [dir : {U}, class : {"usecase"}])
  <2>1. PICK those : AreOfClass(those, c, "usecase")
    BY <1>7, ItemsOfClass
  <2>2. usecases = [i \in DOMAIN those |-> UseCaseFile(c, o, those[i])]
    BY <1>11, <2>1 DEF AreOfClass
  <2>3. usecases = [i \in DOMAIN those |-> usecases[i]] /\ \A i \in DOMAIN those : LiesAt(usecases[i], U, those[i].name)
    BY <1>1, <2>2, FilePaths
  <2> QED BY <1>7, <1>8, <2>1, <2>3, OneFileEach
<1>15. Placed(c, adapters, [dir : A, class : {"out"}])
  <2>1. PICK those : AreOfClass(those, c, "out")
    BY <1>7, ItemsOfClass
  <2>2. adapters = [i \in DOMAIN those |-> AdapterFile(c, o, those[i])]
    BY <1>11, <2>1 DEF AreOfClass
  <2>3. adapters = [i \in DOMAIN those |-> adapters[i]] /\ \A i \in DOMAIN those : LiesAt(adapters[i], AdapterDir(c, those[i]), those[i].name)
    BY <1>1, <2>2, FilePaths
  <2>4. \A port : AdapterDir(c, port) \in A
    BY <1>1 DEF AdapterDir
  <2> QED BY <1>7, <1>8, <2>1, <2>3, <2>4, OneFileEach
<1>16. Placed(c, handlers, [dir : {H}, class : {"in"}])
  <2>1. PICK those : AreOfClass(those, c, "in")
    BY <1>7, ItemsOfClass
  <2>2. handlers = [i \in DOMAIN those |-> HandlerFile(c, o, those[i])]
    BY <1>11, <2>1 DEF AreOfClass
  <2>3. handlers = [i \in DOMAIN those |-> handlers[i]] /\ \A i \in DOMAIN those : LiesAt(handlers[i], H, those[i].name)
    BY <1>1, <2>2, FilePaths
  <2> QED BY <1>7, <1>8, <2>1, <2>3, OneFileEach
<1>17. /\ N # D /\ N # P /\ U # H /\ U \notin A /\ H \notin A
       /\ {D, N, P} \cap A = {} /\ U \notin {D, N, P} /\ H \notin {D, N, P}
  BY <1>1, DirsOfContext DEF ClearDirs, PortDirs, AppDirs
<1>18. PICK K1, K2, K3, K4 :
         /\ K1 = [dir : {D}, class : {"aggregate", "entity"}] \cup [dir : {D}, class : {"value"}]
                   \cup [dir : {D}, class : {"event"}] \cup [dir : {D}, class : {"service"}]
         /\ K2 = [dir : {N}, class : {"in"}] \cup [dir : {P}, class : {"out"}]
         /\ K3 = [dir : {U}, class : {"usecase"}]
         /\ K4 = [dir : A, class : {"out"}] \cup [dir : {H}, class : {"in"}]
  OBVIOUS
<1>19. PICK domain : domain = entities \o values \o If(o.events, events) \o services
  OBVIOUS
<1>20. Placed(c, domain, K1)
  <2>1. Placed(c, If(o.events, events), [dir : {D}, class : {"event"}])
    BY <1>10, PlacedIf
  <2>2. PICK a, b, d : a = entities \o values /\ b = If(o.events, events) /\ d = a \o b
    OBVIOUS
  <2>3. PICK L1, L2, L3, L4 : /\ L1 = [dir : {D}, class : {"aggregate", "entity"}] /\ L2 = [dir : {D}, class : {"value"}]
                              /\ L3 = [dir : {D}, class : {"event"}] /\ L4 = [dir : {D}, class : {"service"}]
    OBVIOUS
  <2>4. PlacesApart(L1, L2) /\ PlacesApart(L1 \cup L2, L3) /\ PlacesApart(L1 \cup L2 \cup L3, L4)
    BY <2>3 DEF PlacesApart, InDomain
  <2>5. Placed(c, a, L1 \cup L2)
    BY <1>3, <1>9, <2>2, <2>3, <2>4, PlacedTogether
  <2>6. Placed(c, d, L1 \cup L2 \cup L3)
    BY <2>1, <2>2, <2>3, <2>4, <2>5, PlacedTogether
  <2>7. Placed(c, d \o services, L1 \cup L2 \cup L3 \cup L4)
    BY <1>5, <2>3, <2>4, <2>6, PlacedTogether
  <2> QED BY <1>18, <1>19, <2>2, <2>3, <2>7
<1>21. PICK p1, p2, p3, p4, p5 :
         /\ p1 = If(o.domain, domain) /\ p2 = If(o.ports, ins \o outs) /\ p3 = If(o.usecases, usecases)
         /\ p4 = If(o.adapters # "off", adapters \o handlers) /\ p5 = If(o.di, <<ProvidersFile(c, o)>>)
  OBVIOUS
<1>22. Placed(c, p1, K1) /\ Placed(c, p3, K3)
  BY <1>18, <1>20, <1>21, <1>14, PlacedIf
<1>23. Placed(c, p2, K2)
  <2>1. PICK both, L1, L2 : both = ins \o outs /\ L1 = [dir : {N}, class : {"in"}] /\ L2 = [dir : {P}, class : {"out"}]
    OBVIOUS
  <2>2. PlacesApart(L1, L2)
    BY <1>17, <2>1 DEF PlacesApart
  <2>3. Placed(c, both, L1 \cup L2)
    BY <1>12, <1>13, <2>1, <2>2, PlacedTogether
  <2> QED BY <1>18, <1>21, <2>1, <2>3, PlacedIf
<1>24. Placed(c, p4, K4)
  <2>1. PICK both, L1, L2 : both = adapters \o handlers /\ L1 = [dir : A, class : {"out"}] /\ L2 = [dir : {H}, class : {"in"}]
    OBVIOUS
  <2>2. PlacesApart(L1, L2)
    BY <1>17, <2>1 DEF PlacesApart
  <2>3. Placed(c, both, L1 \cup L2)
    BY <1>15, <1>16, <2>1, <2>2, PlacedTogether
  <2> QED BY <1>18, <1>21, <2>1, <2>3, PlacedIf
<1>25. PlacesApart(K1, K2) /\ PlacesApart(K1 \cup K2, K3) /\ PlacesApart(K1 \cup K2 \cup K3, K4)
  <2>1. PlacesApart(K1, K2)
    BY <1>17, <1>18 DEF PlacesApart, InDomain
  <2>2. PlacesApart(K1 \cup K2, K3)
    BY <1>17, <1>18 DEF PlacesApart
  <2>3. PlacesApart(K1 \cup K2 \cup K3, K4)
    BY <1>17, <1>18 DEF PlacesApart
  <2> QED BY <2>1, <2>2, <2>3
<1>26. PICK q2, q3, q4 : q2 = p1 \o p2 /\ q3 = q2 \o p3 /\ q4 = q3 \o p4
  OBVIOUS
<1>27. Placed(c, q2, K1 \cup K2)
  BY <1>22, <1>23, <1>25, <1>26, PlacedTogether
<1>28. Placed(c, q3, K1 \cup K2 \cup K3)
  BY <1>22, <1>25, <1>26, <1>27, PlacedTogether
<1>29. Placed(c, q4, K1 \cup K2 \cup K3 \cup K4)
  BY <1>24, <1>25, <1>26, <1>28, PlacedTogether
<1>30. \A f \in ToSet(q4) : f.path[1] # R
  <2>1. R \notin {D, N, P, U, H} \cup A
    BY <1>1, DirsOfContext DEF PortDirs, AppDirs
  <2>2. \A place \in K1 \cup K2 \cup K3 \cup K4 : place.dir \in {D, N, P, U, H} \cup A
    BY <1>18
  <2>3. \A f \in ToSet(q4) : \E place \in K1 \cup K2 \cup K3 \cup K4 : f.path[1] = place.dir
    BY <1>29 DEF Placed, IsAt, LiesAt
  <2> QED BY <2>1, <2>2, <2>3
<1>31. IsSequence(p5) /\ PathsDiffer(p5) /\ \A f \in ToSet(p5) : f.path[1] = R
  <2>1. LiesAt(ProvidersFile(c, o), Root(c), <<"providers">>)
    BY FilePaths, Zenon
  <2>2. PICK f : f = ProvidersFile(c, o) /\ f.path[1] = R
    BY <1>1, <2>1 DEF LiesAt
  <2>3. IsSequence(<<f>>) /\ PathsDiffer(<<f>>) /\ ToSet(<<f>>) = {f}
    BY FewDiffer, SingleFacts, SmallRanges
  <2> QED BY <1>21, <2>2, <2>3, IfFacts, IfDiffers
<1>32. NoneShared(q4, p5)
  BY <1>30, <1>31 DEF NoneShared
<1>33. PathsDiffer(q4 \o p5)
  BY <1>29, <1>31, <1>32, ConcatDiffer DEF Placed
<1>34. RenderContext(c, o) = q4 \o p5
  BY <1>2, <1>4, <1>6, <1>11, <1>19, <1>21, <1>26 DEF RenderContext, Mapped
<1> QED BY <1>33, <1>34

(***************************************************************************)
(* Where scaffold-once files of a context are, and where generated ones.   *)
(***************************************************************************)
KeptAt(c, f) ==
  \/ f.path[1] \in AppDirs(c)
  \/ \E v \in ToSet(c.items) : v.class = "service" /\ LiesAt(f, Domain(c), Append(v.name, "impl"))
MadeAt(c, o, f) ==
  \/ f.path[1] \in {PortIn(c, o), Root(c)}
  \/ /\ f.path[1] \in {Domain(c), PortOut(c, o)}
     /\ \E v \in ToSet(c.items) : v.class \in InDomain /\ f.path[2] \in {v.name, Append(v.name, "factory")}

\* Every file of a context is in one of the two ways, as its once says.
LEMMA ContextPlaces ==
  ASSUME NEW c, NEW o, NEW f, IsContextFile(c, o, f)
  PROVE  \/ f.once = TRUE /\ KeptAt(c, f)
         \/ f.once = FALSE /\ MadeAt(c, o, f)
<1>1. ASSUME NEW v \in ToSet(c.items), v.class \in InDomain, f.once = FALSE, NEW dir, dir \in {Domain(c), PortOut(c, o)},
             LiesAt(f, dir, v.name) \/ LiesAt(f, dir, Append(v.name, "factory"))
      PROVE  MadeAt(c, o, f)
  BY <1>1 DEF MadeAt, LiesAt
<1>2. CASE IsEntityFile(c, o, f) \/ IsValueFile(c, o, f) \/ IsEventFile(c, o, f)
  <2>1. PICK v \in ToSet(c.items) :
          /\ v.class \in {"aggregate", "entity", "value", "event"}
          /\ (\E template : f = Struct(c, o, template, v)) \/ f = Factory(c, o, v)
    BY <1>2 DEF IsEntityFile, IsValueFile, IsEventFile
  <2>2. f.once = FALSE /\ (LiesAt(f, Domain(c), v.name) \/ LiesAt(f, Domain(c), Append(v.name, "factory")))
    <3>1. CASE \E template : f = Struct(c, o, template, v)
      <4>1. PICK template : f = Struct(c, o, template, v)
        BY <3>1
      <4>2. LiesAt(Struct(c, o, template, v), Domain(c), v.name) /\ Struct(c, o, template, v).once = FALSE
        BY FilePaths, ZenonT(30)
      <4> QED BY <4>1, <4>2
    <3>2. CASE f = Factory(c, o, v)
      <4>1. /\ LiesAt(Factory(c, o, v), Domain(c), Append(v.name, "factory"))
            /\ Factory(c, o, v).once = FALSE
        BY FilePaths, ZenonT(30)
      <4> QED BY <3>2, <4>1
    <3> QED BY <2>1, <3>1, <3>2
  <2>3. v.class \in InDomain
    BY <2>1 DEF InDomain
  <2> QED BY <1>1, <2>2, <2>3
<1>3. CASE IsServiceFile(c, o, f)
  <2>1. PICK v \in ToSet(c.items) :
          v.class = "service" /\ (f = ServiceFiles(c, o, v)[1] \/ f = ServiceFiles(c, o, v)[2])
    BY <1>3 DEF IsServiceFile
  <2>2. \/ f.once = FALSE /\ LiesAt(f, Domain(c), v.name)
        \/ f.once = TRUE /\ LiesAt(f, Domain(c), Append(v.name, "impl"))
    <3>1. /\ LiesAt(ServiceFiles(c, o, v)[1], Domain(c), v.name) /\ ServiceFiles(c, o, v)[1].once = FALSE
          /\ LiesAt(ServiceFiles(c, o, v)[2], Domain(c), Append(v.name, "impl"))
          /\ ServiceFiles(c, o, v)[2].once = TRUE
      BY FilePaths, ZenonT(30)
    <3> QED BY <2>1, <3>1
  <2>3. v.class \in InDomain
    BY <2>1 DEF InDomain
  <2> QED BY <1>1, <2>1, <2>2, <2>3 DEF KeptAt
<1>4. CASE IsPortInFile(c, o, f)
  <2>1. PICK v : f = PortInFile(c, o, v)
    BY <1>4 DEF IsPortInFile
  <2>2. f.once = FALSE /\ LiesAt(f, PortIn(c, o), v.name)
    BY <2>1, FilePaths
  <2> QED BY <2>2 DEF MadeAt, LiesAt
<1>5. CASE IsPortOutFile(c, o, f)
  <2>1. PICK v \in ToSet(c.items) : v.class = "out" /\ f = PortOutFile(c, o, v)
    BY <1>5 DEF IsPortOutFile
  <2>2. f.once = FALSE /\ LiesAt(f, PortOut(c, o), v.name)
    BY <2>1, FilePaths
  <2>3. v.class \in InDomain
    BY <2>1 DEF InDomain
  <2> QED BY <1>1, <2>2, <2>3
<1>6. CASE IsUseCaseFile(c, o, f) \/ IsAdapterFile(c, o, f) \/ IsHandlerFile(c, o, f)
  <2>1. PICK v : f = UseCaseFile(c, o, v) \/ f = AdapterFile(c, o, v) \/ f = HandlerFile(c, o, v)
    BY <1>6 DEF IsUseCaseFile, IsAdapterFile, IsHandlerFile
  <2>2. f.once = TRUE /\ \E dir \in {UseCases(c), AdapterDir(c, v), Handlers(c)} : LiesAt(f, dir, v.name)
    <3>1. LiesAt(UseCaseFile(c, o, v), UseCases(c), v.name) /\ UseCaseFile(c, o, v).once = TRUE
      BY FilePaths, ZenonT(30)
    <3>2. LiesAt(AdapterFile(c, o, v), AdapterDir(c, v), v.name) /\ AdapterFile(c, o, v).once = TRUE
      BY FilePaths, ZenonT(30)
    <3>3. LiesAt(HandlerFile(c, o, v), Handlers(c), v.name) /\ HandlerFile(c, o, v).once = TRUE
      BY FilePaths, ZenonT(30)
    <3> QED BY <2>1, <3>1, <3>2, <3>3
  <2>3. {UseCases(c), AdapterDir(c, v), Handlers(c)} \subseteq AppDirs(c)
    BY DEF AppDirs, AdapterDir
  <2> QED BY <2>2, <2>3 DEF KeptAt, LiesAt
<1>7. CASE f = ProvidersFile(c, o)
  <2>1. f.once = FALSE /\ LiesAt(f, Root(c), <<"providers">>)
    BY <1>7, FilePaths, Zenon
  <2> QED BY <2>1 DEF MadeAt, LiesAt
<1> QED BY <1>2, <1>3, <1>4, <1>5, <1>6, <1>7 DEF IsContextFile

\* The directories of files of a context are its own.
LEMMA ContextDirs ==
  ASSUME NEW c, NEW o, DirsOf(o), NEW f, IsContextFile(c, o, f)
  PROVE  IsOf(c, f.path[1])
<1>1. f.path[1] \in PortDirs(c, o) \cup AppDirs(c) \cup {Root(c)}
  BY ContextPlaces DEF KeptAt, MadeAt, PortDirs, LiesAt
<1> QED BY <1>1, DirsOfContext

\* A scaffold is not where another configuration has a file generated.
LEMMA KeptApart ==
  ASSUME NEW c, NEW o, ClearNames(c), DirsOf(o), ClearDirs(c, o), NEW f, NEW g, KeptAt(c, f), MadeAt(c, o, g)
  PROVE  f.path # g.path
<1> SUFFICES ASSUME f.path = g.path
             PROVE  FALSE
  OBVIOUS
<1>1. /\ AppDirs(c) \cap {PortIn(c, o), Root(c), Domain(c), PortOut(c, o)} = {}
      /\ Domain(c) \notin {PortIn(c, o), Root(c)}
  BY DirsOfContext DEF ClearDirs, PortDirs
<1>2. f.path[1] \notin AppDirs(c)
  BY <1>1 DEF MadeAt
<1>3. PICK v \in ToSet(c.items) : v.class = "service" /\ LiesAt(f, Domain(c), Append(v.name, "impl"))
  BY <1>2 DEF KeptAt
<1>4. PICK w \in ToSet(c.items) : w.class \in InDomain /\ Append(v.name, "impl") \in {w.name, Append(w.name, "factory")}
  BY <1>1, <1>3 DEF MadeAt, LiesAt
<1>5. v.class \in InDomain
  BY <1>3 DEF InDomain
<1>6. v.name \in NamesOf(c, InDomain) /\ w.name \in NamesOf(c, InDomain)
  BY <1>4, <1>5, NamesInDomain DEF ClearNames
<1>7. w.name # Append(v.name, "impl")
  BY <1>6 DEF ClearNames
<1>8. IsSequence(v.name) /\ IsSequence(w.name)
  BY DEF ClearNames, AreNamed
<1> QED BY <1>4, <1>7, <1>8, AppendedForms

-----------------------------------------------------------------------------
(***************************************************************************)
(* Files of a project. Contexts have directories by their slugs, and       *)
(* binaries by their names.                                                *)
(***************************************************************************)
OwnSlugs(project) == \A i, j \in DOMAIN project : Slug(project[i].name) = Slug(project[j].name) => i = j
ClearProject(project, o) ==
  /\ IsSequence(project) /\ OwnSlugs(project)
  /\ \A c \in ToSet(project) : ClearNames(c) /\ ClearDirs(c, o)

\* Binaries have names of their own.
LEMMA BinaryNames ==
  ASSUME NEW project, NEW o, ClearProject(project, o), GroupsOf(o)
  PROVE  \A i, j \in DOMAIN Binaries(project, o) : Binaries(project, o)[i].name = Binaries(project, o)[j].name => i = j
<1>1. PICK binaries : binaries = Binaries(project, o)
  OBVIOUS
<1>2. CASE o.cmd = "off"
  BY <1>1, <1>2, EmptyIsSequence DEF Binaries
<1>3. CASE o.cmd = "mono"
  <2>1. PICK b : binaries = <<b>>
    BY <1>1, <1>3 DEF Binaries
  <2>2. DOMAIN binaries = {1}
    BY <2>1, SingleFacts
  <2> QED BY <1>1, <2>2
<1>4. CASE o.cmd = "per-context"
  <2>1. binaries = [i \in DOMAIN project |-> [name |-> Slug(project[i].name), contexts |-> <<project[i]>>]]
    BY <1>1, <1>4 DEF Binaries
  <2>2. DOMAIN binaries = DOMAIN project /\ \A i \in DOMAIN project : binaries[i].name = Slug(project[i].name)
    BY <2>1
  <2> QED BY <1>1, <2>2 DEF ClearProject, OwnSlugs
<1>5. CASE o.cmd = "custom"
  <2>1. binaries =
          [i \in DOMAIN o.groups |->
            [name |-> o.groups[i].name,
             contexts |-> [j \in DOMAIN o.groups[i].contexts |-> Last(Called(project, o.groups[i].contexts[j]))]]]
    BY <1>1, <1>5 DEF Binaries
  <2>2. DOMAIN binaries = DOMAIN o.groups /\ \A i \in DOMAIN o.groups : binaries[i].name = o.groups[i].name
    BY <2>1
  <2> QED BY <1>1, <1>5, <2>2 DEF GroupsOf
<1> QED BY <1>2, <1>3, <1>4, <1>5 DEF GroupsOf

\* The one or two files of a binary.
LEMMA BinaryPathsDiffer ==
  ASSUME NEW b, NEW o
  PROVE  PathsDiffer(BinaryFiles(b, o))
<1>1. PICK main : main = Depending(File("main", <<"cmd", b.name>>, <<"main">>, TRUE), MainImports(o), MainImports(o))
  OBVIOUS
<1>2. PICK wire : wire = Depending(File("wire", <<"cmd", b.name>>, <<"wire">>, TRUE), WireImports(b, o), WireImports(b, o))
  OBVIOUS
<1>3. main.path[2] = <<"main">> /\ wire.path[2] = <<"wire">>
  BY <1>1, <1>2 DEF Depending, File
<1>4. <<"main">>[1] = "main" /\ <<"wire">>[1] = "wire"
  OBVIOUS
<1>5. main.path # wire.path
  BY <1>3, <1>4
<1>6. PICK s, t : s = <<main>> /\ t = If(Injectable(b, o) # {}, <<wire>>)
  OBVIOUS
<1>7. IsSequence(s) /\ ToSet(s) = {main} /\ PathsDiffer(s)
  BY <1>6, FewDiffer, SingleFacts, SmallRanges
<1>8. IsSequence(t) /\ ToSet(t) \subseteq {wire} /\ PathsDiffer(t)
  <2>1. PICK only : only = <<wire>> /\ IsSequence(only) /\ ToSet(only) = {wire} /\ PathsDiffer(only)
    BY FewDiffer, SingleFacts, SmallRanges
  <2> QED BY <1>6, <2>1, IfFacts, IfDiffers
<1>9. NoneShared(s, t)
  BY <1>5, <1>7, <1>8 DEF NoneShared
<1>10. BinaryFiles(b, o) = s \o t
  BY <1>1, <1>2, <1>6 DEF BinaryFiles, MainImports, WireImports
<1> QED BY <1>7, <1>8, <1>9, <1>10, ConcatDiffer

\* No two files of a rendering have one path.
LEMMA RenderedDiffer ==
  ASSUME NEW project, NEW o, ClearProject(project, o), DirsOf(o), GroupsOf(o), ~RenderFails(project, o)
  PROVE  PathsDiffer(Render(project, o))
<1>1. PICK rendered : rendered = [i \in DOMAIN project |-> RenderContext(project[i], o)]
  OBVIOUS
<1>2. IsSequence(project) /\ \A i \in DOMAIN project : project[i] \in ToSet(project)
  BY DEF ClearProject, ToSet
<1>3. \A i \in DOMAIN project : ClearNames(project[i]) /\ ClearDirs(project[i], o) /\ IsSequence(project[i].items)
  BY <1>2 DEF ClearProject, ClearNames
<1>4. ASSUME NEW i \in DOMAIN project
      PROVE  /\ IsSequence(rendered[i]) /\ PathsDiffer(rendered[i])
             /\ \A f \in ToSet(rendered[i]) : IsOf(project[i], f.path[1])
  <2>1. PICK c : c = project[i] /\ ClearNames(c) /\ ClearDirs(c, o) /\ IsSequence(c.items)
    BY <1>3
  <2>2. rendered[i] = RenderContext(c, o)
    BY <1>1, <2>1
  <2> QED BY <2>1, <2>2, ContextFiles, ContextPathsDiffer, ContextDirs
<1>5. IsSequence(rendered) /\ DOMAIN rendered = DOMAIN project
  <2>1. rendered = [i \in DOMAIN project |-> rendered[i]]
    BY <1>1
  <2> QED BY <1>2, <2>1, MappedFacts
<1>6. ASSUME NEW i \in DOMAIN project, NEW j \in DOMAIN project, i # j
      PROVE  NoneShared(rendered[i], rendered[j])
  <2>1. Slug(project[i].name) # Slug(project[j].name)
    BY <1>6 DEF ClearProject, OwnSlugs
  <2> QED BY <1>4, <2>1 DEF NoneShared, IsOf
<1>7. PICK contextual : contextual = FlattenSeq(rendered)
  OBVIOUS
<1>8. /\ IsSequence(contextual) /\ PathsDiffer(contextual)
      /\ \A f \in ToSet(contextual) : \E c : IsOf(c, f.path[1])
  <2>1. PathsDiffer(contextual)
    BY <1>4, <1>5, <1>6, <1>7, FlattenDiffer
  <2>2. IsSequence(contextual) /\ ToSet(contextual) = UNION {ToSet(rendered[i]) : i \in DOMAIN rendered}
    BY <1>4, <1>5, <1>7, FlattenRange
  <2> QED BY <1>4, <1>5, <2>1, <2>2
<1>9. PICK binaries : binaries = Binaries(project, o)
  OBVIOUS
<1>10. IsSequence(binaries) /\ \A i, j \in DOMAIN binaries : binaries[i].name = binaries[j].name => i = j
  BY <1>2, <1>9, BinariesFacts, BinaryNames
<1>11. PICK made : made = [i \in DOMAIN binaries |-> BinaryFiles(binaries[i], o)]
  OBVIOUS
<1>12. \A i \in DOMAIN binaries :
         /\ IsSequence(made[i]) /\ PathsDiffer(made[i])
         /\ \A f \in ToSet(made[i]) : IsBinaryFile(binaries[i], o, f)
  BY <1>11, BinaryFilesFacts, BinaryPathsDiffer
<1>13. IsSequence(made) /\ DOMAIN made = DOMAIN binaries
  <2>1. made = [i \in DOMAIN binaries |-> made[i]]
    BY <1>11
  <2> QED BY <1>10, <2>1, MappedFacts
<1>14. \A i, j \in DOMAIN binaries : i # j => NoneShared(made[i], made[j])
  BY <1>10, <1>12 DEF NoneShared, IsBinaryFile
<1>15. PICK binary : binary = FlattenSeq(made)
  OBVIOUS
<1>16. /\ IsSequence(binary) /\ PathsDiffer(binary)
       /\ \A f \in ToSet(binary) : Len(f.path[1]) = 2 /\ f.path[1][1] = "cmd"
  <2>1. PathsDiffer(binary)
    BY <1>12, <1>13, <1>14, <1>15, FlattenDiffer
  <2>2. IsSequence(binary) /\ ToSet(binary) = UNION {ToSet(made[i]) : i \in DOMAIN made}
    BY <1>12, <1>13, <1>15, FlattenRange
  <2> QED BY <1>12, <1>13, <2>1, <2>2 DEF IsBinaryFile
<1>17. PICK lint : lint = If(o.importlint, <<ArchLint>>)
  OBVIOUS
<1>18. IsSequence(lint) /\ PathsDiffer(lint) /\ \A f \in ToSet(lint) : Len(f.path[1]) = 0
  <2>1. Len(ArchLint.path[1]) = 0
    BY EmptyIsSequence DEF ArchLint, Depending, File
  <2>2. PICK f : f = ArchLint /\ Len(f.path[1]) = 0
    BY <2>1
  <2>3. PICK only : only = <<f>> /\ IsSequence(only) /\ ToSet(only) = {f} /\ PathsDiffer(only)
    BY FewDiffer, SingleFacts, SmallRanges
  <2> QED BY <1>17, <2>2, <2>3, IfFacts, IfDiffers
<1>19. NoneShared(contextual, binary)
  BY <1>8, <1>16 DEF NoneShared, IsOf
<1>20. PICK both : both = contextual \o binary
  OBVIOUS
<1>21. IsSequence(both) /\ PathsDiffer(both) /\ ToSet(both) = ToSet(contextual) \cup ToSet(binary)
  BY <1>8, <1>16, <1>19, <1>20, ConcatDiffer
<1>22. \A f \in ToSet(both) : Len(f.path[1]) # 0
  BY <1>8, <1>16, <1>21 DEF IsOf
<1>23. NoneShared(both, lint)
  BY <1>18, <1>22 DEF NoneShared
<1>24. IsSequence(both \o lint) /\ PathsDiffer(both \o lint)
  BY <1>18, <1>21, <1>23, ConcatDiffer
<1>25. FilesOf(project, o) = both \o lint
  BY <1>1, <1>7, <1>9, <1>11, <1>15, <1>17, <1>20 DEF FilesOf
<1> QED BY <1>24, <1>25, ArrangedDiffer DEF Render, ByPath

\* Files of two configurations that have one path are both scaffold-once, or neither is.
LEMMA OnceForAll ==
  ASSUME NEW project, NEW o, NEW p, ClearProject(project, o), ClearProject(project, p), DirsOf(o), DirsOf(p),
         NEW f, NEW g, IsProjectFile(project, o, f), IsProjectFile(project, p, g), f.path = g.path
  PROVE  f.once = g.once
<1>1. \/ \E c \in ToSet(project) : IsContextFile(c, o, f)
      \/ Len(f.path[1]) = 2 /\ f.path[1][1] = "cmd" /\ f.once = TRUE
      \/ Len(f.path[1]) = 0 /\ f.once = FALSE
  BY DEF IsProjectFile, IsBinaryFile
<1>2. \/ \E c \in ToSet(project) : IsContextFile(c, p, g)
      \/ Len(g.path[1]) = 2 /\ g.path[1][1] = "cmd" /\ g.once = TRUE
      \/ Len(g.path[1]) = 0 /\ g.once = FALSE
  BY DEF IsProjectFile, IsBinaryFile
<1>3. CASE \E c, d \in ToSet(project) : IsContextFile(c, o, f) /\ IsContextFile(d, p, g)
  <2>1. PICK c \in ToSet(project), d \in ToSet(project) : IsContextFile(c, o, f) /\ IsContextFile(d, p, g)
    BY <1>3
  <2>2. Slug(c.name) = Slug(d.name)
    BY <2>1, ContextDirs DEF IsOf
  <2>3. c = d
    BY <2>1, <2>2 DEF ClearProject, OwnSlugs, ToSet
  <2>4. ClearNames(c) /\ ClearDirs(c, o) /\ ClearDirs(c, p)
    BY DEF ClearProject
  <2>5. \/ f.once = TRUE /\ KeptAt(c, f)
        \/ f.once = FALSE /\ MadeAt(c, o, f)
    BY <2>1, ContextPlaces
  <2>6. \/ g.once = TRUE /\ KeptAt(c, g)
        \/ g.once = FALSE /\ MadeAt(c, p, g)
    BY <2>1, <2>3, ContextPlaces
  <2>7. ~(KeptAt(c, f) /\ MadeAt(c, p, g)) /\ ~(KeptAt(c, g) /\ MadeAt(c, o, f))
    BY <2>4, KeptApart
  <2> QED BY <2>5, <2>6, <2>7
<1>4. \A c \in ToSet(project) : /\ IsContextFile(c, o, f) => IsOf(c, f.path[1])
                                /\ IsContextFile(c, p, g) => IsOf(c, g.path[1])
  BY ContextDirs
<1>5. CASE \E c \in ToSet(project) : IsContextFile(c, o, f)
  <2>1. f.path[1][1] = "internal" /\ Len(f.path[1]) \in Nat /\ Len(f.path[1]) >= 2
    BY <1>4, <1>5 DEF IsOf
  <2>2. \E d \in ToSet(project) : IsContextFile(d, p, g)
    BY <1>2, <2>1
  <2> QED BY <1>3, <1>5, <2>2
<1>6. CASE \E d \in ToSet(project) : IsContextFile(d, p, g)
  <2>1. g.path[1][1] = "internal" /\ Len(g.path[1]) \in Nat /\ Len(g.path[1]) >= 2
    BY <1>4, <1>6 DEF IsOf
  <2>2. \E c \in ToSet(project) : IsContextFile(c, o, f)
    BY <1>1, <2>1
  <2> QED BY <1>3, <1>6, <2>2
<1>7. CASE Len(f.path[1]) = 2 /\ f.once = TRUE
  <2>1. Len(g.path[1]) = 2
    BY <1>7
  <2>2. Len(g.path[1]) # 0
    BY <2>1
  <2> QED BY <1>2, <1>6, <1>7, <2>2
<1>8. CASE Len(f.path[1]) = 0 /\ f.once = FALSE
  <2>1. Len(g.path[1]) = 0
    BY <1>8
  <2>2. Len(g.path[1]) # 2
    BY <2>1
  <2> QED BY <1>2, <1>6, <1>8, <2>2
<1> QED BY <1>1, <1>5, <1>7, <1>8

-----------------------------------------------------------------------------
\* What has been rendered under FitInv keeps apart.
LEMMA RenderKeepsApart ==
  ASSUME FitInv, ShareInv
  PROVE  FilesKeepApart
<1> SUFFICES ASSUME status = "rendered", NamesAreClear, LayoutIsClear(options)
             PROVE  /\ \A i, j \in DOMAIN files : files[i].path = files[j].path => i = j
                    /\ \A o \in Configured :
                         LayoutIsClear(o) /\ ~RenderFails(contexts, o) =>
                           \A f \in ToSet(files), g \in ToSet(Render(contexts, o)) : f.path = g.path => f.once = g.once
  BY DEF FilesKeepApart
<1>2. \A o \in Configured : DirsOf(o) /\ GroupsOf(o)
  BY ConfiguredFacts
<1>3. PICK project, opt : project = contexts /\ opt = options
  OBVIOUS
<1>4. AreContexts(project) /\ ~RenderFails(project, opt) /\ files = Render(project, opt) /\ opt \in Configured
  BY <1>3 DEF FitInv
<1>5. ASSUME NEW o \in Configured, LayoutIsClear(o)
      PROVE  ClearProject(project, o)
  <2>1. \A c \in ToSet(project) : ClearNames(c)
    BY <1>3 DEF NamesAreClear, ClearNames, FitInv, AreContexts, AreParts
  <2>2. \A c \in ToSet(project) : ClearDirs(c, o)
    BY <1>3, <1>5 DEF LayoutIsClear, ClearDirs
  <2>3. IsSequence(project) /\ OwnSlugs(project)
    BY <1>3 DEF FitInv, AreContexts, NamesAreClear, OwnSlugs
  <2> QED BY <1>5, <2>1, <2>2, <2>3 DEF ClearProject, LayoutIsClear
<1>6. ClearProject(project, opt)
  BY <1>3, <1>4, <1>5
<1>7. \A i, j \in DOMAIN files : files[i].path = files[j].path => i = j
  BY <1>2, <1>4, <1>6, RenderedDiffer DEF PathsDiffer
<1>8. ASSUME NEW o \in Configured, LayoutIsClear(o), ~RenderFails(project, o),
             NEW f \in ToSet(files), NEW g \in ToSet(Render(project, o)), f.path = g.path
      PROVE  f.once = g.once
  <2>1. ClearProject(project, o)
    BY <1>5, <1>8
  <2>2. IsProjectFile(project, opt, f) /\ IsProjectFile(project, o, g)
    BY <1>2, <1>4, <1>8, RenderedFiles
  <2> QED BY <1>2, <1>4, <1>6, <1>8, <2>1, <2>2, OnceForAll
<1> QED BY <1>3, <1>7, <1>8

(***************************************************************************)
(* Whatever is in a model, no two files that are rendered have one path,   *)
(* and no file that a user may have edited is one that another             *)
(* configuration has generated, where names, slugs, groups and directories *)
(* are clear in the sense of FilesKeepApart. This rests on                 *)
(* OptionsAssumption and WordsAssumption.                                  *)
(***************************************************************************)
THEOREM FilesStayApart == Spec => []FilesKeepApart
<1>1. FitInv /\ ShareInv => FilesKeepApart
  BY RenderKeepsApart
<1> QED BY <1>1, FitInit, FitStep, ShareAlways, PTL DEF Spec
-----------------------------------------------------------------------------
(***************************************************************************)
(* A remove keeps the rest.  What pruning takes from a list of references  *)
(* is nothing that the graph would have found (PrunedList), so that the    *)
(* children of an element (Once, Only and Hops of its lists) are those     *)
(* that it had, without those that are gone, in the same order.            *)
(***************************************************************************)
\* The first of each.
LEMMA OnceIsSequence ==
  ASSUME NEW s, IsSequence(s)
  PROVE  IsSequence(Once(s)) /\ ToSet(Once(s)) \subseteq ToSet(s)
<1>1. PICK ss : ss = [i \in DOMAIN s |-> IF \E j \in 1 .. i - 1 : s[j] = s[i] THEN <<>> ELSE <<s[i]>>]
  OBVIOUS
<1>2. ss = [i \in DOMAIN s |-> ss[i]]
  BY <1>1
<1>3. IsSequence(ss) /\ DOMAIN ss = DOMAIN s
  BY <1>2, MappedFacts
<1>4. \A i \in DOMAIN ss : ss[i] = <<>> \/ ss[i] = <<s[i]>>
  BY <1>1, <1>3
<1>5. \A i \in DOMAIN ss : IsSequence(ss[i])
  BY <1>4, SingleFacts, EmptyIsSequence
<1>6. IsSequence(FlattenSeq(ss)) /\ ToSet(FlattenSeq(ss)) = UNION {ToSet(ss[i]) : i \in DOMAIN ss}
  BY <1>3, <1>5, FlattenRange
<1>7. ASSUME NEW x \in ToSet(FlattenSeq(ss))
      PROVE  x \in ToSet(s)
  <2>1. PICK i \in DOMAIN ss : x \in ToSet(ss[i])
    BY <1>6
  <2>2. x = s[i] /\ i \in DOMAIN s
    BY ZenonT(30), <1>3, <1>4, <2>1, SmallRanges
  <2> QED BY <2>2 DEF ToSet
<1> QED BY <1>1, <1>6, <1>7 DEF Once

\* An identity behind others.
LEMMA OnceAppend ==
  ASSUME NEW s, NEW x, IsSequence(s)
  PROVE  Once(s \o <<x>>) = IF x \in ToSet(s) THEN Once(s) ELSE Once(s) \o <<x>>
<1>1. PICK t : t = s \o <<x>>
  OBVIOUS
<1>2. PICK ss : ss = [i \in DOMAIN s |-> IF \E j \in 1 .. i - 1 : s[j] = s[i] THEN <<>> ELSE <<s[i]>>]
  OBVIOUS
<1>3. PICK tt : tt = [i \in DOMAIN t |-> IF \E j \in 1 .. i - 1 : t[j] = t[i] THEN <<>> ELSE <<t[i]>>]
  OBVIOUS
<1>4. PICK n \in Nat : n = Len(s) /\ DOMAIN s = 1 .. n /\ DOMAIN t = 1 .. n + 1
                       /\ (\A i \in 1 .. n : t[i] = s[i]) /\ t[n + 1] = x
  <2>1. t = Append(s, x)
    BY <1>1, AppendConcat
  <2> QED BY <2>1, AppendFacts, SequenceFacts
<1>5. \A i \in DOMAIN s : i \in DOMAIN t /\ tt[i] = ss[i]
  <2> SUFFICES ASSUME NEW i \in DOMAIN s
               PROVE  i \in DOMAIN t /\ tt[i] = ss[i]
    OBVIOUS
  <2>1. i \in 1 .. n /\ i \in 1 .. n + 1 /\ \A j \in 1 .. i - 1 : j \in 1 .. n
    BY <1>4
  <2>2. (\E j \in 1 .. i - 1 : t[j] = t[i]) <=> (\E j \in 1 .. i - 1 : s[j] = s[i])
    BY <1>4, <2>1
  <2>3. t[i] = s[i] /\ i \in DOMAIN t
    BY <1>4, <2>1
  <2>4. /\ tt[i] = IF \E j \in 1 .. i - 1 : t[j] = t[i] THEN <<>> ELSE <<t[i]>>
        /\ ss[i] = IF \E j \in 1 .. i - 1 : s[j] = s[i] THEN <<>> ELSE <<s[i]>>
    BY <1>2, <1>3, <2>3
  <2> QED BY <2>2, <2>3, <2>4
<1>6. ss = [i \in DOMAIN s |-> ss[i]] /\ tt = [i \in DOMAIN t |-> tt[i]]
  BY <1>2, <1>3
<1>7. IsSequence(ss) /\ tt = ss \o <<tt[n + 1]>>
  <2>5. t = Append(s, x)
    BY <1>1, AppendConcat
  <2>1. IsSequence(t) /\ Len(t) = n + 1
    BY <1>4, <2>5, AppendFacts
  <2>2. IsSequence(ss) /\ Len(ss) = n
    BY <1>4, <1>6, MappedFacts
  <2>3. IsSequence(tt) /\ Len(tt) = n + 1
    BY <1>6, <2>1, MappedFacts
  <2>4. \A i \in 1 .. n : tt[i] = ss[i]
    BY <1>4, <1>5
  <2> QED BY <2>2, <2>3, <2>4, OneLonger
<1>8. tt[n + 1] = IF x \in ToSet(s) THEN <<>> ELSE <<x>>
  <2>1. n + 1 \in DOMAIN t /\ n + 1 - 1 = n
    BY <1>4
  <2>2. tt[n + 1] = IF \E j \in 1 .. n : t[j] = t[n + 1] THEN <<>> ELSE <<t[n + 1]>>
    BY <1>3, <2>1
  <2>3. (\E j \in 1 .. n : t[j] = t[n + 1]) <=> x \in ToSet(s)
    BY <1>4 DEF ToSet
  <2> QED BY <1>4, <2>2, <2>3
<1>9. PICK piece : piece = tt[n + 1] /\ IsSequence(piece)
  BY <1>8, SingleFacts, EmptyIsSequence
<1>10. FlattenSeq(tt) = FlattenSeq(ss) \o piece
  BY <1>7, <1>9, FlattenAppend
<1>11. FlattenSeq(ss) = Once(s) /\ FlattenSeq(tt) = Once(t)
  BY <1>2, <1>3 DEF Once
<1>12. IsSequence(Once(s))
  BY OnceIsSequence
<1> QED BY <1>1, <1>8, <1>9, <1>10, <1>11, <1>12, ConcatEmpty

\* The first of each in what is left are what is left of the first of each.
LEMMA OnceOnly ==
  ASSUME NEW s, NEW D, IsSequence(s)
  PROVE  Once(Only(s, D)) = Only(Once(s), D)
<1> DEFINE Bad(n) == \E r : IsSequence(r) /\ Len(r) = n /\ Once(Only(r, D)) # Only(Once(r), D)
           T == {n \in Nat : Bad(n)}
<1> SUFFICES T = {}
  <2>1. Len(s) \in Nat
    BY SequenceFacts
  <2> QED BY <2>1
<1> SUFFICES ASSUME T # {}
             PROVE  FALSE
  OBVIOUS
<1>1. T \in SUBSET Nat
  OBVIOUS
<1>2. PICK m \in T : \A n \in T : m <= n
  BY <1>1, LeastElement
<1>3. PICK r : IsSequence(r) /\ Len(r) = m /\ Once(Only(r, D)) # Only(Once(r), D)
  BY <1>2
<1>4. r # <<>>
  <2>1. Once(<<>>) = <<>>
    <3>1. [i \in DOMAIN <<>> |-> IF \E j \in 1 .. i - 1 : <<>>[j] = <<>>[i] THEN <<>> ELSE << <<>>[i] >>] = <<>>
      BY EmptyIsSequence, OnlyEmpty
    <3> QED BY <3>1, FlattenEmpty DEF Once
  <2> QED BY <1>3, <2>1, OnlyOfNothing
<1>5. PICK q, x : EndsWith(r, q, x)
  BY <1>3, <1>4, FrontAndLast
<1>6. Len(q) \in Nat /\ ~(m <= Len(q)) /\ IsSequence(q) /\ r = q \o <<x>>
  BY <1>2, <1>3, <1>5 DEF EndsWith
<1>7. Once(Only(q, D)) = Only(Once(q), D)
  BY <1>2, <1>6
<1> HIDE DEF T
<1>8. PICK a, o : a = Only(q, D) /\ o = Once(q) /\ IsSequence(a) /\ IsSequence(o)
  BY <1>6, OnlyFacts, OnceIsSequence
<1>9. ToSet(a) = ToSet(q) \cap D
  BY <1>6, <1>8, OnlyFacts
<1>10. Only(r, D) = IF x \in D THEN a \o <<x>> ELSE a
  BY <1>6, <1>8, OnlyAppend
<1>11. Once(r) = IF x \in ToSet(q) THEN o ELSE o \o <<x>>
  BY <1>6, <1>8, OnceAppend
<1>12. Once(a \o <<x>>) = IF x \in ToSet(a) THEN Once(a) ELSE Once(a) \o <<x>>
  BY <1>8, OnceAppend
<1>13. Only(o \o <<x>>, D) = IF x \in D THEN Only(o, D) \o <<x>> ELSE Only(o, D)
  BY <1>8, OnlyAppend
<1> QED BY <1>3, <1>7, <1>8, <1>9, <1>10, <1>11, <1>12, <1>13

ListFields == {"ownedRelationship", "ownedElement", "ownedRelatedElement"}

\* What pruning does to each field.
LEMMA PrunedFields ==
  ASSUME NEW el
  PROVE  /\ DOMAIN Pruned(el) = DOMAIN el
         /\ \A k \in DOMAIN el : ~(k \in ListFields /\ "refs" \in DOMAIN el[k]) => Pruned(el)[k] = el[k]
         /\ \A k \in DOMAIN el : k \in ListFields /\ "refs" \in DOMAIN el[k] =>
              /\ Pruned(el)[k] = Refs(Only(el[k].refs, ToSet(el[k].refs) \ removed))
              /\ DOMAIN Pruned(el)[k] = {"refs"}
              /\ Pruned(el)[k].refs = Only(el[k].refs, ToSet(el[k].refs) \ removed)
<1>1. DOMAIN Pruned(el) = DOMAIN el
  BY DEF Pruned
<1>2. \A k \in DOMAIN el :
        Pruned(el)[k] = IF k \in ListFields /\ "refs" \in DOMAIN el[k]
                          THEN Refs(Only(el[k].refs, ToSet(el[k].refs) \ removed)) ELSE el[k]
  BY DEF Pruned, ListFields
<1>3. \A s : DOMAIN Refs(s) = {"refs"} /\ Refs(s).refs = s
  BY DEF Refs
<1> QED BY <1>1, <1>2, <1>3

\* An element keeps its identity, and a membership its member.
LEMMA PrunedID ==
  ASSUME NEW el
  PROVE  /\ ElementID(Pruned(el)) = ElementID(el)
         /\ "memberElement" \in DOMAIN Pruned(el) <=> "memberElement" \in DOMAIN el
         /\ "memberElement" \in DOMAIN el => Pruned(el).memberElement = el.memberElement
<1>1. DOMAIN Pruned(el) = DOMAIN el
  BY PrunedFields
<1>2. \A k \in DOMAIN el : k \notin ListFields => Pruned(el)[k] = el[k]
  BY PrunedFields
<1>3. "id" \notin ListFields /\ "elementId" \notin ListFields /\ "memberElement" \notin ListFields
  BY DEF ListFields
<1>4. StrOf(Pruned(el), "id") = StrOf(el, "id") /\ StrOf(Pruned(el), "elementId") = StrOf(el, "elementId")
  BY <1>1, <1>2, <1>3 DEF StrOf
<1> QED BY <1>1, <1>2, <1>3, <1>4 DEF ElementID

LEMMA RefListIsSequence ==
  ASSUME NEW mem, NEW el, NEW k, HasLists(el)
  PROVE  IsSequence(RefList(mem, el, k))
<1>1. CASE k \notin DOMAIN el
  <2>1. RefList(mem, el, k) = <<>>
    BY <1>1 DEF RefList
  <2> QED BY <2>1, EmptyIsSequence
<1>2. CASE k \in DOMAIN el /\ "refs" \in DOMAIN el[k]
  <2>1. RefList(mem, el, k) = el[k].refs
    BY <1>2 DEF RefList
  <2> QED BY <1>2, <2>1 DEF HasLists
<1>3. CASE k \in DOMAIN el /\ "refs" \notin DOMAIN el[k]
  <2>1. RefList(mem, el, k) = IF RefID(mem, el[k]) = "" THEN <<>> ELSE <<RefID(mem, el[k])>>
    BY <1>3 DEF RefList
  <2> QED BY <2>1, EmptyIsSequence, SingleFacts
<1> QED BY <1>1, <1>2, <1>3

\* What pruning leaves of a list.
LEMMA PrunedList ==
  ASSUME NEW mem, NEW el, NEW k, NEW D, HasLists(el), D \cap removed = {}
  PROVE  /\ Only(RefList(mem, Pruned(el), k), D) = Only(RefList(mem, el, k), D)
         /\ RefList(mem, el, k) = <<>> => RefList(mem, Pruned(el), k) = <<>>
<1>1. PICK p : p = Pruned(el)
  OBVIOUS
<1>2. DOMAIN p = DOMAIN el
  BY <1>1, PrunedFields
<1>3. CASE k \notin DOMAIN el
  <2>1. RefList(mem, p, k) = <<>> /\ RefList(mem, el, k) = <<>>
    BY <1>2, <1>3 DEF RefList
  <2> QED BY <1>1, <2>1
<1>4. CASE k \in DOMAIN el /\ ~(k \in ListFields /\ "refs" \in DOMAIN el[k])
  <2>1. p[k] = el[k]
    BY <1>1, <1>4, PrunedFields
  <2>2. RefList(mem, p, k) = RefList(mem, el, k)
    BY <1>2, <2>1 DEF RefList
  <2> QED BY <1>1, <2>2
<1>5. CASE k \in DOMAIN el /\ k \in ListFields /\ "refs" \in DOMAIN el[k]
  <2>1. PICK s : s = el[k].refs /\ IsSequence(s)
    BY <1>5 DEF HasLists
  <2>2. "refs" \in DOMAIN p[k] /\ p[k].refs = Only(s, ToSet(s) \ removed)
    BY <1>1, <1>5, <2>1, PrunedFields
  <2>3. RefList(mem, el, k) = s /\ RefList(mem, p, k) = Only(s, ToSet(s) \ removed)
    BY <1>2, <1>5, <2>1, <2>2 DEF RefList
  <2>4. Only(Only(s, ToSet(s) \ removed), D) = Only(s, (ToSet(s) \ removed) \cap D)
    BY <2>1, OnlyOnly
  <2>5. ToSet(s) \cap ((ToSet(s) \ removed) \cap D) = ToSet(s) \cap D
    OBVIOUS
  <2>6. Only(s, (ToSet(s) \ removed) \cap D) = Only(s, D)
    BY <2>5, OnlySame
  <2> QED BY <1>1, <2>3, <2>4, <2>6, OnlyOfNothing
<1> QED BY <1>3, <1>4, <1>5

LEMMA PrunedHasLists ==
  ASSUME NEW el, HasLists(el)
  PROVE  HasLists(Pruned(el))
<1> SUFFICES ASSUME NEW k \in DOMAIN Pruned(el), "refs" \in DOMAIN Pruned(el)[k]
             PROVE  IsSequence(Pruned(el)[k].refs)
  BY DEF HasLists
<1>1. k \in DOMAIN el
  BY PrunedFields
<1>2. CASE ~(k \in ListFields /\ "refs" \in DOMAIN el[k])
  <2>1. Pruned(el)[k] = el[k]
    BY <1>1, <1>2, PrunedFields
  <2> QED BY <1>1, <2>1 DEF HasLists
<1>3. CASE k \in ListFields /\ "refs" \in DOMAIN el[k]
  <2>1. Pruned(el)[k].refs = Only(el[k].refs, ToSet(el[k].refs) \ removed)
    BY <1>1, <1>3, PrunedFields
  <2>2. IsSequence(el[k].refs)
    BY <1>1, <1>3 DEF HasLists
  <2> QED BY <2>1, <2>2, OnlyFacts
<1> QED BY <1>2, <1>3

\* What relationships lead to.
LEMMA ReachedFacts ==
  ASSUME NEW mem, NEW rel, NEW D, HasLists(rel), D \cap removed = {}
  PROVE  /\ IsSequence(Reached(mem, rel)) /\ IsSequence(Reached(mem, Pruned(rel)))
         /\ Only(Reached(mem, Pruned(rel)), D) = Only(Reached(mem, rel), D)
<1>1. PICK p : p = Pruned(rel)
  OBVIOUS
<1>2. PICK end : end = IF "memberElement" \in DOMAIN rel THEN <<RefID(mem, rel.memberElement)>> ELSE <<>>
  OBVIOUS
<1>3. IsSequence(end)
  BY <1>2, SingleFacts, EmptyIsSequence
<1>4. end = IF "memberElement" \in DOMAIN p THEN <<RefID(mem, p.memberElement)>> ELSE <<>>
  <2>1. /\ "memberElement" \in DOMAIN p <=> "memberElement" \in DOMAIN rel
        /\ "memberElement" \in DOMAIN rel => p.memberElement = rel.memberElement
    BY <1>1, PrunedID
  <2> QED BY <1>2, <2>1
<1>5. PICK a, b : a = RefList(mem, rel, "ownedRelatedElement") /\ b = RefList(mem, p, "ownedRelatedElement")
  OBVIOUS
<1>6. IsSequence(a) /\ IsSequence(b)
  BY <1>1, <1>5, PrunedHasLists, RefListIsSequence
<1>7. Only(b, D) = Only(a, D)
  BY <1>1, <1>5, PrunedList
<1>8. Reached(mem, rel) = a \o end /\ Reached(mem, p) = b \o end
  BY <1>2, <1>4, <1>5 DEF Reached
<1>9. IsSequence(a \o end) /\ IsSequence(b \o end)
  BY <1>3, <1>6, ConcatFacts
<1>10. Only(a \o end, D) = Only(a, D) \o Only(end, D) /\ Only(b \o end, D) = Only(b, D) \o Only(end, D)
  BY <1>3, <1>6, OnlyConcat
<1> QED BY <1>1, <1>7, <1>8, <1>9, <1>10

\* What the operators of the graph choose from a single value.
LEMMA HopsAre ==
  ASSUME NEW nds, NEW mem, NEW el, NEW rels, rels = Only(RefList(mem, el, "ownedRelationship"), DOMAIN nds)
  PROVE  Hops(nds, mem, el) = FlattenSeq([i \in DOMAIN rels |-> Reached(mem, nds[rels[i]])])
<1>1. PICK hops : hops = FlattenSeq([i \in DOMAIN rels |-> Reached(mem, nds[rels[i]])])
  OBVIOUS
<1>2. {FlattenSeq([i \in DOMAIN ids |-> Reached(mem, nds[ids[i]])]) : ids \in {rels}} = {hops}
  BY <1>1
<1>3. Hops(nds, mem, el) = CHOOSE h \in {hops} : TRUE
  BY <1>2 DEF Hops
<1> QED BY <1>1, <1>3

LEMMA ChildrenAre ==
  ASSUME NEW nds, NEW mem, NEW id, NEW derived, NEW listed, derived = RefList(mem, nds[id], "ownedElement"),
         listed = IF derived # <<>> THEN derived ELSE Hops(nds, mem, nds[id])
  PROVE  ResolveChildren(nds, mem, id) = Once(Only(listed, DOMAIN nds))
<1>1. PICK children : children = Once(Only(listed, DOMAIN nds))
  OBVIOUS
<1>2. {Once(found) : found \in {Only(ids, DOMAIN nds) : ids \in {listed}}} = {children}
  BY <1>1
<1>3. ResolveChildren(nds, mem, id) = CHOOSE c \in {children} : TRUE
  BY <1>2 DEF ResolveChildren
<1> QED BY <1>1, <1>3

\* after is what pruning leaves of before.
IsPruned(before, after) ==
  /\ DOMAIN after \subseteq DOMAIN before
  /\ DOMAIN after \cap removed = {}
  /\ \A id \in DOMAIN after : after[id] = Pruned(before[id])
  /\ \A id \in DOMAIN before : HasLists(before[id])

\* What each list of several leaves.
LEMMA FlattenedAlike ==
  ASSUME NEW ss, NEW tt, NEW D, IsSequence(ss), IsSequence(tt), DOMAIN ss = DOMAIN tt,
         \A i \in DOMAIN ss : IsSequence(ss[i]) /\ IsSequence(tt[i]) /\ Only(ss[i], D) = Only(tt[i], D)
  PROVE  Only(FlattenSeq(ss), D) = Only(FlattenSeq(tt), D)
<1>1. Only(FlattenSeq(ss), D) = FlattenSeq([i \in DOMAIN ss |-> Only(ss[i], D)])
  BY OnlyFlatten
<1>2. Only(FlattenSeq(tt), D) = FlattenSeq([i \in DOMAIN tt |-> Only(tt[i], D)])
  BY OnlyFlatten
<1>3. [i \in DOMAIN ss |-> Only(ss[i], D)] = [i \in DOMAIN tt |-> Only(tt[i], D)]
  OBVIOUS
<1> QED BY <1>1, <1>2, <1>3

\* The hops of what stays.
LEMMA PrunedHops ==
  ASSUME NEW before, NEW after, NEW mem, NEW id \in DOMAIN after, IsPruned(before, after),
         ToSet(RefList(mem, before[id], "ownedRelationship")) \cap DOMAIN before \subseteq DOMAIN after
  PROVE  Only(Hops(after, mem, after[id]), DOMAIN after) = Only(Hops(before, mem, before[id]), DOMAIN after)
<1>1. PICK el, p : el = before[id] /\ p = Pruned(el)
  OBVIOUS
<1>2. HasLists(el) /\ after[id] = p
  BY <1>1 DEF IsPruned
<1>3. PICK ids : ids = RefList(mem, el, "ownedRelationship") /\ IsSequence(ids)
  BY <1>2, RefListIsSequence
<1>4. PICK rels : rels = Only(ids, DOMAIN after)
  OBVIOUS
<1>5. IsSequence(rels) /\ ToSet(rels) \subseteq DOMAIN after
  BY <1>3, <1>4, OnlyFacts
<1>6. rels = Only(RefList(mem, el, "ownedRelationship"), DOMAIN before)
  <2>1. ToSet(ids) \cap DOMAIN before = ToSet(ids) \cap DOMAIN after
    BY <1>1, <1>3 DEF IsPruned
  <2>2. Only(ids, DOMAIN before) = Only(ids, DOMAIN after)
    BY <2>1, OnlySame
  <2> QED BY <1>3, <1>4, <2>2
<1>7. rels = Only(RefList(mem, p, "ownedRelationship"), DOMAIN after)
  <2>1. DOMAIN after \cap removed = {}
    BY DEF IsPruned
  <2> QED BY <1>1, <1>2, <1>3, <1>4, <2>1, PrunedList
<1>8. PICK ss, tt : /\ ss = [i \in DOMAIN rels |-> Reached(mem, after[rels[i]])]
                    /\ tt = [i \in DOMAIN rels |-> Reached(mem, before[rels[i]])]
  OBVIOUS
<1>9. Hops(after, mem, p) = FlattenSeq(ss) /\ Hops(before, mem, el) = FlattenSeq(tt)
  BY <1>6, <1>7, <1>8, HopsAre
<1>10. IsSequence(ss) /\ IsSequence(tt) /\ DOMAIN ss = DOMAIN rels /\ DOMAIN tt = DOMAIN rels
  <2>1. ss = [i \in DOMAIN rels |-> ss[i]] /\ tt = [i \in DOMAIN rels |-> tt[i]]
    BY <1>8
  <2> QED BY <1>5, <2>1, MappedFacts
<1>11. ASSUME NEW i \in DOMAIN rels
       PROVE  IsSequence(ss[i]) /\ IsSequence(tt[i]) /\ Only(ss[i], DOMAIN after) = Only(tt[i], DOMAIN after)
  <2>1. rels[i] \in DOMAIN after
    BY <1>5 DEF ToSet
  <2>2. PICK rel : rel = before[rels[i]] /\ HasLists(rel) /\ after[rels[i]] = Pruned(rel)
    BY <2>1 DEF IsPruned
  <2>3. ss[i] = Reached(mem, Pruned(rel)) /\ tt[i] = Reached(mem, rel)
    BY <1>8, <2>2
  <2>4. DOMAIN after \cap removed = {}
    BY DEF IsPruned
  <2> QED BY <2>2, <2>3, <2>4, ReachedFacts
<1>12. Only(FlattenSeq(ss), DOMAIN after) = Only(FlattenSeq(tt), DOMAIN after)
  BY <1>10, <1>11, FlattenedAlike
<1> QED BY <1>1, <1>2, <1>9, <1>12

\* Hops lead to a sequence.
LEMMA HopsIsSequence ==
  ASSUME NEW nds, NEW mem, NEW id \in DOMAIN nds, \A n \in DOMAIN nds : HasLists(nds[n])
  PROVE  IsSequence(Hops(nds, mem, nds[id]))
<1>1. PICK ids : ids = RefList(mem, nds[id], "ownedRelationship") /\ IsSequence(ids)
  BY RefListIsSequence
<1>2. PICK rels : rels = Only(ids, DOMAIN nds)
  OBVIOUS
<1>3. IsSequence(rels) /\ ToSet(rels) \subseteq DOMAIN nds
  BY <1>1, <1>2, OnlyFacts
<1>4. PICK ss : ss = [i \in DOMAIN rels |-> Reached(mem, nds[rels[i]])]
  OBVIOUS
<1>5. IsSequence(ss) /\ DOMAIN ss = DOMAIN rels
  <2>1. ss = [i \in DOMAIN rels |-> ss[i]]
    BY <1>4
  <2> QED BY <1>3, <2>1, MappedFacts
<1>6. ASSUME NEW i \in DOMAIN ss
      PROVE  IsSequence(ss[i])
  <2>1. PICK rel : rel = nds[rels[i]] /\ HasLists(rel)
    BY <1>3, <1>5 DEF ToSet
  <2>2. {} \cap removed = {}
    OBVIOUS
  <2>3. IsSequence(Reached(mem, rel))
    BY <2>1, <2>2, ReachedFacts
  <2> QED BY <1>4, <1>5, <2>1, <2>3
<1>7. IsSequence(FlattenSeq(ss))
  BY <1>5, <1>6, FlattenIsSequence
<1>8. Hops(nds, mem, nds[id]) = FlattenSeq(ss)
  BY <1>1, <1>2, <1>4, HopsAre
<1> QED BY <1>7, <1>8

\* The children of what stays.
LEMMA PrunedChildren ==
  ASSUME NEW before, NEW after, NEW mem, NEW id \in DOMAIN after, IsPruned(before, after),
         ToSet(RefList(mem, before[id], "ownedRelationship")) \cap DOMAIN before \subseteq DOMAIN after,
         /\ RefList(mem, before[id], "ownedElement") # <<>>
         /\ Hops(before, mem, before[id]) # <<>>
         => RefList(mem, before[id], "ownedElement") = Hops(before, mem, before[id])
  PROVE  ResolveChildren(after, mem, id) = Only(ResolveChildren(before, mem, id), DOMAIN after)
<1>1. PICK D, D0 : D = DOMAIN after /\ D0 = DOMAIN before
  OBVIOUS
<1>2. PICK el : el = before[id] /\ HasLists(el) /\ after[id] = Pruned(el)
  BY DEF IsPruned
<1>3. PICK r, p : r = RefList(mem, el, "ownedElement") /\ p = RefList(mem, Pruned(el), "ownedElement")
  OBVIOUS
<1>4. PICK h, g : h = Hops(before, mem, el) /\ g = Hops(after, mem, Pruned(el))
  OBVIOUS
<1>5. Only(p, D) = Only(r, D) /\ (r = <<>> => p = <<>>)
  <2>1. D \cap removed = {}
    BY <1>1 DEF IsPruned
  <2> QED BY <1>2, <1>3, <2>1, PrunedList
<1>6. Only(g, D) = Only(h, D)
  <2>1. Only(Hops(after, mem, after[id]), DOMAIN after) = Only(Hops(before, mem, before[id]), DOMAIN after)
    BY PrunedHops
  <2>2. g = Hops(after, mem, after[id]) /\ h = Hops(before, mem, before[id])
    BY <1>2, <1>4
  <2> QED BY <1>1, <2>1, <2>2
<1>7. PICK all, left : all = (IF r # <<>> THEN r ELSE h) /\ left = (IF p # <<>> THEN p ELSE g)
  OBVIOUS
<1>8. IsSequence(all)
  <2>1. IsSequence(r)
    BY <1>2, <1>3, RefListIsSequence
  <2>2. IsSequence(h)
    BY <1>2, <1>4, HopsIsSequence DEF IsPruned
  <2> QED BY <1>7, <2>1, <2>2
<1>9. Only(left, D) = Only(all, D)
  <2>1. CASE r = <<>> \/ p # <<>>
    BY <1>5, <1>6, <1>7, <2>1
  <2>2. CASE r # <<>> /\ p = <<>> /\ h = <<>>
    BY <1>5, <1>6, <1>7, <2>2
  <2>3. CASE r # <<>> /\ p = <<>> /\ h # <<>>
    <3>1. r = h
      BY <1>2, <1>3, <1>4, <2>3
    <3> QED BY <1>6, <1>7, <2>3, <3>1
  <2> QED BY <2>1, <2>2, <2>3
<1>10. ResolveChildren(after, mem, id) = Once(Only(left, D))
  BY <1>1, <1>2, <1>3, <1>4, <1>7, ChildrenAre
<1>11. ResolveChildren(before, mem, id) = Once(Only(all, D0))
  BY <1>1, <1>2, <1>3, <1>4, <1>7, ChildrenAre
<1>12. Only(Once(Only(all, D0)), D) = Once(Only(Only(all, D0), D))
  <2>1. IsSequence(Only(all, D0))
    BY <1>8, OnlyFacts
  <2> QED BY <2>1, OnceOnly
<1>13. Only(Only(all, D0), D) = Only(all, D0 \cap D)
  BY <1>8, OnlyOnly
<1>14. D0 \cap D = D
  BY <1>1 DEF IsPruned
<1> QED BY <1>1, <1>9, <1>10, <1>11, <1>12, <1>13, <1>14

-----------------------------------------------------------------------------
(***************************************************************************)
(* RefsInv: the lists of references in what is held are sequences, as they *)
(* are decoded (ListsAssumption).  KeptInv: a remove has put aside those   *)
(* of the elements it has come to that it does not match, and noted the    *)
(* identities of the others (Sifted); nothing is put aside otherwise.      *)
(***************************************************************************)
RefsInv == HaveLists(elements) /\ HaveLists(kept) /\ HaveLists(dupes)

LEMMA NoLists == HaveLists(<<>>)
BY EmptyIsSequence DEF HaveLists

LEMMA InputLists ==
  ASSUME MemoryInv
  PROVE  /\ \A i \in DOMAIN actions : actions[i].update # None => HasLists(actions[i].update)
         /\ source.kind = "file" => \A els \in ListsOf(source.doc) : HaveLists(els)
         /\ source.kind = "api" => \A url \in DOMAIN source.pages : HaveLists(source.pages[url].elements)
<1>1. PICK input \in Inputs : source = input.source /\ actions = input.actions
  BY DEF MemoryInv, FromInput
<1> QED BY <1>1, ListsAssumption

\* One list behind another, and an element behind a list.
LEMMA ConcatLists ==
  ASSUME NEW s, NEW t, IsSequence(s), IsSequence(t), HaveLists(s), HaveLists(t)
  PROVE  HaveLists(s \o t)
<1>1. /\ Len(s) \in Nat /\ Len(t) \in Nat
      /\ DOMAIN s = 1 .. Len(s) /\ DOMAIN t = 1 .. Len(t) /\ DOMAIN (s \o t) = 1 .. Len(s) + Len(t)
      /\ \A i \in 1 .. Len(s) + Len(t) : (s \o t)[i] = IF i <= Len(s) THEN s[i] ELSE t[i - Len(s)]
  BY SequenceFacts, ConcatFacts
<1>2. \A i \in 1 .. Len(s) + Len(t) :
        \/ i \in DOMAIN s /\ (s \o t)[i] = s[i]
        \/ i - Len(s) \in DOMAIN t /\ (s \o t)[i] = t[i - Len(s)]
  BY <1>1
<1> QED BY <1>1, <1>2 DEF HaveLists

LEMMA AppendLists ==
  ASSUME NEW s, NEW e, IsSequence(s), HaveLists(s), HasLists(e)
  PROVE  HaveLists(Append(s, e))
<1>1. /\ Len(s) \in Nat /\ DOMAIN s = 1 .. Len(s) /\ DOMAIN Append(s, e) = 1 .. Len(s) + 1
      /\ \A i \in 1 .. Len(s) : Append(s, e)[i] = s[i]
      /\ Append(s, e)[Len(s) + 1] = e
  BY SequenceFacts, AppendFacts
<1>2. \A i \in 1 .. Len(s) + 1 : i \in 1 .. Len(s) \/ i = Len(s) + 1
  BY <1>1
<1> QED BY <1>1, <1>2 DEF HaveLists

\* What updates and copies make of an element.
LEMMA MergedLists ==
  ASSUME NEW dst, NEW src, HasLists(dst), HasLists(src)
  PROVE  HasLists(MergeFields(dst, src))
<1>1. DOMAIN MergeFields(dst, src) = DOMAIN dst \cup DOMAIN src
  BY DEF MergeFields
<1>2. \A k \in DOMAIN MergeFields(dst, src) :
        \/ k \in DOMAIN src /\ MergeFields(dst, src)[k] = src[k]
        \/ k \in DOMAIN dst /\ MergeFields(dst, src)[k] = dst[k]
  <2>1. \A k \in Merged(dst, src) : k \in DOMAIN dst
    BY DEF Merged, ObjFields
  <2> QED BY <2>1 DEF MergeFields
<1> QED BY <1>2 DEF HasLists

LEMMA CopiedLists ==
  ASSUME NEW el, NEW suffix, HasLists(el)
  PROVE  HasLists(Renamed(CopyFields(el), suffix))
<1>1. HasLists(CopyFields(el))
  <2> SUFFICES ASSUME NEW k \in DOMAIN CopyFields(el), "refs" \in DOMAIN CopyFields(el)[k]
               PROVE  IsSequence(CopyFields(el)[k].refs)
    BY DEF HasLists
  <2>1. k \in DOMAIN el
    BY DEF CopyFields
  <2>2. CASE k \in ObjFields(el)
    <3>1. PICK a : CopyFields(el)[k] = Obj(a)
      BY <2>1, <2>2 DEF CopyFields
    <3> QED BY <3>1 DEF Obj
  <2>3. CASE k \notin ObjFields(el)
    <3>1. CopyFields(el)[k] = el[k]
      BY <2>1, <2>3 DEF CopyFields
    <3> QED BY <2>1, <3>1 DEF HasLists
  <2> QED BY <2>2, <2>3
<1>2. PICK c : c = CopyFields(el)
  OBVIOUS
<1>3. CASE ~HasID(c)
  BY <1>1, <1>2, <1>3 DEF Renamed
<1>4. CASE HasID(c)
  <2>1. PICK id : id = Str(Suffixed(c.id.str, suffix))
    OBVIOUS
  <2>2. PICK new : new = [id |-> id, elementId |-> id]
    OBVIOUS
  <2>3. Renamed(c, suffix) = Over(new, c)
    BY <1>4, <2>1, <2>2 DEF Renamed
  <2>4. \A k \in DOMAIN new : new[k] = id
    BY <2>2
  <2>5. "refs" \notin DOMAIN id
    BY <2>1 DEF Str
  <2>6. \A k \in DOMAIN Over(new, c) : Over(new, c)[k] = id \/ (k \in DOMAIN c /\ Over(new, c)[k] = c[k])
    BY <2>4 DEF Over
  <2>7. HasLists(Over(new, c))
    BY <1>1, <1>2, <2>5, <2>6 DEF HasLists
  <2> QED BY <1>2, <2>3, <2>7
<1> QED BY <1>2, <1>3, <1>4

LEMMA RefsInit == Init => RefsInv
BY NoLists DEF Init, LoaderInit, OverlayInit, RefsInv

LEMMA LoadedLists ==
  ASSUME ShareInv, RefsInv, Load
  PROVE  RefsInv'
<1>1. status = "load" /\ MemoryInv /\ ListsInv
  BY DEF Load, ReadFile, LatestCommit, FetchPage, PageRepeats, RequestFails, Loading, ShareInv
<1>2. HaveLists(elements) /\ HaveLists(kept) /\ HaveLists(dupes)
  BY DEF RefsInv
<1>3. HaveLists(elements') /\ UNCHANGED kept /\ UNCHANGED dupes
  <2>1. ASSUME LoadFails
        PROVE  HaveLists(elements') /\ UNCHANGED kept /\ UNCHANGED dupes
    BY <2>1, NoLists DEF LoadFails, Returned, actionVars
  <2>2. CASE ReadFile
    <3>1. \A els \in ListsOf(source.doc) : HaveLists(els)
      BY <1>1, <2>2, InputLists DEF ReadFile, Loading
    <3>2. \/ LoadFails
          \/ \E els \in ListsOf(source.doc) : Loaded(els)
      BY <2>2 DEF ReadFile, Decode, ListsOf
    <3>3. ASSUME NEW els \in ListsOf(source.doc), Loaded(els)
          PROVE  HaveLists(elements') /\ UNCHANGED kept /\ UNCHANGED dupes
      BY <3>1, <3>3 DEF Loaded, Returned, actionVars
    <3> QED BY <2>1, <3>2, <3>3
  <2>3. CASE LatestCommit
    <3>1. CASE LoadFails
      BY <2>1, <3>1
    <3>2. CASE UNCHANGED <<source, visited, overlayVars, status>>
      BY <1>2, <3>2 DEF overlayVars, actionVars
    <3> QED BY <2>3, <3>1, <3>2 DEF LatestCommit
  <2>4. CASE FetchPage
    <3>1. source.kind = "api" /\ next \in DOMAIN source.pages
      BY <2>4 DEF FetchPage, Loading
    <3>2. PICK more : more = source.pages[next].elements /\ IsSequence(more) /\ HaveLists(more)
      <4>1. AreObjects(source.pages[next].elements, Len(objects))
        BY <1>1, <3>1, InputFacts
      <4>2. HaveLists(source.pages[next].elements)
        BY <1>1, <3>1, InputLists
      <4> QED BY <4>1, <4>2 DEF AreObjects
    <3>3. IsSequence(elements)
      BY <1>1 DEF ListsInv, AreObjects
    <3>4. HaveLists(elements \o more)
      BY <1>2, <3>2, <3>3, ConcatLists
    <3>5. elements' = elements \o more /\ UNCHANGED kept /\ UNCHANGED dupes
      BY <2>4, <3>2 DEF FetchPage, Loaded, Returned, actionVars
    <3> QED BY <3>4, <3>5
  <2>5. CASE PageRepeats
    BY <1>2, <2>5 DEF PageRepeats, Loaded, Returned, actionVars
  <2>6. CASE RequestFails
    BY <2>1, <2>6 DEF RequestFails
  <2> QED BY <2>2, <2>3, <2>4, <2>5, <2>6 DEF Load
<1>4. kept' = kept /\ dupes' = dupes
  BY <1>3
<1> QED BY <1>2, <1>3, <1>4 DEF RefsInv

LEMMA RefsStep == ShareInv /\ RefsInv /\ [Next]_vars => RefsInv'
<1> SUFFICES ASSUME ShareInv, RefsInv, [Next]_vars
             PROVE  RefsInv'
  OBVIOUS
<1>1. HaveLists(elements) /\ HaveLists(kept) /\ HaveLists(dupes) /\ MemoryInv
  BY DEF RefsInv, ShareInv
<1>2. IsSequence(elements) /\ IsSequence(kept) /\ IsSequence(dupes)
  BY DEF ShareInv, ListsInv, AreObjects
<1>3. CASE Load
  BY <1>3, LoadedLists
<1>4. CASE UpdateElement
  <2>1. Doing("update") /\ AtElement /\ UNCHANGED kept /\ UNCHANGED dupes
    BY <1>4 DEF UpdateElement
  <2>2. at \in DOMAIN elements /\ act \in DOMAIN actions
    BY <2>1, AtAnElement
  <2>3. Action.update # None
    BY <2>1 DEF Doing, Op
  <2>4. HasLists(Action.update) /\ HasLists(elements[at])
    BY <1>1, <2>2, <2>3, InputLists DEF Action, HaveLists
  <2>5. PICK new : new = MergeFields(elements[at], Action.update) /\ HasLists(new)
    BY <2>4, MergedLists
  <2>6. UNCHANGED elements \/ elements' = [elements EXCEPT ![at] = new]
    BY <1>4, <2>5 DEF UpdateElement
  <2>7. HaveLists(elements')
    <3>1. CASE UNCHANGED elements
      BY <1>1, <3>1
    <3>2. CASE elements' = [elements EXCEPT ![at] = new]
      BY <1>1, <2>5, <3>2 DEF HaveLists
    <3> QED BY <2>6, <3>1, <3>2
  <2> QED BY <1>1, <2>1, <2>7 DEF RefsInv
<1>5. CASE RemoveElement
  <2>1. Doing("remove") /\ AtElement /\ UNCHANGED elements /\ UNCHANGED dupes
    BY <1>5 DEF RemoveElement
  <2>2. HasLists(El)
    BY <1>1, <2>1, AtAnElement DEF El, HaveLists
  <2>3. UNCHANGED kept \/ kept' = Append(kept, El)
    BY <1>5 DEF RemoveElement
  <2>4. HaveLists(kept')
    BY <1>1, <1>2, <2>2, <2>3, AppendLists
  <2> QED BY <1>1, <2>1, <2>4 DEF RefsInv
<1>6. CASE CopyElement
  <2>1. Doing("copy") /\ AtElement /\ UNCHANGED elements /\ UNCHANGED kept
    BY <1>6 DEF CopyElement
  <2>2. HasLists(El)
    BY <1>1, <2>1, AtAnElement DEF El, HaveLists
  <2>3. PICK copy : copy = Renamed(CopyFields(El), Action.copy) /\ HasLists(copy)
    BY <2>2, CopiedLists
  <2>4. UNCHANGED dupes \/ dupes' = Append(dupes, copy)
    BY <1>6, <2>3 DEF CopyElement
  <2>5. HaveLists(dupes')
    BY <1>1, <1>2, <2>3, <2>4, AppendLists
  <2> QED BY <1>1, <2>1, <2>5 DEF RefsInv
<1>7. CASE NextAction
  <2>1. kept' = <<>> /\ dupes' = <<>>
    BY <1>7 DEF NextAction
  <2>2. \/ UNCHANGED elements
        \/ elements' = [i \in DOMAIN kept |-> Pruned(kept[i])]
        \/ elements' = elements \o dupes
    BY <1>7 DEF NextAction
  <2>3. HaveLists(elements')
    <3>1. CASE UNCHANGED elements
      BY <1>1, <3>1
    <3>2. CASE elements' = [i \in DOMAIN kept |-> Pruned(kept[i])]
      <4>1. \A i \in DOMAIN kept : HasLists(Pruned(kept[i]))
        BY <1>1, PrunedHasLists DEF HaveLists
      <4> QED BY <3>2, <4>1 DEF HaveLists
    <3>3. CASE elements' = elements \o dupes
      BY <1>1, <1>2, <3>3, ConcatLists
    <3> QED BY <2>2, <3>1, <3>2, <3>3
  <2> QED BY <2>1, <2>3, NoLists DEF RefsInv
<1>8. CASE UNCHANGED overlayVars
  <2>1. elements' = elements /\ kept' = kept /\ dupes' = dupes
    BY <1>8 DEF overlayVars, actionVars
  <2> QED BY <1>1, <2>1 DEF RefsInv
<1>9. Load \/ Apply \/ UNCHANGED overlayVars
  BY NextCases DEF inputVars
<1>10. Apply => UpdateElement \/ RemoveElement \/ CopyElement \/ NextAction \/ UNCHANGED overlayVars
  BY DEF Apply, ActionFails, ApplyDone
<1> QED BY <1>3, <1>4, <1>5, <1>6, <1>7, <1>8, <1>9, <1>10

Matching == {i \in DOMAIN elements : Match(elements[i], Action.target)}

\* A remove has put aside, of the elements it has come to, those it does not match.
Sifted ==
  /\ \A i \in DOMAIN elements : i < at /\ i \notin Matching => elements[i] \in ToSet(kept)
  /\ \A el \in ToSet(kept) : \E i \in DOMAIN elements \ Matching : el = elements[i]
  /\ \A r \in removed : \E i \in Matching : HasID(elements[i]) /\ r = elements[i].id.str

KeptInv ==
  status \in {"load", "overlay"} =>
    IF Doing("remove") THEN Sifted ELSE kept = <<>> /\ removed = {}

LEMMA KeptInit == Init => KeptInv
BY DEF Init, LoaderInit, OverlayInit, KeptInv, Doing

LEMMA KeptRemove ==
  ASSUME ShareInv, KeptInv, RemoveElement
  PROVE  KeptInv'
<1>1. /\ Doing("remove") /\ AtElement /\ at' = at + 1 /\ UNCHANGED elements
      /\ UNCHANGED actions /\ UNCHANGED act /\ UNCHANGED status
  BY DEF RemoveElement
<1>2. status = "overlay" /\ Sifted
  BY <1>1 DEF KeptInv, Doing
<1>3. Doing("remove")' /\ Matching' = Matching
  <2>1. Action' = Action
    BY <1>1 DEF Action
  <2> QED BY <1>1, <2>1 DEF Doing, Matching
<1>4. at \in DOMAIN elements /\ at \in Nat /\ DOMAIN elements \subseteq Nat /\ IsSequence(kept)
  <2>1. IsSequence(elements) /\ IsSequence(kept) /\ at \in Nat
    BY DEF ShareInv, ListsInv, AreObjects, MemoryInv
  <2>2. at \in DOMAIN elements
    BY <1>1, AtAnElement
  <2>3. DOMAIN elements \subseteq Nat
    BY <2>1, SequenceFacts
  <2> QED BY <2>1, <2>2, <2>3
<1>5. \A i \in DOMAIN elements : i < at + 1 => i < at \/ i = at
  BY <1>4
<1>6. Matched <=> at \in Matching
  BY <1>4 DEF Matched, Matching, El
<1>7. CASE Matched
  <2>1. kept' = kept /\ removed' = removed \cup (IF HasID(El) THEN {El.id.str} ELSE {})
    BY <1>7 DEF RemoveElement
  <2>2. \A i \in DOMAIN elements : i < at + 1 /\ i \notin Matching => elements[i] \in ToSet(kept)
    BY <1>2, <1>5, <1>6, <1>7 DEF Sifted
  <2>3. \A r \in removed' : \E i \in Matching : HasID(elements[i]) /\ r = elements[i].id.str
    <3> SUFFICES ASSUME NEW r \in removed'
                 PROVE  \E i \in Matching : HasID(elements[i]) /\ r = elements[i].id.str
      OBVIOUS
    <3>1. CASE r \in removed
      BY <1>2, <3>1 DEF Sifted
    <3>2. CASE r \notin removed
      <4>1. HasID(El) /\ r = El.id.str
        BY <2>1, <3>2
      <4> QED BY <1>6, <1>7, <4>1 DEF El
    <3> QED BY <3>1, <3>2
  <2>4. \A el \in ToSet(kept) : \E i \in DOMAIN elements \ Matching : el = elements[i]
    BY <1>2 DEF Sifted
  <2>5. Sifted'
    BY <1>1, <1>3, <2>1, <2>2, <2>3, <2>4 DEF Sifted
  <2> QED BY <1>3, <2>5 DEF KeptInv
<1>8. CASE ~Matched
  <2>1. kept' = Append(kept, El) /\ removed' = removed
    BY <1>8 DEF RemoveElement
  <2>2. ToSet(kept') = ToSet(kept) \cup {El}
    <3>1. /\ Len(kept) \in Nat /\ DOMAIN kept = 1 .. Len(kept) /\ DOMAIN Append(kept, El) = 1 .. Len(kept) + 1
          /\ \A i \in 1 .. Len(kept) : Append(kept, El)[i] = kept[i]
          /\ Append(kept, El)[Len(kept) + 1] = El
      BY <1>4, SequenceFacts, AppendFacts
    <3>2. \A i : i \in 1 .. Len(kept) + 1 <=> i \in 1 .. Len(kept) \/ i = Len(kept) + 1
      BY <3>1
    <3>3. PICK t : t = Append(kept, El)
      OBVIOUS
    <3>4. ToSet(t) = ToSet(kept) \cup {El}
      BY <3>1, <3>2, <3>3 DEF ToSet
    <3> QED BY <2>1, <3>3, <3>4
  <2>3. \A i \in DOMAIN elements : i < at + 1 /\ i \notin Matching => elements[i] \in ToSet(kept')
    BY <1>2, <1>5, <2>2 DEF Sifted, El
  <2>4. \A el \in ToSet(kept') : \E i \in DOMAIN elements \ Matching : el = elements[i]
    <3>1. at \in DOMAIN elements \ Matching /\ El = elements[at]
      BY <1>4, <1>6, <1>8 DEF El
    <3> QED BY <1>2, <2>2, <3>1 DEF Sifted
  <2>5. \A r \in removed : \E i \in Matching : HasID(elements[i]) /\ r = elements[i].id.str
    BY <1>2 DEF Sifted
  <2>6. Sifted'
    BY <1>1, <1>3, <2>1, <2>3, <2>4, <2>5 DEF Sifted
  <2> QED BY <1>3, <2>6 DEF KeptInv
<1> QED BY <1>7, <1>8

LEMMA KeptStep == ShareInv /\ ShareInv' /\ KeptInv /\ [Next]_vars => KeptInv'
<1> SUFFICES ASSUME ShareInv, ShareInv', KeptInv, [Next]_vars
             PROVE  KeptInv'
  OBVIOUS
<1>1. IsSequence(elements')
  BY DEF ShareInv, ListsInv, AreObjects
<1>2. ASSUME at' = 1, kept' = <<>>, removed' = {}
      PROVE  KeptInv'
  <2>1. Sifted'
    <3>1. \A i \in DOMAIN elements' : ~(i < 1)
      BY <1>1, SequenceFacts
    <3>2. ToSet(<<>>) = {}
      BY EmptyIsSequence DEF ToSet
    <3> QED BY <1>2, <3>1, <3>2 DEF Sifted
  <2> QED BY <1>2, <2>1 DEF KeptInv
<1>3. ASSUME ~(status' \in {"load", "overlay"})
      PROVE  KeptInv'
  BY <1>3 DEF KeptInv
<1>4. CASE Load
  <2>1. status = "load"
    BY <1>4 DEF Load, ReadFile, LatestCommit, FetchPage, PageRepeats, RequestFails, Loading
  <2>2. at = 1 /\ kept = <<>> /\ removed = {}
    BY <2>1 DEF ShareInv, LoadInv, KeptInv, Doing
  <2>3. UNCHANGED actionVars
    BY <1>4 DEF Load, ReadFile, Decode, LatestCommit, FetchPage, PageRepeats, RequestFails, Loaded, LoadFails,
                Returned, overlayVars
  <2> QED BY <1>2, <2>2, <2>3 DEF actionVars
<1>5. CASE UpdateElement \/ CopyElement
  <2>1. /\ Doing("update") \/ Doing("copy")
        /\ UNCHANGED actions /\ UNCHANGED act /\ UNCHANGED status /\ UNCHANGED kept /\ UNCHANGED removed
    BY <1>5 DEF UpdateElement, CopyElement
  <2>2. status = "overlay" /\ ~Doing("remove")
    BY <2>1 DEF Doing
  <2>3. ~Doing("remove")'
    <3>1. Action' = Action
      BY <2>1 DEF Action
    <3> QED BY <2>1, <2>2, <3>1 DEF Doing
  <2>4. kept = <<>> /\ removed = {}
    BY <2>2 DEF KeptInv
  <2> QED BY <2>1, <2>3, <2>4 DEF KeptInv
<1>6. CASE RemoveElement
  BY <1>6, KeptRemove
<1>7. CASE NextAction
  <2>1. at' = 1 /\ kept' = <<>> /\ removed' = {}
    BY <1>7 DEF NextAction
  <2> QED BY <1>2, <2>1
<1>8. CASE ActionFails \/ ApplyDone
  BY <1>3, <1>8 DEF ActionFails, ApplyDone
<1>9. CASE /\ UNCHANGED inputVars
           /\ (status' = "load" <=> status = "load") /\ (status' = "overlay" <=> status = "overlay")
  <2>1. /\ UNCHANGED elements /\ UNCHANGED actions /\ UNCHANGED act
        /\ UNCHANGED at /\ UNCHANGED kept /\ UNCHANGED removed
    BY <1>9 DEF inputVars, overlayVars, actionVars
  <2>2. Action' = Action
    BY <2>1 DEF Action
  <2>3. Doing("remove")' <=> Doing("remove")
    BY <1>9, <2>1, <2>2 DEF Doing
  <2>4. Sifted' <=> Sifted
    BY <2>1, <2>2 DEF Sifted, Matching
  <2> QED BY <1>9, <2>1, <2>3, <2>4 DEF KeptInv
<1>10. \/ Load \/ Apply
       \/ /\ UNCHANGED inputVars
          /\ (status' = "load" <=> status = "load") /\ (status' = "overlay" <=> status = "overlay")
  BY NextCases
<1> QED BY <1>4, <1>5, <1>6, <1>7, <1>8, <1>9, <1>10 DEF Apply

LEMMA KeptAlways == Spec => [](ShareInv /\ RefsInv /\ KeptInv)
<1>1. Init => ShareInv /\ RefsInv /\ KeptInv
  BY ShareInit, RefsInit, KeptInit
<1>2. ShareInv /\ RefsInv /\ KeptInv /\ [Next]_vars => (ShareInv /\ RefsInv /\ KeptInv)'
  BY ShareStep, RefsStep, KeptStep
<1> QED BY <1>1, <1>2, PTL DEF Spec

\* The graph that there would be.
LEMMA IndexFacts ==
  ASSUME NEW els
  PROVE  /\ DOMAIN Index(els) = {ElementID(els[i]) : i \in DOMAIN els} \ {""}
         /\ \A id \in DOMAIN Index(els) : \E i \in DOMAIN els : ElementID(els[i]) = id /\ Index(els)[id] = els[i]
<1>1. DOMAIN Index(els) = {ElementID(els[i]) : i \in DOMAIN els} \ {""}
  BY DEF Index
<1>2. ASSUME NEW id \in DOMAIN Index(els)
      PROVE  \E i \in DOMAIN els : ElementID(els[i]) = id /\ Index(els)[id] = els[i]
  <2>1. Index(els)[id] = els[CHOOSE i \in DOMAIN els : ElementID(els[i]) = id]
    BY <1>1 DEF Index
  <2>2. \E i \in DOMAIN els : ElementID(els[i]) = id
    BY <1>1
  <2> QED BY <2>1, <2>2
<1> QED BY <1>1, <1>2

\* What a remove makes of it.
LEMMA RemovedIndex ==
  ASSUME ShareInv, RefsInv, KeptInv, Doing("remove"), ~AtElement, IdentitiesDiffer(elements),
         NEW els, DOMAIN els = DOMAIN kept, \A j \in DOMAIN els : els[j] = Pruned(kept[j]),
         NEW before, before = Index(elements), NEW after, after = Index(els)
  PROVE  DOMAIN after = DOMAIN before \ Gone /\ IsPruned(before, after)
<1>1. Sifted
  BY DEF KeptInv, Doing
<1>2. \A i \in DOMAIN elements : i \notin Matching => elements[i] \in ToSet(kept)
  <2>1. IsSequence(elements) /\ at \in Nat
    BY DEF ShareInv, ListsInv, AreObjects, MemoryInv
  <2>2. \A i \in DOMAIN elements : i < at
    BY <2>1, SequenceFacts DEF AtElement
  <2> QED BY <1>1, <2>2 DEF Sifted
<1>3. DOMAIN els = DOMAIN kept /\ \A j \in DOMAIN els : els[j] = Pruned(kept[j]) /\ ElementID(els[j]) = ElementID(kept[j])
  BY PrunedID
<1>4. \A j \in DOMAIN kept : kept[j] \in ToSet(kept)
  BY DEF ToSet
<1>5. \A j \in DOMAIN els : \E i \in DOMAIN elements \ Matching : kept[j] = elements[i]
  BY <1>1, <1>3, <1>4 DEF Sifted
<1>6. Gone = {ElementID(elements[i]) : i \in Matching} /\ Matching \subseteq DOMAIN elements
  BY DEF Gone, Matching
<1>7. \A i, j \in DOMAIN elements : ElementID(elements[i]) = ElementID(elements[j]) /\ ElementID(elements[i]) # "" => i = j
  BY DEF IdentitiesDiffer
<1>8. /\ DOMAIN after = {ElementID(els[j]) : j \in DOMAIN els} \ {""}
      /\ \A id \in DOMAIN after : \E j \in DOMAIN els : ElementID(els[j]) = id /\ after[id] = els[j]
  <2>1. /\ DOMAIN Index(els) = {ElementID(els[j]) : j \in DOMAIN els} \ {""}
        /\ \A id \in DOMAIN Index(els) :
             \E j \in DOMAIN els : ElementID(els[j]) = id /\ Index(els)[id] = els[j]
    BY Zenon, IndexFacts
  <2> QED BY <2>1
<1>9. /\ DOMAIN before = {ElementID(elements[i]) : i \in DOMAIN elements} \ {""}
      /\ \A id \in DOMAIN before : \E i \in DOMAIN elements : ElementID(elements[i]) = id /\ before[id] = elements[i]
  <2>1. /\ DOMAIN Index(elements) = {ElementID(elements[j]) : j \in DOMAIN elements} \ {""}
        /\ \A id \in DOMAIN Index(elements) :
             \E j \in DOMAIN elements : ElementID(elements[j]) = id /\ Index(elements)[id] = elements[j]
    BY Zenon, IndexFacts
  <2> QED BY <2>1
<1>10. ASSUME NEW id \in DOMAIN after
       PROVE  id \in DOMAIN before \ Gone
  <2>1. PICK j \in DOMAIN els : id = ElementID(els[j]) /\ id # ""
    BY <1>8
  <2>2. PICK i \in DOMAIN elements \ Matching : kept[j] = elements[i]
    BY <1>5
  <2>3. id = ElementID(elements[i])
    BY <1>3, <2>1, <2>2
  <2>4. id \notin Gone
    BY <1>6, <1>7, <2>1, <2>2, <2>3
  <2> QED BY <1>9, <2>1, <2>3, <2>4
<1>11. ASSUME NEW id \in DOMAIN before \ Gone
       PROVE  id \in DOMAIN after
  <2>1. PICK i \in DOMAIN elements : id = ElementID(elements[i]) /\ id # ""
    BY <1>9
  <2>2. i \notin Matching
    BY <1>6, <2>1
  <2>3. PICK j \in DOMAIN kept : kept[j] = elements[i]
    BY <1>2, <2>2 DEF ToSet
  <2>4. j \in DOMAIN els /\ ElementID(els[j]) = id
    BY <1>3, <2>1, <2>3
  <2> QED BY <1>8, <2>1, <2>4
<1>12. DOMAIN after = DOMAIN before \ Gone
  BY <1>10, <1>11
<1>13. DOMAIN after \cap removed = {}
  <2> SUFFICES ASSUME NEW r \in DOMAIN after, r \in removed
               PROVE  FALSE
    OBVIOUS
  <2>1. PICK i \in Matching : HasID(elements[i]) /\ r = elements[i].id.str
    BY <1>1 DEF Sifted
  <2>2. r # ""
    BY <1>8
  <2>3. StrOf(elements[i], "id") = r
    BY <2>1 DEF HasID, StrOf
  <2>4. ElementID(elements[i]) = r
    BY <2>2, <2>3 DEF ElementID, FirstOf
  <2> QED BY <1>6, <1>12, <2>1, <2>4
<1>14. ASSUME NEW id \in DOMAIN after
       PROVE  after[id] = Pruned(before[id])
  <2>1. PICK j \in DOMAIN els : ElementID(els[j]) = id /\ after[id] = els[j]
    BY <1>8
  <2>2. PICK i \in DOMAIN elements \ Matching : kept[j] = elements[i]
    BY <1>5
  <2>3. id \in DOMAIN before /\ id # ""
    BY <1>8, <1>12
  <2>4. PICK n \in DOMAIN elements : ElementID(elements[n]) = id /\ before[id] = elements[n]
    BY <1>9, <2>3
  <2>5. n = i
    BY <1>3, <1>7, <2>1, <2>2, <2>3, <2>4
  <2> QED BY <1>3, <2>1, <2>2, <2>4, <2>5
<1>15. \A id \in DOMAIN before : HasLists(before[id])
  <2>1. \A i \in DOMAIN elements : HasLists(elements[i])
    BY DEF RefsInv, HaveLists
  <2> QED BY <1>9, <2>1
<1> QED BY <1>12, <1>13, <1>14, <1>15 DEF IsPruned

(***************************************************************************)
(* For every model and every document: what a remove matches goes out of   *)
(* the graph that Build will find, nothing else does, and the children of  *)
(* what stays are those it had, without what is gone.                      *)
(***************************************************************************)
Removes ==
  Doing("remove") /\ ~AtElement /\ IdentitiesDiffer(elements) =>
    \A before \in {Index(elements)}, after \in {Index(elements')} :
      /\ DOMAIN after = DOMAIN before \ Gone
      /\ FormsAgree(before) /\ MembershipsStay(before) =>
           \A id \in DOMAIN after :
             ResolveChildren(after, objects, id) = Only(ResolveChildren(before, objects, id), DOMAIN after)

LEMMA RemovesStep == ShareInv /\ RefsInv /\ KeptInv /\ [Next]_vars => [Removes]_vars
<1> SUFFICES ASSUME ShareInv, RefsInv, KeptInv, Next, Doing("remove"), ~AtElement, IdentitiesDiffer(elements),
                    NEW before, before = Index(elements), NEW after, after = Index(elements')
             PROVE  /\ DOMAIN after = DOMAIN before \ Gone
                    /\ FormsAgree(before) /\ MembershipsStay(before) =>
                         \A id \in DOMAIN after :
                           ResolveChildren(after, objects, id) = Only(ResolveChildren(before, objects, id), DOMAIN after)
  BY DEF Removes
<1>1. elements' = [i \in DOMAIN kept |-> Pruned(kept[i])]
  <2>1. status = "overlay" /\ ~Doing("update") /\ ~Doing("copy") /\ ~Doing("fail") /\ act <= Len(actions)
    BY DEF Doing
  <2>2. ~Load
    BY <2>1 DEF Load, ReadFile, LatestCommit, FetchPage, PageRepeats, RequestFails, Loading
  <2>3. Apply
    <3>1. ~(IndexElements \/ (\E id \in unvisited : ResolveElement(id)) \/ BuildDone)
      BY <2>1 DEF IndexElements, ResolveElement, BuildDone
    <3>2. ~(CollectContexts \/ VisitDescendant \/ ClassifyDescendant \/ CloseContext)
      BY <2>1, Zenon DEF CollectContexts, VisitDescendant, ClassifyDescendant, CloseContext, Calling
    <3>3. ~(Synthesize \/ SortProject \/ RenderProject)
      BY <2>1, Zenon DEF Synthesize, SortProject, RenderProject
    <3> QED BY <2>2, <3>1, <3>2, <3>3 DEF Next
  <2>4. NextAction
    <3>1. ~UpdateElement /\ ~RemoveElement /\ ~CopyElement /\ ~ActionFails
      BY <2>1 DEF UpdateElement, RemoveElement, CopyElement, ActionFails
    <3>2. ~ApplyDone
      <4>1. act \in Nat /\ Len(actions) \in Nat
        BY InputFacts, SequenceFacts DEF ShareInv, MemoryInv
      <4> QED BY <2>1, <4>1 DEF ApplyDone
    <3> QED BY <2>3, <3>1, <3>2 DEF Apply
  <2> QED BY <2>1, <2>4 DEF NextAction
<1>2. DOMAIN after = DOMAIN before \ Gone /\ IsPruned(before, after)
  <2>1. PICK els : els = elements'
    OBVIOUS
  <2>2. DOMAIN els = DOMAIN kept /\ (\A j \in DOMAIN els : els[j] = Pruned(kept[j])) /\ after = Index(els)
    BY <1>1, <2>1
  <2> QED BY <2>2, RemovedIndex
<1>3. ASSUME FormsAgree(before), MembershipsStay(before), NEW id \in DOMAIN after
      PROVE  ResolveChildren(after, objects, id) = Only(ResolveChildren(before, objects, id), DOMAIN after)
  <2>1. id \in DOMAIN before \ Gone
    BY <1>2
  <2>2. ToSet(RefList(objects, before[id], "ownedRelationship")) \cap DOMAIN before \subseteq DOMAIN after
    BY <1>2, <1>3, <2>1 DEF MembershipsStay
  <2>3. /\ RefList(objects, before[id], "ownedElement") # <<>>
        /\ Hops(before, objects, before[id]) # <<>>
        => RefList(objects, before[id], "ownedElement") = Hops(before, objects, before[id])
    BY <1>3, <2>1 DEF FormsAgree
  <2> QED BY <1>2, <2>2, <2>3, PrunedChildren
<1> QED BY <1>2, <1>3

THEOREM RemovesKeep == Spec => RemovesKeepTheRest
<1>1. Spec => [][Removes]_vars
  BY KeptAlways, RemovesStep, PTL DEF Spec
<1>2. RemovesKeepTheRest <=> [][Removes]_vars
  BY DEF RemovesKeepTheRest, Removes
<1> QED BY <1>1, <1>2
-----------------------------------------------------------------------------
(***************************************************************************)
(* Every import that a type in a context comes with has been asked for:    *)
(* what the walk comes to is in the graph (WalkInv), whose elements own    *)
(* sequences of others, and the types that an element is made of are those *)
(* of features that its requests have been made for.                       *)
(***************************************************************************)
\* The graph is closed, and its elements own sequences.
IsClosed(g) ==
  \A id \in DOMAIN g.nodes : IsSequence(Owned(g, id)) /\ ToSet(Owned(g, id)) \subseteq DOMAIN g.nodes

LEMMA OwnedFacts ==
  ASSUME NEW g, \A id \in DOMAIN g.nodes : HasLists(g.nodes[id])
  PROVE  IsClosed(g)
<1> SUFFICES ASSUME NEW id \in DOMAIN g.nodes
             PROVE  IsSequence(Owned(g, id)) /\ ToSet(Owned(g, id)) \subseteq DOMAIN g.nodes
  BY DEF IsClosed
<1>1. PICK nds, mem : nds = g.nodes /\ mem = g.objects
  OBVIOUS
<1>2. PICK derived : derived = RefList(mem, nds[id], "ownedElement") /\ IsSequence(derived)
  BY <1>1, RefListIsSequence
<1>3. PICK listed : listed = (IF derived # <<>> THEN derived ELSE Hops(nds, mem, nds[id])) /\ IsSequence(listed)
  <2>1. IsSequence(Hops(nds, mem, nds[id]))
    BY <1>1, HopsIsSequence
  <2> QED BY <1>2, <2>1
<1>4. PICK found : found = Only(listed, DOMAIN nds) /\ IsSequence(found) /\ ToSet(found) \subseteq DOMAIN nds
  BY <1>3, OnlyFacts
<1>5. Owned(g, id) = Once(found)
  BY <1>1, <1>2, <1>3, <1>4, ChildrenAre DEF Owned
<1> QED BY <1>1, <1>4, <1>5, OnceIsSequence

\* What is looked at in an element.
LEMMA FeatureFacts ==
  ASSUME NEW g, IsClosed(g), NEW id \in DOMAIN g.nodes
  PROVE  /\ IsSequence(Usages(g, id)) /\ IsSequence(DirectedFeatures(g, id)) /\ IsSequence(Items(g, id))
         /\ IsSequence(Operations(g, id)) /\ ToSet(Operations(g, id)) \subseteq DOMAIN g.nodes
<1>1. PICK owned : owned = Owned(g, id) /\ IsSequence(owned) /\ ToSet(owned) \subseteq DOMAIN g.nodes
  BY DEF IsClosed
<1>2. \A S : IsSequence(Only(owned, S)) /\ ToSet(Only(owned, S)) \subseteq DOMAIN g.nodes
  BY <1>1, OnlyFacts
<1>3. IsSequence(<<id>>) /\ ToSet(<<id>>) = {id}
  BY SingleFacts, SmallRanges
<1>4. IsSequence(Usages(g, id)) /\ IsSequence(DirectedFeatures(g, id)) /\ IsSequence(Items(g, id))
  BY <1>1, <1>2 DEF Usages, DirectedFeatures, Items
<1>5. \E S : Operations(g, id) = IF Only(owned, S) = <<>> THEN <<id>> ELSE Only(owned, S)
  BY <1>1 DEF Operations
<1> QED BY <1>2, <1>3, <1>4, <1>5

\* A request is one import, or none.
LEMMA AskFacts == \A type : IsSequence(Ask(type))
BY EmptyIsSequence, SingleFacts DEF Ask

LEMMA NoAsk ==
  /\ \A name : ToSet(Ask(Sibling(name))) = {}
  /\ \A name : ToSet(Ask(Builtin(name))) = {}
BY SmallRanges DEF Ask, Sibling, Builtin, GoType

\* All features are asked for.
LEMMA AsksFacts ==
  ASSUME NEW g, NEW features, IsSequence(features)
  PROVE  /\ IsSequence(Asks(g, features))
         /\ \A f \in ToSet(features) : ToSet(Ask(ResolveGoType(g, f))) \subseteq ToSet(Asks(g, features))
<1>1. PICK asked : asked = [i \in DOMAIN features |-> Ask(ResolveGoType(g, features[i]))]
  OBVIOUS
<1>2. PICK flat : flat = FlattenSeq(asked)
  OBVIOUS
<1>3. Asks(g, features) = flat
  <2>1. {[i \in DOMAIN fs |-> Ask(ResolveGoType(g, fs[i]))] : fs \in {features}} = {asked}
    BY <1>1
  <2>2. {FlattenSeq(one) : one \in {[i \in DOMAIN fs |-> Ask(ResolveGoType(g, fs[i]))] : fs \in {features}}} = {flat}
    BY <1>2, <2>1
  <2> QED BY <2>2 DEF Asks
<1>4. IsSequence(flat) /\ \A x : x \in ToSet(flat) <=> \E i \in DOMAIN features : x \in ToSet(asked[i])
  <2>1. asked = [i \in DOMAIN features |-> asked[i]]
    BY <1>1
  <2>2. \A i \in DOMAIN features : IsSequence(asked[i])
    BY <1>1, AskFacts
  <2> QED BY <1>2, <2>1, <2>2, FlatMadeFacts
<1>5. ASSUME NEW f \in ToSet(features), NEW x \in ToSet(Ask(ResolveGoType(g, f)))
      PROVE  x \in ToSet(flat)
  <2>1. PICK i \in DOMAIN features : f = features[i]
    BY DEF ToSet
  <2>2. asked[i] = Ask(ResolveGoType(g, f))
    BY <1>1, <2>1
  <2> QED BY <1>4, <1>5, <2>2
<1> QED BY <1>3, <1>4, <1>5

\* So are the types of what is given, of results, of methods and of fields.
LEMMA TypesAsked ==
  ASSUME NEW g, NEW features, IsSequence(features), NEW S
  PROVE  \A type \in ToSet(Types(g, Only(features, S))) : ToSet(Ask(type)) \subseteq ToSet(Asks(g, features))
<1>1. PICK some : some = Only(features, S) /\ IsSequence(some) /\ ToSet(some) \subseteq ToSet(features)
  BY OnlyFacts
<1>2. PICK types : types = Types(g, some)
  OBVIOUS
<1>3. types = [i \in DOMAIN some |-> ResolveGoType(g, some[i])]
  BY <1>2 DEF Types
<1>4. ToSet(types) = {types[i] : i \in DOMAIN some}
  <2>1. types = [i \in DOMAIN some |-> types[i]]
    BY <1>3
  <2> QED BY <1>1, <2>1, MadeFacts
<1>5. ASSUME NEW type \in ToSet(types)
      PROVE  ToSet(Ask(type)) \subseteq ToSet(Asks(g, features))
  <2>1. PICK i \in DOMAIN some : type = ResolveGoType(g, some[i])
    BY <1>3, <1>4
  <2>2. some[i] \in ToSet(features)
    BY <1>1 DEF ToSet
  <2> QED BY <2>1, <2>2, AsksFacts
<1> QED BY <1>1, <1>2, <1>5

LEMMA GivenAsked ==
  ASSUME NEW g, NEW features, IsSequence(features)
  PROVE  \A type \in ToSet(Given(g, features)) \cup ToSet(Results(g, features)) :
           ToSet(Ask(type)) \subseteq ToSet(Asks(g, features))
BY TypesAsked DEF Given, Results

LEMMA MethodAsked ==
  ASSUME NEW g, NEW features, IsSequence(features)
  PROVE  \A type \in ToSet(Method(g, features).params) \cup ToSet(Method(g, features).results) :
           ToSet(Ask(type)) \subseteq ToSet(Asks(g, features))
<1>1. PICK results : results = Results(g, features)
  OBVIOUS
<1>2. IsSequence(results)
  <2>1. PICK some : some = Only(features, {c \in DOMAIN g.nodes : IsResult(g.nodes[c])}) /\ IsSequence(some)
    BY OnlyFacts
  <2>2. results = [i \in DOMAIN some |-> results[i]]
    BY <1>1, <2>1 DEF Results, Types
  <2> QED BY <2>1, <2>2, MadeFacts
<1>3. PICK error : error = Builtin("error")
  OBVIOUS
<1>4. ToSet(Append(results, error)) = ToSet(results) \cup {error}
  <2>1. Append(results, error) = results \o <<error>>
    BY <1>2, AppendConcat
  <2>2. IsSequence(<<error>>) /\ ToSet(<<error>>) = {error}
    BY SingleFacts, SmallRanges
  <2> QED BY <1>2, <2>1, <2>2, ConcatRange
<1>5. Method(g, features).params = Given(g, features) /\ Method(g, features).results = Append(results, error)
  BY <1>1, <1>3 DEF Method
<1>6. \A type \in ToSet(results) \cup ToSet(Given(g, features)) : ToSet(Ask(type)) \subseteq ToSet(Asks(g, features))
  BY <1>1, GivenAsked
<1>7. ToSet(Ask(error)) = {}
  BY <1>3, NoAsk
<1> QED BY <1>4, <1>5, <1>6, <1>7

LEMMA FieldsAsked ==
  ASSUME NEW g, NEW id, IsSequence(Usages(g, id))
  PROVE  \A i \in DOMAIN BuildFields(g, id) :
           ToSet(Ask(BuildFields(g, id)[i].type)) \subseteq ToSet(Asks(g, Usages(g, id)))
<1>1. PICK usages : usages = Usages(g, id) /\ IsSequence(usages)
  OBVIOUS
<1>2. PICK fields : fields = BuildFields(g, id)
  OBVIOUS
<1>3. fields = [i \in DOMAIN usages |-> BuildField(g, usages[i])]
  BY <1>1, <1>2 DEF BuildFields
<1>4. ASSUME NEW i \in DOMAIN usages
      PROVE  ToSet(Ask(fields[i].type)) \subseteq ToSet(Asks(g, usages))
  <2>1. PICK type : type = ResolveGoType(g, usages[i])
    OBVIOUS
  <2>2. \E prefix : fields[i].type = Prefixed(prefix, type)
    BY <1>3, <2>1 DEF BuildField
  <2>3. \A prefix : Prefixed(prefix, type).sel = type.sel /\ Prefixed(prefix, type).import = type.import
    BY DEF Prefixed
  <2>4. Ask(fields[i].type) = Ask(type)
    BY <2>2, <2>3 DEF Ask
  <2>5. usages[i] \in ToSet(usages)
    BY DEF ToSet
  <2> QED BY <1>1, <2>1, <2>4, <2>5, AsksFacts
<1> QED BY <1>1, <1>2, <1>3, <1>4

\* What is asked for on behalf of a service.
LEMMA ServiceAsked ==
  ASSUME NEW g, IsClosed(g), NEW id \in DOMAIN g.nodes
  PROVE  /\ IsSequence(AskedFor(g, id, "service"))
         /\ \A i \in DOMAIN BuildMethods(g, id) :
              \A type \in ToSet(BuildMethods(g, id)[i].params) \cup ToSet(BuildMethods(g, id)[i].results) :
                ToSet(Ask(type)) \subseteq ToSet(AskedFor(g, id, "service"))
<1>1. PICK ops : ops = Operations(g, id) /\ IsSequence(ops) /\ ToSet(ops) \subseteq DOMAIN g.nodes
  BY FeatureFacts
<1>2. PICK methods : methods = BuildMethods(g, id)
  OBVIOUS
<1>3. methods = [i \in DOMAIN ops |-> Method(g, DirectedFeatures(g, ops[i]))]
  BY <1>1, <1>2 DEF BuildMethods
<1>4. PICK asked : asked = [i \in DOMAIN ops |-> Hint(g.nodes[ops[i]]) \o Asks(g, DirectedFeatures(g, ops[i]))]
  OBVIOUS
<1>5. AskedFor(g, id, "service") = FlattenSeq(asked)
  BY <1>1, <1>4 DEF AskedFor, Structs
<1>6. ASSUME NEW i \in DOMAIN ops
      PROVE  /\ IsSequence(DirectedFeatures(g, ops[i])) /\ IsSequence(asked[i])
             /\ ToSet(Asks(g, DirectedFeatures(g, ops[i]))) \subseteq ToSet(asked[i])
  <2>1. ops[i] \in DOMAIN g.nodes
    BY <1>1 DEF ToSet
  <2>2. PICK features : features = DirectedFeatures(g, ops[i]) /\ IsSequence(features)
    BY <2>1, FeatureFacts
  <2>3. PICK hint, asks : hint = Hint(g.nodes[ops[i]]) /\ asks = Asks(g, features)
    OBVIOUS
  <2>4. IsSequence(hint)
    BY <2>3, AskFacts, EmptyIsSequence DEF Hint
  <2>5. IsSequence(asks)
    BY <2>2, <2>3, AsksFacts
  <2>6. asked[i] = hint \o asks
    BY <1>4, <2>2, <2>3
  <2> QED BY <2>2, <2>3, <2>4, <2>5, <2>6, ConcatRange
<1>7. PICK flat : flat = FlattenSeq(asked)
  OBVIOUS
<1>8. IsSequence(flat) /\ \A x : x \in ToSet(flat) <=> \E i \in DOMAIN ops : x \in ToSet(asked[i])
  <2>1. asked = [i \in DOMAIN ops |-> asked[i]]
    BY <1>4
  <2> QED BY <1>1, <1>6, <1>7, <2>1, FlatMadeFacts
<1>9. ASSUME NEW i \in DOMAIN ops, NEW type \in ToSet(methods[i].params) \cup ToSet(methods[i].results)
      PROVE  ToSet(Ask(type)) \subseteq ToSet(flat)
  <2>1. PICK features : features = DirectedFeatures(g, ops[i]) /\ IsSequence(features)
    BY <1>6
  <2>2. methods[i] = Method(g, features)
    BY <1>3, <2>1
  <2>3. ToSet(Ask(type)) \subseteq ToSet(Asks(g, features))
    BY <1>9, <2>1, <2>2, MethodAsked
  <2>4. ToSet(Asks(g, features)) \subseteq ToSet(asked[i])
    BY <1>6, <2>1
  <2> QED BY <1>8, <2>3, <2>4
<1> QED BY <1>2, <1>3, <1>5, <1>7, <1>8, <1>9

\* Which items an element is made into.
LEMMA ClassCases ==
  ASSUME NEW g, NEW id, NEW i \in DOMAIN Classes(g, id)
  PROVE  \/ /\ Kind(g.nodes[id]) # "ActionDefinition"
            /\ Classes(g, id)[i] = Head(Classes(g, id))
            /\ Classes(g, id)[i] \in Structs \cup {"service", "in", "out"}
         \/ /\ Kind(g.nodes[id]) = "ActionDefinition"
            /\ Head(Classes(g, id)) = "usecase" /\ Classes(g, id)[i] \in {"usecase", "in"}
<1>1. PICK classes : classes = Classes(g, id)
  OBVIOUS
<1>2. PartClass(g, id) \in Structs \cup {"service", "in", "out"}
  BY DEF PartClass, Structs
<1>3. PortClass(g, id) \in Structs \cup {"service", "in", "out"}
  BY DEF PortClass
<1>4. "value" \in Structs \cup {"service", "in", "out"}
  BY DEF Structs
<1>5. classes # <<>>
  BY <1>1, EmptyIsSequence
<1>6. CASE Kind(g.nodes[id]) = "ActionDefinition"
  <2>1. classes = <<"usecase", "in">>
    BY <1>1, <1>5, <1>6 DEF Classes
  <2>2. ToSet(<<"usecase", "in">>) = {"usecase", "in"} /\ Head(<<"usecase", "in">>) = "usecase"
    BY PairFacts
  <2>3. classes[i] \in ToSet(classes)
    BY <1>1 DEF ToSet
  <2> QED BY <1>1, <1>6, <2>1, <2>2, <2>3
<1>7. CASE Kind(g.nodes[id]) # "ActionDefinition"
  <2>1. \/ classes = <<PartClass(g, id)>> \/ classes = <<"value">> \/ classes = <<PortClass(g, id)>>
    BY <1>1, <1>5, <1>7 DEF Classes
  <2>2. PICK class \in Structs \cup {"service", "in", "out"} : classes = <<class>>
    BY <1>2, <1>3, <1>4, <2>1
  <2>3. ToSet(<<class>>) = {class} /\ Head(<<class>>) = class
    BY SmallRanges
  <2>4. classes[i] \in ToSet(classes)
    BY <1>1 DEF ToSet
  <2> QED BY <1>1, <1>7, <2>2, <2>3, <2>4
<1> QED BY <1>6, <1>7

\* What is asked for on behalf of an element has all imports of its items.
LEMMA ItemAsked ==
  ASSUME NEW g, IsClosed(g), NEW id \in DOMAIN g.nodes, NEW i \in DOMAIN Classes(g, id)
  PROVE  /\ IsSequence(AskedFor(g, id, Head(Classes(g, id))))
         /\ \A type \in TypesOf(Item(g, id, Classes(g, id)[i])) :
              ToSet(Ask(type)) \subseteq ToSet(AskedFor(g, id, Head(Classes(g, id))))
<1>1. PICK class, head : class = Classes(g, id)[i] /\ head = Head(Classes(g, id))
  OBVIOUS
<1>2. PICK item : item = Item(g, id, class)
  OBVIOUS
<1>3. PICK asked : asked = AskedFor(g, id, head)
  OBVIOUS
<1>4. PICK action : action <=> Kind(g.nodes[id]) = "ActionDefinition"
  OBVIOUS
<1>5. \/ ~action /\ class = head /\ class \in Structs \cup {"service", "in", "out"}
      \/ action /\ head = "usecase" /\ class \in {"usecase", "in"}
  BY <1>1, <1>4, ClassCases
<1>6. /\ item.fields = IF class \in Structs THEN BuildFields(g, id) ELSE <<>>
      /\ item.input = IF action THEN Given(g, DirectedFeatures(g, id)) ELSE <<>>
      /\ item.output = IF action THEN Results(g, DirectedFeatures(g, id)) ELSE <<>>
  BY <1>2, <1>4 DEF Item
<1>7. item.methods = CASE class = "service" -> BuildMethods(g, id)
                       [] class \in {"in", "out"} /\ ~action -> <<Method(g, Items(g, id))>>
                       [] action -> <<UseCaseMethod(NameOf(g.nodes[id]))>>
                       [] OTHER -> <<>>
  BY <1>2, <1>4 DEF Item
<1>8. "service" \notin Structs /\ "in" \notin Structs /\ "out" \notin Structs /\ "usecase" \notin Structs
  BY DEF Structs
<1>9. item.fields = <<>> => FieldTypes(item) = {}
  BY EmptyIsSequence DEF FieldTypes
<1>10. item.methods = <<>> => MethodTypes(item) = {}
  BY EmptyIsSequence DEF MethodTypes
<1>11. \A method : item.methods = <<method>> =>
         MethodTypes(item) = ToSet(method.params) \cup ToSet(method.results)
  <2> SUFFICES ASSUME NEW method, item.methods = <<method>>
               PROVE  MethodTypes(item) = ToSet(method.params) \cup ToSet(method.results)
    OBVIOUS
  <2>1. DOMAIN item.methods = {1} /\ item.methods[1] = method
    OBVIOUS
  <2> QED BY <2>1 DEF MethodTypes
<1>12. ~action => DTOTypes(item) = {}
  BY <1>6, SmallRanges DEF DTOTypes
<1>13. CASE ~action /\ class = head /\ class \in Structs
  <2>1. MethodTypes(item) = {} /\ DTOTypes(item) = {}
    BY <1>7, <1>8, <1>10, <1>12, <1>13
  <2>7. head \in Structs /\ head \notin {"service", "in", "out"}
    BY <1>8, <1>13
  <2>2. asked = Asks(g, Usages(g, id))
    BY <1>3, <2>7 DEF AskedFor
  <2>3. IsSequence(Usages(g, id))
    BY FeatureFacts
  <2>4. IsSequence(asked)
    BY <2>2, <2>3, AsksFacts
  <2>5. item.fields = BuildFields(g, id)
    BY <1>6, <1>13
  <2>6. \A type \in FieldTypes(item) : ToSet(Ask(type)) \subseteq ToSet(asked)
    BY <2>2, <2>3, <2>5, FieldsAsked DEF FieldTypes
  <2> QED BY <1>1, <1>2, <1>3, <2>1, <2>4, <2>6 DEF TypesOf
<1>14. CASE ~action /\ class = head /\ class = "service"
  <2>1. FieldTypes(item) = {} /\ DTOTypes(item) = {}
    BY <1>6, <1>8, <1>9, <1>12, <1>14
  <2>2. item.methods = BuildMethods(g, id)
    BY <1>7, <1>14
  <2>3. IsSequence(asked) /\ \A type \in MethodTypes(item) : ToSet(Ask(type)) \subseteq ToSet(asked)
    BY <1>3, <1>14, <2>2, ServiceAsked DEF MethodTypes
  <2> QED BY <1>1, <1>2, <1>3, <2>1, <2>3 DEF TypesOf
<1>15. CASE ~action /\ class = head /\ class \in {"in", "out"}
  <2>1. FieldTypes(item) = {} /\ DTOTypes(item) = {}
    BY <1>6, <1>8, <1>9, <1>12, <1>15
  <2>2. PICK method : method = Method(g, Items(g, id))
    OBVIOUS
  <2>3. item.methods = <<method>>
    BY <1>7, <1>15, <2>2
  <2>4. IsSequence(Items(g, id))
    BY FeatureFacts
  <2>5. asked = Asks(g, Items(g, id))
    BY <1>3, <1>8, <1>15 DEF AskedFor
  <2>6. IsSequence(asked) /\ \A type \in MethodTypes(item) : ToSet(Ask(type)) \subseteq ToSet(asked)
    BY <1>11, <2>2, <2>3, <2>4, <2>5, AsksFacts, MethodAsked
  <2> QED BY <1>1, <1>2, <1>3, <2>1, <2>6 DEF TypesOf
<1>16. CASE action /\ head = "usecase" /\ class \in {"usecase", "in"}
  <2>1. FieldTypes(item) = {}
    BY <1>6, <1>8, <1>9, <1>16
  <2>2. PICK features : features = DirectedFeatures(g, id) /\ IsSequence(features)
    BY FeatureFacts
  <2>3. asked = Asks(g, features)
    BY <1>3, <1>8, <1>16, <2>2 DEF AskedFor
  <2>4. IsSequence(asked) /\ \A type \in DTOTypes(item) : ToSet(Ask(type)) \subseteq ToSet(asked)
    BY <1>6, <1>16, <2>2, <2>3, AsksFacts, GivenAsked DEF DTOTypes
  <2>5. PICK method : method = UseCaseMethod(NameOf(g.nodes[id]))
    OBVIOUS
  <2>6. item.methods = <<method>>
    BY <1>7, <1>16, <2>5
  <2>7. \A type \in MethodTypes(item) : ToSet(Ask(type)) = {}
    <3>1. PICK a, b, e : /\ a = Sibling(InputOf(NameOf(g.nodes[id]))) /\ b = Sibling(OutputOf(NameOf(g.nodes[id])))
                         /\ e = Builtin("error")
      OBVIOUS
    <3>2. method.params = <<a>> /\ method.results = <<b, e>>
      BY <2>5, <3>1 DEF UseCaseMethod
    <3>3. ToSet(<<a>>) = {a} /\ ToSet(<<b, e>>) = {b, e}
      BY SmallRanges, PairFacts
    <3>4. MethodTypes(item) = {a} \cup {b, e}
      BY <1>11, <2>6, <3>2, <3>3
    <3> QED BY <3>1, <3>4, NoAsk
  <2> QED BY <1>1, <1>2, <1>3, <2>1, <2>4, <2>7 DEF TypesOf
<1> QED BY <1>5, <1>13, <1>14, <1>15, <1>16

\* So have all imports of what an element adds to a context.
LEMMA RequestsFacts ==
  ASSUME IsClosed(Graph), NEW id \in DOMAIN nodes
  PROVE  IsSequence(Requests(id)) /\ AreAsked(Classified(id), Requests(id))
<1>1. PICK classes : classes = Classes(Graph, id)
  OBVIOUS
<1>2. PICK hints : /\ hints = IF IsLibrary(nodes[id]) \/ (Kind(nodes[id]) = "Package" /\ Callee # None)
                                THEN <<>> ELSE Hint(nodes[id])
                   /\ IsSequence(hints)
  <2>1. IsSequence(Hint(nodes[id])) /\ IsSequence(<<>>)
    BY AskFacts, EmptyIsSequence DEF Hint
  <2> QED BY <2>1
<1>3. PICK asked : asked = IF classes = <<>> THEN <<>> ELSE AskedFor(Graph, id, Head(classes))
  OBVIOUS
<1>4. id \in DOMAIN Graph.nodes
  BY DEF Graph
<1>5. IsSequence(classes) /\ (classes # <<>> => DOMAIN classes # {})
  <2>1. IsSequence(classes)
    BY <1>1, ClassesFacts
  <2>2. classes # <<>> => Len(classes) >= 1
    BY <2>1, HeadAndTail
  <2> QED BY <2>1, <2>2, SequenceFacts
<1>6. IsSequence(asked)
  <2>1. CASE classes = <<>>
    BY <1>3, <2>1, EmptyIsSequence
  <2>2. CASE classes # <<>>
    <3>1. PICK i \in DOMAIN classes : TRUE
      BY <1>5, <2>2
    <3>2. IsSequence(AskedFor(Graph, id, Head(classes)))
      BY <1>1, <1>4, <3>1, ItemAsked
    <3> QED BY <1>3, <2>2, <3>2
  <2> QED BY <2>1, <2>2
<1>7. Requests(id) = hints \o asked
  BY <1>1, <1>2, <1>3 DEF Requests
<1>8. IsSequence(Requests(id)) /\ ToSet(asked) \subseteq ToSet(Requests(id))
  BY <1>2, <1>6, <1>7, ConcatRange
<1>9. PICK parts : parts = [i \in DOMAIN classes |-> Item(Graph, id, classes[i])]
  OBVIOUS
<1>10. Classified(id) = parts
  BY <1>1, <1>9 DEF Classified
<1>11. ToSet(parts) = {parts[i] : i \in DOMAIN classes}
  <2>1. parts = [i \in DOMAIN classes |-> parts[i]]
    BY <1>9
  <2> QED BY <1>5, <2>1, MadeFacts
<1>12. ASSUME NEW part \in ToSet(parts), NEW type \in TypesOf(part)
       PROVE  ToSet(Ask(type)) \subseteq ToSet(Requests(id))
  <2>1. PICK i \in DOMAIN classes : part = Item(Graph, id, classes[i])
    BY <1>9, <1>11, <1>12
  <2>2. classes # <<>>
    BY EmptyIsSequence
  <2>3. asked = AskedFor(Graph, id, Head(classes))
    BY <1>3, <2>2
  <2>4. ToSet(Ask(type)) \subseteq ToSet(AskedFor(Graph, id, Head(classes)))
    BY <1>1, <1>4, <1>12, <2>1, ItemAsked
  <2> QED BY <1>8, <2>3, <2>4
<1> QED BY <1>8, <1>10, <1>12 DEF AreAsked

\* The roots are elements.
LEMMA RootsFacts ==
  ASSUME NEW g, IsFiniteSet(DOMAIN g.nodes), NEW without
  PROVE  IsSequence(Roots(g, without)) /\ ToSet(Roots(g, without)) \subseteq DOMAIN g.nodes
<1>1. PICK roots : roots = {id \in DOMAIN g.nodes : id \notin without /\ Kind(g.nodes[id]) \notin Relationships}
  OBVIOUS
<1>2. IsFiniteSet(roots) /\ roots \subseteq DOMAIN g.nodes
  <2>1. roots \in SUBSET DOMAIN g.nodes
    BY <1>1
  <2> QED BY <2>1, FS_Subset
<1>3. PICK found : found = SetToSeq(roots)
  OBVIOUS
<1>4. IsSequence(found) /\ ToSet(found) \subseteq roots
  <2>1. found \in [1 .. Cardinality(roots) -> roots] /\ Cardinality(roots) \in Nat
    BY <1>2, <1>3, SetToSeqFacts
  <2>2. found = [i \in 1 .. Cardinality(roots) |-> found[i]]
    BY <2>1
  <2> QED BY <2>1, <2>2, SequenceOf DEF ToSet
<1>5. \E before : Roots(g, without) = Arranged(found, before)
  <2> DEFINE Before(i, j) ==
               LET n == Rank(DeclaredName(g.nodes[i]))
                   m == Rank(DeclaredName(g.nodes[j]))
               IN  n < m \/ (n = m /\ Rank(i) < Rank(j))
  <2>1. PICK before : before = {p \in (DOMAIN found) \X (DOMAIN found) : Before(found[p[1]], found[p[2]])}
    OBVIOUS
  <2>2. PICK sorted : sorted = Arranged(found, before)
    OBVIOUS
  <2>3. {Arranged(some, {p \in (DOMAIN some) \X (DOMAIN some) : Before(some[p[1]], some[p[2]])}) :
         some \in {SetToSeq(roots)}} = {sorted}
    BY <1>3, <2>1, <2>2
  <2>4. Roots(g, without) = sorted
    BY <1>1, <2>3 DEF Roots
  <2> QED BY <2>2, <2>4
<1> QED BY <1>2, <1>4, <1>5, ArrangedFacts
-----------------------------------------------------------------------------
\* Calls are made for elements of the graph, which is finite.
AreCalls(calls) ==
  IsSequence(calls) /\ \A call \in ToSet(calls) : call.op # "close" => call.el \in DOMAIN nodes
AreNodes(ids) == IsSequence(ids) /\ ToSet(ids) \subseteq DOMAIN nodes

WalkInv ==
  /\ IsFiniteSet(DOMAIN nodes) /\ \A id \in DOMAIN nodes : HasLists(nodes[id])
  /\ AreCalls(todo) /\ AreNodes(list)
  /\ status \in {"load", "overlay", "index", "resolve"} => todo = <<>> /\ list = <<>>

LEMMA NoCalls == AreCalls(<<>>) /\ AreNodes(<<>>)
BY EmptyIsSequence, SmallRanges DEF AreCalls, AreNodes

LEMMA WalkInit == Init => WalkInv
<1> SUFFICES ASSUME Init
             PROVE  WalkInv
  OBVIOUS
<1>1. nodes = <<>> /\ todo = <<>> /\ list = <<>>
  BY DEF Init
<1>2. DOMAIN nodes = {} /\ IsFiniteSet(DOMAIN nodes)
  BY <1>1, EmptyIsSequence, FS_EmptySet
<1> QED BY <1>1, <1>2, NoCalls DEF WalkInv

\* What Owned gives are elements.
LEMMA ClosedGraph ==
  ASSUME WalkInv
  PROVE  IsClosed(Graph) /\ \A id \in DOMAIN nodes : AreNodes(Owned(Graph, id))
<1>1. Graph.nodes = nodes
  BY DEF Graph
<1>2. IsClosed(Graph)
  BY <1>1, OwnedFacts DEF WalkInv
<1> QED BY <1>1, <1>2 DEF IsClosed, AreNodes

\* Calls for elements, one list of calls behind another, and what is still to do.
LEMMA EachCalls ==
  ASSUME NEW ids, AreNodes(ids)
  PROVE  AreCalls(Each(Visit, ids)) /\ AreCalls(Each(Collect, ids))
<1>1. PICK visits, collects : /\ visits = [i \in DOMAIN ids |-> Visit(ids[i])]
                              /\ collects = [i \in DOMAIN ids |-> Collect(ids[i])]
  OBVIOUS
<1>2. Each(Visit, ids) = visits /\ Each(Collect, ids) = collects
  BY <1>1 DEF Each
<1>3. /\ IsSequence(visits) /\ ToSet(visits) = {visits[i] : i \in DOMAIN ids}
      /\ IsSequence(collects) /\ ToSet(collects) = {collects[i] : i \in DOMAIN ids}
  <2>1. visits = [i \in DOMAIN ids |-> visits[i]] /\ collects = [i \in DOMAIN ids |-> collects[i]]
    BY <1>1
  <2> QED BY <2>1, MadeFacts DEF AreNodes
<1>4. \A i \in DOMAIN ids : visits[i].el \in DOMAIN nodes /\ collects[i].el \in DOMAIN nodes
  BY <1>1 DEF AreNodes, ToSet, Visit, Collect
<1> QED BY <1>2, <1>3, <1>4 DEF AreCalls

LEMMA CallsConcat ==
  ASSUME NEW s, NEW t, AreCalls(s), AreCalls(t)
  PROVE  AreCalls(s \o t)
BY ConcatRange DEF AreCalls

LEMMA CloseCalls == \A id : AreCalls(<<Close(id)>>)
<1> TAKE id
<1>1. PICK call : call = Close(id)
  OBVIOUS
<1>2. IsSequence(<<call>>) /\ ToSet(<<call>>) = {call}
  BY SingleFacts, SmallRanges
<1> QED BY <1>1, <1>2 DEF AreCalls, Close

LEMMA CallsLeft ==
  ASSUME WalkInv, todo # <<>>
  PROVE  /\ AreCalls(Tail(todo))
         /\ Head(todo).op # "close" => Callee \in DOMAIN nodes
<1>1. PICK first, rest : first = Head(todo) /\ rest = Tail(todo)
  OBVIOUS
<1>2. todo = <<first>> \o rest /\ IsSequence(rest)
  BY <1>1, HeadAndTail DEF WalkInv, AreCalls
<1>3. ToSet(todo) = {first} \cup ToSet(rest)
  BY <1>2, SingleFacts, SmallRanges, ConcatRange
<1> QED BY <1>1, <1>2, <1>3 DEF WalkInv, AreCalls, Callee

LEMMA NodesLeft ==
  ASSUME WalkInv, list # <<>>
  PROVE  AreNodes(Tail(list)) /\ Head(list) \in DOMAIN nodes
<1>1. PICK first, rest : first = Head(list) /\ rest = Tail(list)
  OBVIOUS
<1>2. list = <<first>> \o rest /\ IsSequence(rest)
  BY <1>1, HeadAndTail DEF WalkInv, AreNodes
<1>3. ToSet(list) = {first} \cup ToSet(rest)
  BY <1>2, SingleFacts, SmallRanges, ConcatRange
<1> QED BY <1>1, <1>2, <1>3 DEF WalkInv, AreNodes

\* Calls mention elements, so that a step that keeps the graph has to keep the calls only.
LEMMA WalkOn ==
  ASSUME WalkInv, UNCHANGED nodes, AreCalls(todo'), AreNodes(list'),
         status' \notin {"load", "overlay", "index", "resolve"}
  PROVE  WalkInv'
BY DEF WalkInv, AreCalls, AreNodes

\* The elements that are indexed are finitely many, and have lists.
LEMMA IndexedFacts ==
  ASSUME ShareInv, RefsInv
  PROVE  IsFiniteSet(IDs) /\ \A id \in IDs : HasLists(elements[CHOOSE i \in WithID(id) : TRUE])
<1>1. PICK n \in Nat : DOMAIN elements = 1 .. n
  <2>1. IsSequence(elements)
    BY DEF ShareInv, ListsInv, AreObjects
  <2> QED BY <2>1, SequenceFacts
<1>2. PICK f : f = [i \in 1 .. n |-> ElementID(elements[i])]
  OBVIOUS
<1>3. PICK T : T = {f[i] : i \in 1 .. n}
  OBVIOUS
<1>4. f \in Surjection(1 .. n, T)
  <2>1. f \in [1 .. n -> T]
    BY <1>2, <1>3
  <2>2. \A t \in T : \E i \in 1 .. n : f[i] = t
    BY <1>3
  <2> QED BY <2>1, <2>2 DEF Surjection
<1>5. IsFiniteSet(T)
  <2>1. IsFiniteSet(1 .. n)
    BY FS_Interval
  <2> QED BY <1>4, <2>1, FS_Surjection
<1>6. IDs \in SUBSET T
  BY <1>1, <1>2, <1>3 DEF IDs
<1>7. IsFiniteSet(IDs)
  BY <1>5, <1>6, FS_Subset
<1>8. ASSUME NEW id \in IDs
      PROVE  HasLists(elements[CHOOSE i \in WithID(id) : TRUE])
  <2>1. PICK i \in DOMAIN elements : ElementID(elements[i]) = id
    BY DEF IDs
  <2>2. i \in WithID(id)
    BY <2>1 DEF WithID
  <2>3. PICK j : j = CHOOSE k \in WithID(id) : TRUE
    OBVIOUS
  <2>4. j \in WithID(id)
    BY <2>2, <2>3
  <2>5. j \in DOMAIN elements
    BY <2>4 DEF WithID
  <2> QED BY <2>3, <2>5 DEF RefsInv, HaveLists
<1> QED BY <1>7, <1>8

LEMMA WalkStep == ShareInv /\ RefsInv /\ WalkInv /\ [Next]_vars => WalkInv'
<1> SUFFICES ASSUME ShareInv, RefsInv, WalkInv, [Next]_vars
             PROVE  WalkInv'
  OBVIOUS
<1> DEFINE Before == {"load", "overlay", "index", "resolve"}
<1>1. ASSUME UNCHANGED nodes, UNCHANGED todo, UNCHANGED list, status' \in Before => status \in Before
      PROVE  WalkInv'
  BY <1>1 DEF WalkInv, AreCalls, AreNodes
<1>2. CASE (Load /\ UNCHANGED buildVars) \/ (Apply /\ UNCHANGED <<loaderVars, buildVars>>)
  <2>1. UNCHANGED nodes /\ UNCHANGED todo /\ UNCHANGED list
    BY <1>2 DEF buildVars, graphVars, mapVars
  <2>2. status \in {"load", "overlay"}
    <3>1. CASE Load
      BY <3>1, Zenon DEF Load, ReadFile, LatestCommit, FetchPage, PageRepeats, RequestFails, Loading
    <3>2. CASE Apply
      <4>1. CASE UpdateElement \/ RemoveElement \/ CopyElement \/ NextAction
        BY <4>1 DEF UpdateElement, RemoveElement, CopyElement, NextAction, Doing
      <4>2. CASE ActionFails \/ ApplyDone
        BY <4>2 DEF ActionFails, ApplyDone, Doing
      <4> QED BY <3>2, <4>1, <4>2 DEF Apply
    <3> QED BY <1>2, <3>1, <3>2
  <2> QED BY <1>1, <2>1, <2>2
<1>3. CASE IndexElements
  <2>1. status = "index" /\ UNCHANGED todo /\ UNCHANGED list
    BY <1>3 DEF IndexElements, mapVars
  <2>2. CASE UNCHANGED nodes
    BY <1>1, <2>1, <2>2
  <2>3. CASE nodes' = [id \in IDs |-> elements[CHOOSE i \in WithID(id) : TRUE]]
    <3>1. todo' = <<>> /\ list' = <<>>
      BY <2>1 DEF WalkInv
    <3>2. IsFiniteSet(DOMAIN nodes') /\ \A id \in DOMAIN nodes' : HasLists(nodes'[id])
      BY <2>3, IndexedFacts
    <3>3. AreCalls(todo)' /\ AreNodes(list)'
      BY <3>1, EmptyIsSequence, SmallRanges DEF AreCalls, AreNodes
    <3> QED BY <3>1, <3>2, <3>3 DEF WalkInv
  <2>4. UNCHANGED nodes \/ nodes' = [id \in IDs |-> elements[CHOOSE i \in WithID(id) : TRUE]]
    BY <1>3 DEF IndexElements, graphVars
  <2> QED BY <2>2, <2>3, <2>4
<1>4. CASE \E id \in unvisited : ResolveElement(id)
  <2>1. UNCHANGED nodes /\ UNCHANGED todo /\ UNCHANGED list /\ UNCHANGED status
    BY <1>4 DEF ResolveElement, mapVars
  <2> QED BY <1>1, <2>1
<1>5. CASE BuildDone \/ Synthesize
  <2>1. PICK roots : roots = Roots(Graph, contained)
    OBVIOUS
  <2>2. AreNodes(roots)
    <3>1. Graph.nodes = nodes
      BY DEF Graph
    <3> QED BY <2>1, <3>1, RootsFacts DEF WalkInv, AreNodes
  <2>3. /\ UNCHANGED nodes /\ UNCHANGED list /\ status' \in {"map", "default"}
        /\ todo' = Each(Collect, roots) \/ todo' = Each(Visit, roots) \o <<Close(None)>>
    <3>1. CASE BuildDone
      BY <2>1, <3>1, Zenon DEF BuildDone, graphVars
    <3>2. CASE Synthesize
      BY <2>1, <3>2, Zenon DEF Synthesize, graphVars
    <3> QED BY <1>5, <3>1, <3>2
  <2>4. PICK a, b, c : a = Each(Collect, roots) /\ b = Each(Visit, roots) /\ c = <<Close(None)>>
    OBVIOUS
  <2>5. AreCalls(a) /\ AreCalls(b \o c)
    BY <2>2, <2>4, EachCalls, CloseCalls, CallsConcat
  <2>6. AreCalls(todo') /\ AreNodes(list')
    BY <2>3, <2>4, <2>5 DEF WalkInv
  <2> QED BY <2>3, <2>6, WalkOn
<1>6. CASE CollectContexts
  <2>1. PICK calls : AreCalls(calls) /\ todo' = calls \o Tail(todo)
    <3>1. todo # <<>> /\ Head(todo).op = "collect"
      BY <1>6 DEF CollectContexts, Calling
    <3>2. Callee \in DOMAIN nodes
      BY <3>1, CallsLeft
    <3>3. PICK id, children : id = Callee /\ children = Owned(Graph, id) /\ AreNodes(children)
      BY <3>2, ClosedGraph
    <3>4. PICK packages : packages = Packages(children) /\ AreNodes(packages)
      <4>1. PICK some : some = {c \in DOMAIN nodes : Kind(nodes[c]) = "Package"}
        OBVIOUS
      <4>2. PICK packages : packages = Only(children, some)
        OBVIOUS
      <4>3. AreNodes(packages)
        BY <3>3, <4>2, OnlyFacts DEF AreNodes
      <4> QED BY <4>1, <4>2, <4>3 DEF Packages
    <3>5. PICK a, b, c, d : /\ a = Each(Visit, children) /\ b = <<Close(id)>> /\ c = Each(Collect, packages)
                            /\ d = Each(Collect, children)
      OBVIOUS
    <3>6. AreCalls(a) /\ AreCalls(b) /\ AreCalls(c) /\ AreCalls(d) /\ AreCalls(<<>>)
      BY <3>3, <3>4, <3>5, EachCalls, CloseCalls, NoCalls
    <3>7. AreCalls(a \o b \o c)
      BY <3>6, CallsConcat
    <3>8. Continue(<<>>) \/ Continue(a \o b \o c) \/ Continue(d)
      BY <1>6, <3>3, <3>4, <3>5, Zenon DEF CollectContexts
    <3> QED BY <3>6, <3>7, <3>8 DEF Continue
  <2>2. todo # <<>> /\ UNCHANGED nodes /\ UNCHANGED list /\ status' \in {"map", "default"}
    BY <1>6, Zenon DEF CollectContexts, Calling, graphVars
  <2>3. AreCalls(todo') /\ AreNodes(list')
    BY <2>1, <2>2, CallsLeft, CallsConcat DEF WalkInv
  <2> QED BY <2>2, <2>3, WalkOn
<1>7. CASE VisitDescendant
  <2>1. /\ todo # <<>> /\ Head(todo).op = "visit" /\ UNCHANGED nodes /\ status' \in {"map", "default"}
        /\ list' = Append(list, Callee) /\ todo' = Each(Visit, Owned(Graph, Callee)) \o Tail(todo)
    BY <1>7, Zenon DEF VisitDescendant, Calling, Continue, graphVars
  <2>2. PICK id, children : id = Callee /\ children = Owned(Graph, id)
    OBVIOUS
  <2>3. id \in DOMAIN nodes /\ AreCalls(Tail(todo))
    BY <2>1, <2>2, CallsLeft
  <2>4. AreNodes(children)
    BY <2>2, <2>3, ClosedGraph
  <2>5. AreCalls(todo')
    BY <2>1, <2>2, <2>3, <2>4, EachCalls, CallsConcat
  <2>6. AreNodes(list')
    <3>1. Append(list, id) = list \o <<id>>
      BY AppendConcat DEF WalkInv, AreNodes
    <3>2. IsSequence(<<id>>) /\ ToSet(<<id>>) = {id}
      BY SingleFacts, SmallRanges
    <3> QED BY <2>1, <2>2, <2>3, <3>1, <3>2, ConcatRange DEF WalkInv, AreNodes
  <2> QED BY <2>1, <2>5, <2>6, WalkOn
<1>8. CASE ClassifyDescendant
  <2>1. list # <<>> /\ list' = Tail(list) /\ UNCHANGED nodes /\ UNCHANGED todo /\ status' \in {"map", "default"}
    BY <1>8, Zenon DEF ClassifyDescendant, Calling, graphVars
  <2>2. AreCalls(todo') /\ AreNodes(list')
    BY <2>1, NodesLeft DEF WalkInv
  <2> QED BY <2>1, <2>2, WalkOn
<1>9. CASE CloseContext
  <2>1. /\ todo # <<>> /\ todo' = <<>> \o Tail(todo)
        /\ UNCHANGED nodes /\ UNCHANGED list /\ status' \in {"map", "default"}
    BY <1>9, Zenon DEF CloseContext, Calling, Continue, graphVars
  <2>2. AreCalls(todo') /\ AreNodes(list')
    BY <2>1, CallsLeft, NoCalls, CallsConcat DEF WalkInv
  <2> QED BY <2>1, <2>2, WalkOn
<1>10. CASE SortProject \/ RenderProject
  <2>1. /\ UNCHANGED nodes /\ UNCHANGED todo /\ UNCHANGED list
        /\ status' \in {"done", "failed", "rendered"}
    <3>1. CASE SortProject
      BY <3>1, Zenon DEF SortProject, graphVars
    <3>2. CASE RenderProject
      BY <3>2 DEF RenderProject, graphVars, mapVars
    <3> QED BY <1>10, <3>1, <3>2
  <2> QED BY <1>1, <2>1
<1>11. CASE UNCHANGED vars
  BY <1>1, <1>11 DEF vars, buildVars, graphVars, mapVars
<1> QED BY <1>2, <1>3, <1>4, <1>5, <1>6, <1>7, <1>8, <1>9, <1>10, <1>11 DEF Next
-----------------------------------------------------------------------------
AskedInv ==
  IsSequence(requests) /\ AreAsked(items, requests) /\ \A c \in ToSet(contexts) : AreAsked(c.items, requests)

LEMMA NothingAsked == \A asked : AreAsked(<<>>, asked)
BY SmallRanges DEF AreAsked

LEMMA AskedInit == Init => AskedInv
<1> SUFFICES ASSUME Init
             PROVE  AskedInv
  OBVIOUS
<1>1. items = <<>> /\ contexts = <<>> /\ requests = <<>>
  BY DEF Init
<1> QED BY <1>1, EmptyIsSequence, SmallRanges, NothingAsked DEF AskedInv

\* More that has been asked for does no harm.
LEMMA AskedMore ==
  ASSUME NEW parts, NEW asked, NEW more, AreAsked(parts, asked), ToSet(asked) \subseteq ToSet(more)
  PROVE  AreAsked(parts, more)
BY DEF AreAsked

LEMMA AskedStep == FitInv /\ WalkInv /\ AskedInv /\ [Next]_vars => AskedInv'
<1> SUFFICES ASSUME FitInv, WalkInv, AskedInv, [Next]_vars
             PROVE  AskedInv'
  OBVIOUS
<1> DEFINE Kept == UNCHANGED items /\ UNCHANGED contexts /\ UNCHANGED requests
<1>1. ASSUME Kept
      PROVE  AskedInv'
  BY <1>1 DEF AskedInv
<1>2. CASE (Load /\ UNCHANGED buildVars) \/ (Apply /\ UNCHANGED <<loaderVars, buildVars>>)
  <2>1. Kept
    BY <1>2 DEF buildVars, mapVars, renderVars
  <2> QED BY <1>1, <2>1
<1>3. CASE IndexElements \/ (\E id \in unvisited : ResolveElement(id)) \/ BuildDone
  <2>1. CASE IndexElements
    BY <1>1, <2>1 DEF IndexElements, mapVars, renderVars
  <2>2. CASE \E id \in unvisited : ResolveElement(id)
    BY <1>1, <2>2 DEF ResolveElement, mapVars, renderVars
  <2>3. CASE BuildDone
    BY <1>1, <2>3 DEF BuildDone, renderVars
  <2> QED BY <1>3, <2>1, <2>2, <2>3
<1>4. CASE CollectContexts \/ VisitDescendant \/ Synthesize
  <2>1. Kept
    <3>1. CASE CollectContexts
      BY <3>1, Zenon DEF CollectContexts, renderVars
    <3>2. CASE VisitDescendant
      BY <3>2, Zenon DEF VisitDescendant, renderVars
    <3>3. CASE Synthesize
      BY <3>3, Zenon DEF Synthesize, renderVars
    <3> QED BY <1>4, <3>1, <3>2, <3>3
  <2> QED BY <1>1, <2>1
<1>5. CASE ClassifyDescendant
  <2>1. PICK id, parts, asked : id = Head(list) /\ parts = Classified(id) /\ asked = Requests(id)
    OBVIOUS
  <2>2. list # <<>> /\ items' = items \o parts /\ requests' = requests \o asked /\ UNCHANGED contexts
    BY <1>5, <2>1 DEF ClassifyDescendant
  <2>3. id \in DOMAIN nodes
    BY <2>1, <2>2, NodesLeft
  <2>4. IsSequence(asked) /\ AreAsked(parts, asked)
    BY <2>1, <2>3, ClosedGraph, RequestsFacts
  <2>5. IsSequence(requests') /\ ToSet(requests') = ToSet(requests) \cup ToSet(asked)
    BY <2>2, <2>4, ConcatRange DEF AskedInv
  <2>6. ToSet(items') = ToSet(items) \cup ToSet(parts)
    BY <2>1, <2>2, ClassifiedFacts, ConcatRange DEF FitInv
  <2>7. AreAsked(items, requests') /\ AreAsked(parts, requests')
    BY <2>4, <2>5, AskedMore DEF AskedInv
  <2>8. AreAsked(items', requests')
    BY <2>6, <2>7 DEF AreAsked
  <2>9. \A c \in ToSet(contexts) : AreAsked(c.items, requests')
    BY <2>5, AskedMore DEF AskedInv
  <2> QED BY <2>2, <2>5, <2>8, <2>9 DEF AskedInv
<1>6. CASE CloseContext
  <2>1. items' = <<>> /\ UNCHANGED requests
    BY <1>6, Zenon DEF CloseContext, renderVars
  <2>2. CASE UNCHANGED contexts
    BY <2>1, <2>2, NothingAsked DEF AskedInv
  <2>3. CASE contexts' = Append(contexts, Context(Callee))
    <3>1. PICK c : c = Context(Callee)
      OBVIOUS
    <3>2. c.items = items
      BY <3>1 DEF Context
    <3>3. ToSet(Append(contexts, c)) = ToSet(contexts) \cup {c}
      <4>1. IsSequence(contexts)
        BY DEF FitInv, AreContexts
      <4>2. Append(contexts, c) = contexts \o <<c>>
        BY <4>1, AppendConcat
      <4>3. IsSequence(<<c>>) /\ ToSet(<<c>>) = {c}
        BY SingleFacts, SmallRanges
      <4> QED BY <4>1, <4>2, <4>3, ConcatRange
    <3>4. \A d \in ToSet(contexts') : AreAsked(d.items, requests)
      BY <2>3, <3>1, <3>2, <3>3 DEF AskedInv
    <3> QED BY <2>1, <3>4, NothingAsked DEF AskedInv
  <2> QED BY <1>6, <2>2, <2>3 DEF CloseContext
<1>7. CASE SortProject
  <2>1. PICK inner : inner = [i \in DOMAIN contexts |-> [contexts[i] EXCEPT !.items = Sorted(@)]]
    OBVIOUS
  <2>2. contexts' = Sorted(inner) /\ UNCHANGED items /\ UNCHANGED requests
    BY <1>7, <2>1 DEF SortProject, renderVars
  <2>3. IsSequence(contexts) /\ \A i \in DOMAIN contexts : contexts[i] \in ToSet(contexts)
    BY DEF FitInv, AreContexts, ToSet
  <2>4. IsSequence(inner) /\ ToSet(inner) = {inner[i] : i \in DOMAIN contexts}
    <3>1. inner = [i \in DOMAIN contexts |-> inner[i]]
      BY <2>1
    <3> QED BY <2>3, <3>1, MadeFacts
  <2>5. ToSet(contexts') = ToSet(inner)
    BY <2>2, <2>4, SortedFacts
  <2>6. ASSUME NEW i \in DOMAIN contexts
        PROVE  AreAsked(inner[i].items, requests)
    <3>1. PICK c : c = contexts[i]
      OBVIOUS
    <3>2. "items" \in DOMAIN c /\ IsSequence(c.items) /\ AreAsked(c.items, requests)
      BY <2>3, <3>1 DEF FitInv, AreContexts, AskedInv
    <3>3. inner[i] = [c EXCEPT !.items = Sorted(c.items)]
      BY <2>1, <3>1
    <3>4. inner[i].items = Sorted(c.items)
      BY <3>2, <3>3
    <3> QED BY <3>2, <3>4, SortedFacts DEF AreAsked
  <2>7. \A c \in ToSet(contexts') : AreAsked(c.items, requests)
    BY <2>4, <2>5, <2>6
  <2> QED BY <2>2, <2>7 DEF AskedInv
<1>8. CASE RenderProject
  <2>1. Kept
    BY <1>8 DEF RenderProject, mapVars
  <2> QED BY <1>1, <2>1
<1>9. CASE UNCHANGED vars
  <2>1. Kept
    BY <1>9 DEF vars, buildVars, mapVars, renderVars
  <2> QED BY <1>1, <2>1
<1> QED BY <1>2, <1>3, <1>4, <1>5, <1>6, <1>7, <1>8, <1>9 DEF Next

(***************************************************************************)
(* Whatever is in a model, and whatever the configuration, what is         *)
(* rendered fits: every file imports the packages that its text uses and   *)
(* no others, and what it imports of the project is rendered, too, under   *)
(* the conditions that ImportsFit names.  This rests on OptionsAssumption  *)
(* and ListsAssumption; on every use case coming with its port through     *)
(* mapping, sorting and the making of contexts; and on every import that a *)
(* type comes with having been asked for before its context is rendered.   *)
(***************************************************************************)
THEOREM ImportsAlwaysFit == Spec => []ImportsFit
<1> DEFINE Inv == ShareInv /\ RefsInv /\ FitInv /\ WalkInv /\ AskedInv
<1>1. Init => Inv
  BY ShareInit, RefsInit, FitInit, WalkInit, AskedInit
<1>2. Inv /\ [Next]_vars => Inv'
  BY ShareStep, RefsStep, FitStep, WalkStep, AskedStep
<1>3. Inv => ImportsFit
  BY RenderFits DEF ImportsFit, AskedInv
<1> QED BY <1>1, <1>2, <1>3, PTL DEF Spec
=============================================================================
