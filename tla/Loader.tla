------------------------------- MODULE Loader -------------------------------
(***************************************************************************)
(* Where the elements come from: a file (internal/adapter/sysmlfile), or   *)
(* the elements of a commit, page by page, from a server of the SysML v2   *)
(* API (internal/adapter/sysmlapi).                                        *)
(*                                                                         *)
(* Files and servers are parameters.  A server answers each URL with a     *)
(* page and links; URLs are compared as they are written, so that the      *)
(* first page, asked for by its path, can be linked to under a second one. *)
(* Any request may fail: in transit, with a status, or as no JSON.         *)
(***************************************************************************)
EXTENDS Overlay

CONSTANT PageSize

VARIABLES source,   \* what is loaded from, as it is
          next,     \* the URL of the next page
          visited   \* those of the pages before

loaderVars == <<source, next, visited>>

\* The lists of elements in a document.
Unwrap(entries) ==
  [i \in DOMAIN entries |-> IF "payload" \in DOMAIN entries[i] THEN entries[i].payload ELSE entries[i].element]

ListsOf(doc) ==
  CASE doc.form = "array" -> {Unwrap(doc.entries)}
    [] doc.form = "object" -> {Unwrap(doc.elements), Unwrap(doc.content)}
    [] OTHER -> {}

(***************************************************************************)
(* What is decoded has its own objects: json.Unmarshal makes new maps for  *)
(* every object it reads, and so does the decoding of a document.          *)
(***************************************************************************)
IsObject(o, size) == IsFiniteSet(DOMAIN o) /\ Addresses(o) \subseteq 1 .. size
AreObjects(els, size) == IsSequence(els) /\ \A i \in DOMAIN els : IsObject(els[i], size)
OwnObjects(els) ==
  \A i, j \in DOMAIN els : i < j => Addresses(els[i]) \cap Addresses(els[j]) = {}
NoCommon(els, others) ==
  \A i \in DOMAIN els, j \in DOMAIN others : Addresses(els[i]) \cap Addresses(others[j]) = {}

ASSUME InputsAssumption ==
  \A input \in Inputs :
    LET size == Len(input.objects)
        src == input.source
    IN  /\ IsSequence(input.objects) /\ IsSequence(input.actions)
        /\ \A i \in DOMAIN input.actions :
             input.actions[i].update # None => IsObject(input.actions[i].update, size)
        /\ src.kind = "file" =>
             \A els \in ListsOf(src.doc) : AreObjects(els, size) /\ OwnObjects(els)
        /\ src.kind = "api" =>
             \A url \in DOMAIN src.pages :
               LET els == src.pages[url].elements
               IN  /\ AreObjects(els, size) /\ OwnObjects(els)
                   /\ \A other \in DOMAIN src.pages \ {url} : NoCommon(els, src.pages[other].elements)

HasLists(el) == \A k \in DOMAIN el : "refs" \in DOMAIN el[k] => IsSequence(el[k].refs)
HaveLists(els) == \A i \in DOMAIN els : HasLists(els[i])

\* And its arrays are lists.
ASSUME ListsAssumption ==
  \A input \in Inputs :
    LET src == input.source
    IN  /\ \A i \in DOMAIN input.actions :
             input.actions[i].update # None => HasLists(input.actions[i].update)
        /\ src.kind = "file" => \A els \in ListsOf(src.doc) : HaveLists(els)
        /\ src.kind = "api" => \A url \in DOMAIN src.pages : HaveLists(src.pages[url].elements)

NoURL == <<>>
FirstURL(commit) == IF commit = "" THEN NoURL ELSE <<commit>>

LoaderInit ==
  /\ \E input \in Inputs :
       source = input.source /\ objects = input.objects /\ actions = input.actions
  /\ next = FirstURL(source.commit) /\ visited = {}
  /\ elements = <<>>
  /\ status = "load"

Loading(kind) == status = "load" /\ source.kind = kind

\* What Load returns: the elements, or an error.
Returned(outcome, els) ==
  /\ status' = outcome /\ elements' = els
  /\ next' = NoURL /\ visited' = {}
  /\ UNCHANGED <<source, objects, actions, act, actionVars>>
Loaded(els) == Returned("overlay", els)
LoadFails == Returned("failed", <<>>)
-----------------------------------------------------------------------------
(***************************************************************************)
(* Decode: the document is an array, or an object with arrays under        *)
(* "elements" and "content"; its entries are elements, or envelopes around *)
(* them.                                                                   *)
(***************************************************************************)
Decode(doc) ==
  CASE doc.form = "array" -> Loaded(Unwrap(doc.entries))
    [] doc.form = "object" /\ doc.elements # <<>> -> Loaded(Unwrap(doc.elements))
    [] doc.form = "object" /\ doc.elements = <<>> /\ doc.content # <<>> -> Loaded(Unwrap(doc.content))
    [] OTHER -> LoadFails

ReadFile == Loading("file") /\ Decode(source.doc)
-----------------------------------------------------------------------------
(***************************************************************************)
(* The API.                                                                *)
(***************************************************************************)
\* Commits come newest first; those without an identity are passed over.
Named(commits) == SelectSeq(commits, LAMBDA c : c # "")

LatestCommit ==
  /\ Loading("api") /\ next = NoURL
  /\ IF Named(source.commits) = <<>>
       THEN LoadFails
       ELSE /\ next' = FirstURL(Head(Named(source.commits)))
            /\ UNCHANGED <<source, visited, overlayVars, status>>

\* parseNextLink
NextLink(links) ==
  LET nexts == SelectSeq(links, LAMBDA link : link.rel = "next")
  IN  IF nexts = <<>> THEN NoURL ELSE Head(nexts).url

(***************************************************************************)
(* What there is to load.  A file holds what Decode finds; a server        *)
(* divides the elements of a commit into pages, so that those from the     *)
(* first to one that is not full and links no further hold them all.       *)
(***************************************************************************)
Held(doc) ==
  CASE doc.form = "array" -> Unwrap(doc.entries)
    [] doc.form = "object" -> Unwrap(IF doc.elements # <<>> THEN doc.elements ELSE doc.content)
    [] OTHER -> <<>>

Linked(pages, urls) ==
  /\ \A i, j \in DOMAIN urls : urls[i] = urls[j] => i = j
  /\ \A i \in 1 .. Len(urls) - 1 : NextLink(pages[urls[i]].links) = urls[i + 1]
Complete(page) == NextLink(page.links) = NoURL /\ Len(page.elements) # PageSize
OnPages(pages, urls) == FlattenSeq([i \in DOMAIN urls |-> pages[urls[i]].elements])

ASSUME ContentAssumption ==
  \A input \in Inputs :
    LET src == input.source
    IN  /\ src.kind = "file" => src.commit # "" /\ src.content[src.commit] = Held(src.doc)
        /\ src.kind = "api" =>
             /\ IsFiniteSet(DOMAIN src.pages) /\ NoURL \notin DOMAIN src.pages
             /\ \A n \in 1 .. Cardinality(DOMAIN src.pages) : \A urls \in [1 .. n -> DOMAIN src.pages] :
                  LET commit == Head(urls[1])
                  IN  urls[1] = FirstURL(commit) /\ Linked(src.pages, urls) /\ Complete(src.pages[urls[n]]) =>
                        src.content[commit] = OnPages(src.pages, urls)

\* One turn of the loop of fetchElements.  Without a link to the next, a page
\* is the last one, whether it is full or not.
FetchPage ==
  /\ Loading("api") /\ next \in DOMAIN source.pages \ visited
  /\ LET page == source.pages[next]
         all == elements \o page.elements
     IN  IF NextLink(page.links) = NoURL
           THEN Loaded(all)
           ELSE /\ elements' = all
                /\ next' = NextLink(page.links) /\ visited' = visited \cup {next}
                /\ UNCHANGED <<source, objects, actions, act, actionVars, status>>

\* A page that has been fetched before is the end.
PageRepeats == Loading("api") /\ next \in visited /\ Loaded(elements)

\* Seeded fault: a failure behind the first page is the end of the pages.
RequestFailsQuietly ==
  /\ Loading("api") /\ next \notin visited
  /\ IF visited = {} THEN LoadFails ELSE Loaded(elements)

\* Asking for the commits, or for a page.
RequestFails == Loading("api") /\ next \notin visited /\ LoadFails

Load == ReadFile \/ LatestCommit \/ FetchPage \/ PageRepeats \/ RequestFails
-----------------------------------------------------------------------------
(***************************************************************************)
(* README.md: generate prunes what is no longer in the model, so a part of *)
(* a model must not be taken for the whole.  What has been loaded is the   *)
(* content of the file or of the newest commit (or the one asked for), in  *)
(* its order, unless the server cuts it short itself, at the end: the last *)
(* page is full and links to no other, or it links back to one before.     *)
(***************************************************************************)
Newest == IF source.commit # "" THEN source.commit ELSE Head(Named(source.commits))

\* `next' is the last page, and has come, or what the last page links to.
CutShort ==
  \/ next \in visited
  \/ /\ next \in DOMAIN source.pages
     /\ Len(source.pages[next].elements) = PageSize
     /\ NextLink(source.pages[next].links) = NoURL
     /\ elements' = elements \o source.pages[next].elements

LoadIsWhole ==
  [][status = "load" /\ status' = "overlay" =>
       elements' = source.content[Newest] \/ CutShort]_<<overlayVars, loaderVars, status>>
=============================================================================
