--------------------------- MODULE BridgePromise ----------------------------
(***************************************************************************)
(* A page of the site and the pin that leads to it (see Bridge): what is   *)
(* promised of them.                                                       *)
(***************************************************************************)
EXTENDS Integers

CONSTANT None          \* no file, no page, nothing read

VARIABLES file,    \* the file in the repository
          site,    \* the page that is served, and the build in progress
          pin,     \* the pin's document: its status, and its content
          writer,  \* what each writer is doing
          own,     \* history: the runner's commits of this content, nobody else's between
          changed  \* history: somebody else committed since the writer's GET

Writers == {"runner", "smoke"}

\* About to PUT with a sha the file no longer has, which GitHub refuses.
Stale(w) == writer[w].pc = "put" /\ writer[w].sha # file

(***************************************************************************)
(* "The tool never commits identical content twice": between two changes   *)
(* by somebody else a content of the document is committed once, although  *)
(* its stage dies after the commit, misses the reply, gives up waiting for *)
(* the build, or is run again after a requeue.                             *)
(***************************************************************************)
NeverCommitsTwice == own <= 1

(***************************************************************************)
(* "We never pin a dead link": a document is BRIDGED only while its page   *)
(* is served, whatever builds failed and whoever else pushed it.           *)
(***************************************************************************)
NoDeadLink == pin.status = "BRIDGED" => site.page # None

(***************************************************************************)
(* A conflict, which kills the document, has another writer for a cause:   *)
(* a stage that runs again after its own commit, known to it or not, does  *)
(* not collide with itself.                                                *)
(***************************************************************************)
RefusedByOthers == \A w \in Writers : Stale(w) => changed[w]
=============================================================================
