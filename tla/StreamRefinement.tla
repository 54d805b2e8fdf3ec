-------------------------- MODULE StreamRefinement --------------------------
(***************************************************************************)
(* EventStream implements EventFeed: the reader in use is the poller of    *)
(* the latest session, and an event is taken once it is handled.           *)
(***************************************************************************)
EXTENDS EventStream

Now == IF current = 0 THEN Poller("off", 0) ELSE pollers[current]

Feed == INSTANCE EventFeed WITH
  made <- head, settled <- handled \cup skipped, mark <- file, NoMark <- NoAnchor,
  reading <- Now.state # "off", first <- Now.start, last <- Now.next - 1,
  waiting <- CoveredBy(Now.queue), sent <- CoveredBy(reply), told <- seen, lost <- dropped

(* Whatever the batches, the halves of a save, the crashes, the remounts    *)
(* and the pollers nobody stops do, the backend in use is fed as EventFeed  *)
(* says, and the anchor file is a mark that passes over nothing.            *)
ImplementsFeed == Feed!Spec
=============================================================================
