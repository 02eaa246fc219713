--------------------------- MODULE MCGuestThreads ---------------------------
(* Small instances of GuestThreads for TLC. *)
EXTENDS GuestThreads

CONSTANTS Event, AutoEvent, Mutex, Semaphore

MCKind == [h \in Objects |-> CASE h = Mutex     -> "Mutex"
                               [] h = Semaphore -> "Semaphore"
                               [] OTHER         -> "Event"]
MCManualReset == {Event} \cap Objects
MCInitialCount == [h \in Objects |-> IF h = Semaphore THEN 1 ELSE 0]

NoLists == {}
EventOrSemaphore == {<<AutoEvent, Semaphore>>}
=============================================================================
