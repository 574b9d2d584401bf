-------------------------------- MODULE MCMmu --------------------------------
(* A small machine for Mmu: two levels of page tables, two pages of memory   *)
(* and two of devices.                                                       *)
EXTENDS Mmu, TLC

Pte(r, w, x, u, ppn) == [v |-> TRUE, r |-> r, w |-> w, x |-> x, u |-> u, ppn |-> ppn]
Table(ppn) == Pte(FALSE, FALSE, FALSE, FALSE, ppn)
Invalid == [Table(0) EXCEPT !.v = FALSE]
\* A supervisor page and a user page, with all permissions.
Super(ppn) == Pte(TRUE, TRUE, TRUE, FALSE, ppn)
User(ppn) == Pte(TRUE, TRUE, TRUE, TRUE, ppn)

\* Page 0 is the root.  Its first entry points to the table in page 1, its
\* second is a user superpage of devices.  Page 1 maps virtual page 0 to the root,
\* so that a store to its first cell changes the translation that the store has
\* used, and virtual page 1 to the same for users; with page 1 as the root its
\* entries are superpages.
MCMem == (0 :> (0 :> Table(1) @@ 1 :> User(2)))
      @@ (1 :> (0 :> Super(0) @@ 1 :> User(0)))

MCAddresses == { <<0, 0>>, <<1, 0>> }
\* One store changes the first entry of the root.
MCStores == { <<<<0, 0>>, User(2)>> }
MCTriggers == { [NoTrigger EXCEPT !.load = TRUE, !.store = TRUE, !.timing = 1, !.dmode = TRUE,
                                  !.action = "exception"] }
MCFetchTriggers == { [NoTrigger EXCEPT !.execute = TRUE] }
\* No cache models, or both.
MCTracers == { {}, Types }
MCWatched == { <<1, 0>> }
MCNoTracers == { {} }
=============================================================================
