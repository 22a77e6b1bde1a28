------------------------------- MODULE MCOffice -------------------------------
(***************************************************************************)
(* What admins and users keep beside the money, and what they are shown of *)
(* it: policy rules, groups and KYC; payment destinations; files; the      *)
(* price board; the queue to Tahesab; the lists and pages of P2P           *)
(* withdrawals.  These services share no table that a call of one changes  *)
(* for another, so a behaviour plays one scene, an instance with constants *)
(* of its own.                                                             *)
(*   rules     admins create, patch and delete rules, one call at a time   *)
(*   kyc       rules of every KYC level, and users of every level          *)
(*   groups    groups, their members and settings, one call at a time      *)
(*   grid      two calls at a time on cells of the grid and bulk rules     *)
(*   cells     the same, one call at a time                                *)
(*   edits     two calls at a time on a rule and its group                 *)
(*   own       two calls at a time on the destinations of a user           *)
(*   defaults  one call at a time on defaults                              *)
(*   payout    destinations that withdrawals and allocations use           *)
(*   files     uploads, attachments, proofs and deletes that overlap       *)
(*   lists     files of a deposit, a KYC request and a gold lot            *)
(*   mappings  two admins who replace the mappings of a product            *)
(*   prices    one admin's mappings and overrides                          *)
(*   queue     two batches at a time, with faults                          *)
(*   customers two users, one caller and one batch at a time               *)
(*   shown     two calls at a time on allocations, and their views         *)
(*   screens   lists and pages read in several statements between calls    *)
(*   totals    one call at a time on two P2P withdrawals and an offer      *)
(*   pair      one call at a time on a P2P withdrawal and two offers       *)
(***************************************************************************)
EXTENDS Integers, TLC

CONSTANTS
  Callers, Clerk,   \* two calls at a time, or one
  Two, x3,          \* ids of rows
  None

VARIABLES rule, audit, group, clock,                                       \* PolicyRules
          dest, withdrawal, allocation, key,                               \* PaymentDestinations
          file, object, attachment, link, proofs, uploads, now, failed,    \* Files
          product, provider, mapping, override, listed, resolved,          \* PriceBoard
          outbox, customer, sent, batch, faults,                           \* TahesabOutbox
          deposit, alloc, hold, allocHold, account, usage, idempotency, screen,   \* P2PViews
          user, call, held, tx,
          scene

policyVars == <<rule, audit, group, clock>>
destinationVars == <<dest, withdrawal, allocation, key>>
fileVars == <<file, object, attachment, link, proofs, uploads, now, failed>>
boardVars == <<product, provider, mapping, override, listed, resolved>>
outboxVars == <<outbox, customer, sent, batch, faults>>
p2pVars == <<deposit, alloc, hold, allocHold, account, usage, idempotency, screen>>
vars == <<policyVars, destinationVars, fileVars, boardVars, outboxVars, p2pVars, user, call, held, tx, scene>>

Three == Two \union {x3}
Symmetry == Permutations(Callers) \union Permutations(Two)

----------------------------------------------------------------------------
(* Policy rules *)

Form(scope, u, g, p, instrument, type, kyc, priority, limit) ==
  [scope |-> scope, user |-> u, group |-> g, key |-> "day", limit |-> limit, kyc |-> kyc,
   product |-> p, instrument |-> instrument, type |-> type, enabled |-> TRUE, priority |-> priority]

\* Rules of all scopes and selectors, one with two selectors.
AllForms ==
  {Form("USER", "u1", None, None, None, "gold", 0, 2, 3), Form("USER", "u1", "g1", "pr1", "i1", None, 2, 1, 1),
   Form("GROUP", None, "g1", None, None, None, 1, 1, 2), Form("GROUP", None, "g1", None, "i1", None, 0, 1, 4),
   Form("GLOBAL", None, None, None, None, None, 0, 1, 3)}

AllPatches ==
  {[enabled |-> FALSE], [scope |-> "GROUP", group |-> "g1"], [scope |-> "USER"]}

\* Two rules of every kind of request: levels 1 and 2 for one key.
KycForms ==
  {Form("GLOBAL", None, None, None, None, None, k, 1, 3) : k \in 0..2} \union
  {Form("USER", "u1", None, None, None, "gold", 1, 1, 2), Form("GROUP", None, "g1", None, "i1", None, 2, 1, 4),
   [Form("GLOBAL", None, None, None, None, None, 2, 1, 3) EXCEPT !.key = "month"]}

AllKyc == [status : {"PENDING", "VERIFIED", "REJECTED"}, level : 0..2]

CellForms == {Form("USER", "u1", None, "pr1", None, None, 0, 1, 4), Form("USER", "u1", None, None, None, None, 0, 1, 4)}
CellPatches == {[priority |-> 2], [limit |-> 3]}

Rules == INSTANCE PolicyRules WITH
  Procs <- Clerk, Ops <- {"create", "patch", "delete", "remove"}, Users <- {"u1"}, Groups <- {"g1"}, Ids <- Two,
  Keys <- {"day"}, Forms <- AllForms, Patches <- AllPatches, MaxTime <- 1,
  Product <- "pr1", Instrument <- "i1", Type <- "gold", DefaultPriority <- 1, FirstGroup <- "g1", Values <- {1, 2}, KycBodies <- {}

Kyc == INSTANCE PolicyRules WITH
  Procs <- Clerk, Ops <- {"create", "kyc"}, Users <- {"u1"}, Groups <- {"g1"}, Ids <- Three,
  Keys <- {"day", "month"}, Forms <- KycForms, Patches <- {}, MaxTime <- 0,
  Product <- "pr1", Instrument <- "i1", Type <- "gold", DefaultPriority <- 1, FirstGroup <- "g1", Values <- {}, KycBodies <- AllKyc

Grouping == INSTANCE PolicyRules WITH
  Procs <- Clerk, Ops <- {"group", "move", "remove", "settings"}, Users <- {"u1", "u2"}, Groups <- {"g1", "g2", "g3"},
  Ids <- {x3}, Keys <- {"day"}, Forms <- {}, Patches <- {}, MaxTime <- 0,
  Product <- "pr1", Instrument <- "i1", Type <- "gold", DefaultPriority <- 1, FirstGroup <- "g1", Values <- {}, KycBodies <- {}

\* Rules of a cell that SET leaves hidden: disabled, above the user's level, or
\* of a priority that a duplicate outranks.
GridForms ==
  LET cell == Form("USER", "u1", None, "pr1", None, None, 0, 1, 4)
  IN  {[cell EXCEPT !.enabled = FALSE], [cell EXCEPT !.kyc = 1], [cell EXCEPT !.priority = 2],
       Form("USER", "u1", None, None, None, None, 0, 1, 4)}
GridKyc == {[status |-> "PENDING", level |-> 1], [status |-> "VERIFIED", level |-> 1]}

Grid == INSTANCE PolicyRules WITH
  Procs <- Callers, Ops <- {"set", "clear", "upsert", "kyc"}, Users <- {"u1"}, Groups <- {"g1"}, Ids <- Two,
  Keys <- {"day"}, Forms <- GridForms, Patches <- {}, MaxTime <- 1,
  Product <- "pr1", Instrument <- "i1", Type <- "gold", DefaultPriority <- 1, FirstGroup <- None, Values <- {1, 2}, KycBodies <- GridKyc

Cells == INSTANCE PolicyRules WITH
  Procs <- Clerk, Ops <- {"set", "clear", "upsert", "patch"}, Users <- {"u1"}, Groups <- {"g1"}, Ids <- Two,
  Keys <- {"day"}, Forms <- CellForms, Patches <- CellPatches, MaxTime <- 1,
  Product <- "pr1", Instrument <- "i1", Type <- "gold", DefaultPriority <- 1, FirstGroup <- "g1", Values <- {1, 2}, KycBodies <- {}

EditForms == {Form("USER", "u1", None, None, None, "gold", 0, 1, 4), Form("GROUP", None, "g1", None, None, None, 0, 1, 3)}
EditPatches ==
  {[product |-> "pr1"], [instrument |-> "i1"], [scope |-> "GROUP", group |-> "g1"], [scope |-> "USER", user |-> "u1"]}

Edits == INSTANCE PolicyRules WITH
  Procs <- Callers, Ops <- {"create", "patch", "delete", "upsert", "remove"}, Users <- {"u1"}, Groups <- {"g1"}, Ids <- {x3},
  Keys <- {"day"}, Forms <- EditForms, Patches <- EditPatches, MaxTime <- 0,
  Product <- "pr1", Instrument <- "i1", Type <- "gold", DefaultPriority <- 1, FirstGroup <- "g1", Values <- {}, KycBodies <- {}

----------------------------------------------------------------------------
(* Payment destinations *)

Own == INSTANCE PaymentDestinations WITH
  Procs <- Callers, Users <- {"u1"}, System <- "system", Ids <- Two, Types <- {"IBAN"},
  Numbers <- {"n1", "n2"}, Short <- {}, Styles <- {"plain", "spaced"}, Titles <- {"t1"}, Defaults <- {FALSE},
  EncryptionKeys <- {"k1"}, Withdrawals <- {}, Calls <- {"create", "update", "makeDefault"}

Defaulting == INSTANCE PaymentDestinations WITH
  Procs <- Clerk, Users <- {"u1"}, System <- "system", Ids <- Three, Types <- {"IBAN"},
  Numbers <- {"n1", "n2", "n0"}, Short <- {"n0"}, Styles <- {"plain"}, Titles <- {}, Defaults <- BOOLEAN,
  EncryptionKeys <- {"k1"}, Withdrawals <- {}, Calls <- {"create", "createSystem", "update", "makeDefault"}

Payout == INSTANCE PaymentDestinations WITH
  Procs <- Callers, Users <- {"u1"}, System <- "system", Ids <- Two, Types <- {"IBAN"},
  Numbers <- {"n1", "n2"}, Short <- {}, Styles <- {"plain"}, Titles <- {}, Defaults <- {FALSE},
  EncryptionKeys <- {"k1", "k2"}, Withdrawals <- {"w1"}, Calls <- {"create", "createSystem", "update", "withdraw"}

----------------------------------------------------------------------------
(* Files: u1 makes a deposit and has a gold lot, u2 asks for KYC; u1 pays u2. *)

KindOf == [e1 |-> "DEPOSIT", e2 |-> "KYC", e3 |-> "GOLD_LOT"]
PartiesOf == [e1 |-> {"u1"}, e2 |-> {"u2"}, e3 |-> {"u1"}]

Overlapping == INSTANCE FilesInvariant WITH
  Procs <- Callers, Users <- {"u1", "u2"}, Ids <- Two, Names <- {"n1"}, Millis <- {1, 2}, Entities <- {"e1"},
  Kind <- KindOf, Parties <- PartiesOf, Allocations <- {"a1"}, Payer <- [a1 |-> "u1"], Receiver <- [a1 |-> "u2"],
  Collisions <- FALSE, MaxProofs <- 3

FileLists == INSTANCE FilesInvariant WITH
  Procs <- Callers, Users <- {"u1", "u2"}, Ids <- Two, Names <- {"n1"}, Millis <- {1}, Entities <- {"e1", "e2", "e3"},
  Kind <- KindOf, Parties <- PartiesOf, Allocations <- {}, Payer <- <<>>, Receiver <- <<>>,
  Collisions <- TRUE, MaxProofs <- 3

----------------------------------------------------------------------------
(* The price board: two providers that fail in different ways, and the      *)
(* lists an admin sends to replace the mappings of a product.               *)

ReplyOf == [a |-> {"throws", "negative", "fresh"}, b |-> {"none", "stale"}]
Item(v, n, on) == [provider |-> v, priority |-> n, enabled |-> on]
MCLists == {{Item("a", 1, TRUE), Item("b", 2, TRUE)}, {Item("b", 1, TRUE)}, {Item("a", 1, FALSE), Item("b", 1, TRUE)}}

TwoAdmins == INSTANCE PriceBoard WITH
  Procs <- Callers, Products <- {"x"}, Providers <- {"a", "b"}, Admins <- {"admin"}, Registered <- {"a", "b"},
  Reply <- ReplyOf, MappingIds <- Three, Priorities <- {1, 2}, MaxOverrides <- 0, Lists <- MCLists

OneAdmin == INSTANCE PriceBoard WITH
  Procs <- Clerk, Products <- {"x"}, Providers <- {"a", "b"}, Admins <- {"admin"}, Registered <- {"a"},
  Reply <- [a |-> {"negative", "fresh"}, b |-> {"stale"}], MappingIds <- Two, Priorities <- {1, 2}, MaxOverrides <- 2, Lists <- MCLists

----------------------------------------------------------------------------
(* The queue to Tahesab *)

Queue == INSTANCE TahesabOutbox WITH
  Workers <- Callers, Callers <- Clerk, Users <- {"u1"}, Groups <- {"g1", "g2"}, FirstGroup <- "g1",
  Limit <- 1, MaxName <- 1, MaxRows <- 2, MaxFaults <- 1

Customers == INSTANCE TahesabOutbox WITH
  Workers <- {"w"}, Callers <- Clerk, Users <- {"u1", "u2"}, Groups <- {"g1", "g2"}, FirstGroup <- "g1",
  Limit <- 2, MaxName <- 1, MaxRows <- 3, MaxFaults <- 0

----------------------------------------------------------------------------
(* P2P allocations and what is shown of them: a withdrawal is for 2, and an *)
(* offer too unless two withdrawals share it.                               *)

ForTwo(S) == [x \in S |-> 2]
OneOffer == {"d1"}
TwoOffers == {"d1", "d2"}

Shown == INSTANCE P2PViews WITH
  Procs <- Callers, Withdrawals <- {"w1"}, WithdrawAmount <- ForTwo({"w1"}), Deposits <- OneOffer,
  DepositAmount <- ForTwo(OneOffer), Allocations <- Two, Amounts <- {1}, Keys <- {}, NoKey <- None,
  Mode <- "RECEIVER", MaxItems <- 1, MaxFiles <- 1, MinBalance <- 0, NoLimit <- None, PageSize <- 1

Screens == INSTANCE P2PViews WITH
  Procs <- Clerk, Withdrawals <- {"w1"}, WithdrawAmount <- ForTwo({"w1"}), Deposits <- OneOffer,
  DepositAmount <- ForTwo(OneOffer), Allocations <- Two, Amounts <- {1}, Keys <- {}, NoKey <- None,
  Mode <- "ADMIN", MaxItems <- 1, MaxFiles <- 1, MinBalance <- 0, NoLimit <- None, PageSize <- 1

Totals == INSTANCE P2PViews WITH
  Procs <- Clerk, Withdrawals <- {"w1", "w2"}, WithdrawAmount <- ForTwo({"w1", "w2"}), Deposits <- OneOffer,
  DepositAmount <- [d1 |-> 3], Allocations <- Two, Amounts <- {1, 2}, Keys <- {}, NoKey <- None,
  Mode <- "RECEIVER_OR_ADMIN", MaxItems <- 2, MaxFiles <- 1, MinBalance <- 0, NoLimit <- None, PageSize <- 1

Pair == INSTANCE P2PViews WITH
  Procs <- Clerk, Withdrawals <- {"w1"}, WithdrawAmount <- ForTwo({"w1"}), Deposits <- TwoOffers,
  DepositAmount <- ForTwo(TwoOffers), Allocations <- Two, Amounts <- {1, 2}, Keys <- {}, NoKey <- None,
  Mode <- "ADMIN", MaxItems <- 2, MaxFiles <- 1, MinBalance <- 0, NoLimit <- None, PageSize <- 1

ASSUME Rules!FormsAssumption /\ Kyc!FormsAssumption /\ Cells!FormsAssumption
ASSUME Grid!FormsAssumption /\ Edits!FormsAssumption
ASSUME Own!OwnersAssumption /\ Payout!OwnersAssumption
ASSUME Overlapping!EntitiesAssumption /\ FileLists!EntitiesAssumption /\ Overlapping!AllocationsAssumption
ASSUME Overlapping!NamesAssumption /\ FileLists!NamesAssumption /\ FileLists!KycAssumption
ASSUME TwoAdmins!BoardAssumption /\ OneAdmin!BoardAssumption
ASSUME Queue!GroupsAssumption /\ Queue!LimitAssumption /\ Customers!LimitAssumption
ASSUME Shown!PageAssumption /\ Shown!OffersAssumption /\ Totals!ModeAssumption /\ Totals!OffersAssumption /\ Pair!OffersAssumption

----------------------------------------------------------------------------
Unused == "unused"

NoPolicies == rule = Unused /\ audit = Unused /\ group = Unused /\ clock = Unused
NoDestinations == dest = Unused /\ withdrawal = Unused /\ allocation = Unused /\ key = Unused
NoFiles == /\ file = Unused /\ object = Unused /\ attachment = Unused /\ link = Unused
           /\ proofs = Unused /\ uploads = Unused /\ now = Unused /\ failed = Unused
NoBoard == /\ product = Unused /\ provider = Unused /\ mapping = Unused
           /\ override = Unused /\ listed = Unused /\ resolved = Unused
NoQueue == outbox = Unused /\ customer = Unused /\ sent = Unused /\ batch = Unused /\ faults = Unused
NoAllocations == /\ deposit = Unused /\ alloc = Unused /\ hold = Unused /\ allocHold = Unused
                 /\ account = Unused /\ usage = Unused /\ idempotency = Unused /\ screen = Unused
NoLocks == held = Unused /\ tx = Unused

Init ==
  \/ /\ NoDestinations /\ NoFiles /\ NoBoard /\ NoQueue /\ NoAllocations /\ NoLocks
     /\ \/ scene = "rules" /\ Rules!Init
        \/ scene = "kyc" /\ Kyc!Init
        \/ scene = "groups" /\ Grouping!Init
        \/ scene = "grid" /\ Grid!Init
        \/ scene = "cells" /\ Cells!Init
        \/ scene = "edits" /\ Edits!Init
  \/ /\ NoPolicies /\ NoFiles /\ NoBoard /\ NoQueue /\ NoAllocations /\ user = Unused /\ call = Unused
     /\ \/ scene = "own" /\ Own!Init
        \/ scene = "defaults" /\ Defaulting!Init
        \/ scene = "payout" /\ Payout!Init
  \/ /\ NoPolicies /\ NoDestinations /\ NoBoard /\ NoQueue /\ NoAllocations /\ user = Unused /\ call = Unused
     /\ \/ scene = "files" /\ Overlapping!Init
        \/ scene = "lists" /\ FileLists!Init
  \/ /\ NoPolicies /\ NoDestinations /\ NoFiles /\ NoQueue /\ NoAllocations /\ NoLocks /\ user = Unused
     /\ \/ scene = "mappings" /\ TwoAdmins!Init
        \/ scene = "prices" /\ OneAdmin!Init
  \/ /\ NoPolicies /\ NoDestinations /\ NoFiles /\ NoBoard /\ NoAllocations /\ NoLocks
     /\ \/ scene = "queue" /\ Queue!Init
        \/ scene = "customers" /\ Customers!Init
  \/ /\ NoPolicies /\ NoFiles /\ NoBoard /\ NoQueue /\ user = Unused /\ call = Unused
     /\ dest = Unused /\ allocation = Unused /\ key = Unused /\ held = Unused
     /\ \/ scene = "shown" /\ Shown!ViewInit
        \/ scene = "screens" /\ Screens!ViewInit
        \/ scene = "totals" /\ Totals!ViewInit
        \/ scene = "pair" /\ Pair!ViewInit

Next ==
  /\ UNCHANGED scene
  /\ \/ /\ UNCHANGED <<destinationVars, fileVars, boardVars, outboxVars, p2pVars, held, tx>>
        /\ \/ scene = "rules" /\ Rules!Next
           \/ scene = "kyc" /\ Kyc!Next
           \/ scene = "groups" /\ Grouping!Next
           \/ scene = "grid" /\ Grid!Next
           \/ scene = "cells" /\ Cells!Next
           \/ scene = "edits" /\ Edits!Next
     \/ /\ UNCHANGED <<policyVars, fileVars, boardVars, outboxVars, p2pVars, user, call>>
        /\ \/ scene = "own" /\ Own!Next
           \/ scene = "defaults" /\ Defaulting!Next
           \/ scene = "payout" /\ Payout!Next
     \/ /\ UNCHANGED <<policyVars, destinationVars, boardVars, outboxVars, p2pVars, user, call>>
        /\ \/ scene = "files" /\ Overlapping!Next
           \/ scene = "lists" /\ FileLists!Next
     \/ /\ UNCHANGED <<policyVars, destinationVars, fileVars, outboxVars, p2pVars, user, held, tx>>
        /\ \/ scene = "mappings" /\ TwoAdmins!Next
           \/ scene = "prices" /\ OneAdmin!Next
     \/ /\ UNCHANGED <<policyVars, destinationVars, fileVars, boardVars, p2pVars, held, tx>>
        /\ \/ scene = "queue" /\ Queue!Next
           \/ scene = "customers" /\ Customers!Next
     \/ /\ UNCHANGED <<policyVars, dest, allocation, key, fileVars, boardVars, outboxVars, user, call, held>>
        /\ \/ scene = "shown" /\ Shown!Next /\ UNCHANGED screen
           \/ scene = "screens" /\ Screens!ViewNext
           \/ scene = "totals" /\ Totals!Next /\ UNCHANGED screen
           \/ scene = "pair" /\ Pair!Next /\ UNCHANGED screen

Spec == Init /\ [][Next]_vars

----------------------------------------------------------------------------
\* Rows, calls, batches and storage have the form the code gives them.
TypesOK ==
  CASE scene = "rules" -> Rules!TypeOK
    [] scene = "kyc" -> Kyc!TypeOK
    [] scene = "groups" -> Grouping!TypeOK
    [] scene = "grid" -> Grid!TypeOK
    [] scene = "cells" -> Cells!TypeOK
    [] scene = "edits" -> Edits!TypeOK
    [] scene = "own" -> Own!TypeOK
    [] scene = "defaults" -> Defaulting!TypeOK
    [] scene = "payout" -> Payout!TypeOK
    [] scene = "files" -> Overlapping!TypeOK
    [] scene = "lists" -> FileLists!TypeOK
    [] scene = "mappings" -> TwoAdmins!TypeOK
    [] scene = "prices" -> OneAdmin!TypeOK
    [] scene = "queue" -> Queue!TypeOK
    [] scene = "customers" -> Customers!TypeOK
    [] scene = "shown" -> Shown!TypeOK
    [] scene = "screens" -> Screens!TypeOK /\ Screens!ScreenTypeOK
    [] scene = "totals" -> Totals!TypeOK
    [] scene = "pair" -> Pair!TypeOK

\* The rule that applies is the one the order of compareRules promises, never a
\* rule of a deleted group, and rules stay well formed, also when PATCHes, bulk
\* calls and the removal of a group overlap.  KYC refusals and capabilities
\* agree with it, and the older resolver differs only for users whose level is
\* not VERIFIED.  One call at a time: the audit log shows the rules as they are,
\* and no two rules are for the same.
RulesApply ==
  /\ scene = "rules" => /\ Rules!RowsAreWellFormed /\ Rules!OrphansNeverApply /\ Rules!SelectionIsStagewise
                        /\ Rules!AuditFollowsRules
  /\ scene = "kyc" => Kyc!RequiredLevelIsLeast /\ Kyc!CapabilitiesAreSafe /\ Kyc!LegacyDiffersByStatus
  /\ scene = "groups" => Grouping!OneDefaultGroup
  /\ scene = "cells" => Cells!NoDuplicateRules
  /\ scene = "edits" => Edits!RowsAreWellFormed /\ Edits!OrphansNeverApply

\* SET makes its value the limit, or changes nothing when the rule that it finds
\* is disabled, above the user's level or outranked by the priority of another,
\* and CLEAR leaves no rule of the cell, whatever duplicates overlapping calls
\* have made; PATCH and the removal of a group
\* leave other fields and the members of groups alone; makeDefault leaves what a
\* PATCH has just written, a withdrawal names a destination that was listed, and
\* only an admin's force detaches a file.
EditsTakeEffect ==
  [][/\ scene = "grid" => Grid!SetTakesEffect /\ Grid!ClearIsComplete
     /\ scene = "rules" => Rules!PatchKeepsOtherFields
     /\ scene = "groups" => Grouping!UsersKeepTheirGroup
     /\ scene = "own" => Own!MakeDefaultKeepsRest
     /\ scene = "payout" => Payout!ResolvedWasListed
     /\ scene = "files" => Overlapping!AttachmentsStay]_vars

\* A user has a number once, one default if calls do not overlap; money that is
\* on its way goes to the number of its destination, and the payer sees it.
DestinationsHold ==
  /\ scene = "own" => Own!OneRowPerValue
  /\ scene = "defaults" => Defaulting!OneDefault
  /\ scene = "payout" => Payout!OneRowPerValue /\ Payout!SnapshotsAreOwn /\ Payout!PayersSeeTheNumber /\ Payout!ListedIsPayable

\* A file can be read as uploaded by those it is shown to, has its row while
\* anything refers to it, and leaves nothing behind, wherever calls stop; each
\* call still finds what it has read before.
FilesHold ==
  /\ scene = "files" => /\ Overlapping!RowsHaveObjects /\ Overlapping!NoOrphans /\ Overlapping!ReferencesHold
                        /\ Overlapping!IInv /\ Overlapping!ProofsAreReadable
  /\ scene = "lists" => FileLists!IInv /\ FileLists!ListedIsReadable

\* The provider that is chosen is the first that answers, of mappings in the
\* order of one admin's list; a product has one active override, if calls do
\* not overlap.
BoardIsOrdered ==
  /\ scene = "mappings" => TwoAdmins!OneMappingPerProvider /\ TwoAdmins!ChosenIsFirstValid
  /\ scene = "prices" => OneAdmin!ListsAreWhole /\ OneAdmin!ListsAreOrdered /\ OneAdmin!OneActiveOverride

\* What is marked SUCCESS was sent, and sent no more often than batches and
\* faults explain; with one batch at a time Tahesab ends up with every user as
\* the User row is.
CustomersAreSent ==
  /\ scene = "queue" => Queue!SuccessWasSent /\ Queue!SendsAreBounded
  /\ scene = "customers" => Customers!CustomersFollowUsers

\* What the views offer the handlers accept, whoever is asked finds it in a
\* list, nothing open waits for what nobody is offered, and pages read in
\* several statements never show money or a proof that is not there.  One call
\* at a time: the totals and statuses of both requests are those of their
\* allocations, and so the candidates and tabs told from the totals fit.
ViewsTellTheTruth ==
  /\ scene = "shown" => /\ Shown!OfferedIsAccepted /\ Shown!FinalizeIsAccepted /\ Shown!OfferedIsListed
                        /\ Shown!FlagsAgree /\ Shown!FinalizableIsCounted
  /\ scene = "totals" => /\ Totals!OfferedIsAccepted /\ Totals!ProgressIsOffered
                         /\ Totals!TotalsMatchAllocations /\ Totals!StatusMatchesAllocations
                         /\ Totals!CandidatesFit /\ Totals!TabsFollowStatus
  /\ scene = "pair" => /\ Pair!OfferedIsAccepted /\ Pair!ProgressIsOffered
                       /\ Pair!TotalsMatchAllocations /\ Pair!StatusMatchesAllocations
                       /\ Pair!CandidatesFit /\ Pair!TabsFollowStatus
  /\ scene = "screens" => Screens!ProofsAreShown /\ Screens!SettledIsShownProven
=============================================================================
