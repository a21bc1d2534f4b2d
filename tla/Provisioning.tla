---------------------------- MODULE Provisioning ----------------------------
(***************************************************************************)
(* The requests that join the profile vault to SIM cards: api/router.py,   *)
(* the services of services/provisioning.py and the adapter of             *)
(* adapters/pysim.py, over the vault of module ProfileVault.               *)
(*                                                                         *)
(* An endpoint runs in a thread of its own and holds no lock across its    *)
(* steps: between two calls of the vault or of a card it only has its      *)
(* local variables, which are request[c].  Card reads go through adapters  *)
(* of their own and are one step; a write goes field by field in a         *)
(* subprocess under the lock of the one writing adapter.  Cards keep their *)
(* contents when they leave the reader and when the program stops.         *)
(***************************************************************************)
EXTENDS ProfileVault

CONSTANTS
  NoCard,      \* the reader is empty
  NoCaller     \* the writing adapter is free

ASSUME NoCallerAssumption == NoCaller \notin Callers
ASSUME NoCardAssumption == NoCard \notin Iccids

VARIABLES
  cards,      \* ICCID -> what the files of that card hold
  inserted,   \* the ICCID of the card in the reader
  seen,       \* history variable: the cards that were ever in the reader
  adapter,    \* the thread that holds the writing adapter's lock
  request     \* local variables of an endpoint

cardVars == <<cards, inserted, seen>>
systemVars == <<vars, cardVars, adapter, request>>

CardFiles == [imsi : Imsis, info : Infos, keys : KeySets]

Free == [op |-> "free"]
Requests ==
  {Free}
    \cup [op : {"compare"}, id : ProfileIds, iccid : Iccids]
    \cup [op : {"mark"}, id : ProfileIds]
    \cup [op : {"adopt"}, id : ProfileIds, iccid : Iccids,
          files : CardFiles, field : {"imsi", "info"}]
    \cup [op : {"add"}, record : Record]
    \cup [op : {"summary"}, id : ProfileIds, base : Revisions,
          changed : SUBSET Fields]
    \cup [op : {"queued", "writing", "commit"}, id : ProfileIds,
          base : Revisions, record : Record,
          todo : SUBSET Fields]

SystemTypeOK ==
  /\ TypeOK
  /\ cards \in [Iccids -> CardFiles]
  /\ inserted \in Iccids \cup {NoCard}
  /\ seen \subseteq Iccids
  /\ adapter \in Callers \cup {NoCaller}
  /\ request \in [Callers -> Requests]

-----------------------------------------------------------------------------
(* Helpers                                                                 *)

(* A thread serves one request at a time.                                  *)
Available(c) == request[c] = Free /\ call[c] = Idle

Goto(c, local) == request' = [request EXCEPT ![c] = local]

(* Mutant: the card in the reader is not looked at.                        *)
AnyCardIn(iccid) == inserted # NoCard

(* The ICCID read from the card is the expected one.                       *)
CardIn(iccid) == inserted = iccid

(* Mutant: every write request has an adapter of its own.                  *)
AdapterAlwaysFree == TRUE

(* One lock for all card writes                                            *)
AdapterFree == adapter = NoCaller

(* Mutant: a subprocess without a time limit returns only with the card.   *)
CanGiveUp(c) == inserted = request[c].record.iccid

(* subprocess.run ends the bridge after its timeout at the latest, and the *)
(* card may fail at any time.                                              *)
BridgeCanEnd(c) == TRUE

(* Mutant: the ICCID is written, too.                                      *)
WithIccid(changed) == changed \cup {"iccid"}

(* Mutant: only the first of the changed files is written.                 *)
OneField(changed) == {CHOOSE f \in changed : TRUE}

(* The files the bridge has to write and to verify                         *)
FieldsToWrite(changed) == changed

-----------------------------------------------------------------------------
SystemInit ==
  /\ Init
  /\ cards \in [Iccids -> CardFiles]
  /\ inserted = NoCard
  /\ seen = {}
  /\ adapter = NoCaller
  /\ request = [c \in Callers |-> Free]

(* People put cards into the reader and take them out.                     *)
InsertCard(iccid) ==
  /\ inserted = NoCard
  /\ inserted' = iccid
  /\ seen' = seen \cup {iccid}
  /\ UNCHANGED <<vars, cards, adapter, request>>

RemoveCard ==
  /\ inserted # NoCard
  /\ inserted' = NoCard
  /\ UNCHANGED <<vars, cards, seen, adapter, request>>

(* The process stops and starts again; its threads and its bridges go.     *)
SystemRestart ==
  /\ Restart
  /\ adapter' = NoCaller
  /\ request' = [c \in Callers |-> Free]
  /\ UNCHANGED cardVars

(* Requests that reach the vault only                                      *)
VaultRequest(c) ==
  /\ request[c] = Free
  /\ \/ /\ Available(c)
        /\ \/ \E n \in 1..MaxImport :
                \E rows \in [1..n -> Record] : ImportCsv(rows)
           \/ \E record \in Record : AddProfile(record, FALSE)
           \/ \E id \in ProfileIds : DiscardChange(id)
           \/ \E id \in ProfileIds, status \in Statuses :
                SetInventory(id, status)
           \/ SuciKeyCall
     \/ TwoSectionCall(c)
  /\ UNCHANGED <<cardVars, adapter, request>>

-----------------------------------------------------------------------------
(* Comparison of a stored profile, or of its draft, with the card          *)

ReadProfile(c, id) ==
  /\ Available(c)
  /\ \/ /\ id \in DOMAIN profiles
        /\ Goto(c, [op |-> "compare", id |-> id, iccid |-> profiles[id].record.iccid])
     \/ /\ id \in DOMAIN drafts
        /\ Goto(c, [op |-> "compare", id |-> id, iccid |-> drafts[id].record.iccid])
  /\ UNCHANGED <<vars, cardVars, adapter>>

CompareCard(c) ==
  /\ request[c].op = "compare"
  /\ CardIn(request[c].iccid)
  /\ Goto(c, [op |-> "mark", id |-> request[c].id])
  /\ UNCHANGED <<vars, cardVars, adapter>>

MarkVerified(c) ==
  /\ request[c].op = "mark"
  /\ MarkCardVerified(request[c].id)
  /\ Goto(c, Free)
  /\ UNCHANGED <<cardVars, adapter>>

-----------------------------------------------------------------------------
(* Adoption of card values, and entry of a profile checked with its card   *)

ReadCardToAdopt(c, id, field) ==
  /\ Available(c)
  /\ inserted # NoCard
  /\ Goto(c, [op |-> "adopt", id |-> id, iccid |-> inserted,
              files |-> cards[inserted], field |-> field])
  /\ UNCHANGED <<vars, cardVars, adapter>>

AdoptImsi(c) ==
  /\ request[c].op = "adopt"
  /\ request[c].field = "imsi"
  /\ LET r == request[c] IN AdoptCardImsi(r.id, r.iccid, r.files.imsi)
  /\ Goto(c, Free)
  /\ UNCHANGED <<cardVars, adapter>>

AdoptInfo(c) ==
  /\ request[c].op = "adopt"
  /\ request[c].field = "info"
  /\ LET r == request[c] IN AdoptReadableFields(r.id, r.iccid, r.files.info)
  /\ Goto(c, Free)
  /\ UNCHANGED <<cardVars, adapter>>

CheckNewCard(c, record) ==
  /\ Available(c)
  /\ CardIn(record.iccid)
  /\ cards[record.iccid].imsi = record.imsi
  /\ Goto(c, [op |-> "add", record |-> record])
  /\ UNCHANGED <<vars, cardVars, adapter>>

AddChecked(c) ==
  /\ request[c].op = "add"
  /\ AddProfile(request[c].record, TRUE)
  /\ Goto(c, Free)
  /\ UNCHANGED <<cardVars, adapter>>

-----------------------------------------------------------------------------
(* ProfileWriteService.execute                                             *)

ReadSummary(c, id) ==
  /\ Available(c)
  /\ id \in DOMAIN drafts
  /\ Goto(c, [op |-> "summary", id |-> id, base |-> drafts[id].base,
              changed |-> drafts[id].changed])
  /\ UNCHANGED <<vars, cardVars, adapter>>

ReadDraft(c) ==
  /\ request[c].op = "summary"
  /\ LET r == request[c]
     IN  /\ r.id \in DOMAIN drafts
         /\ Goto(c, [op |-> "queued", id |-> r.id, base |-> r.base,
                     record |-> drafts[r.id].record,
                     todo |-> FieldsToWrite(r.changed)])
  /\ UNCHANGED <<vars, cardVars, adapter>>

(* The bridge starts, finds the right card and may write to it.            *)
StartBridge(c) ==
  /\ request[c].op = "queued"
  /\ AdapterFree
  /\ CardIn(request[c].record.iccid)
  /\ adapter' = c
  /\ Goto(c, [request[c] EXCEPT !.op = "writing"])
  /\ UNCHANGED <<vars, cardVars>>

(* A file is written and read back.                                        *)
WriteField(c, field) ==
  /\ request[c].op = "writing"
  /\ field \in request[c].todo
  /\ CardIn(request[c].record.iccid)
  /\ LET record == request[c].record
     IN  cards' = [cards EXCEPT ![inserted] = [@ EXCEPT ![field] = record[field]]]
  /\ Goto(c, [request[c] EXCEPT !.todo = @ \ {field}])
  /\ UNCHANGED <<vars, inserted, seen, adapter>>

(* Every file was verified; the subprocess ends and the lock is free.      *)
BridgeAnswers(c) ==
  /\ request[c].op = "writing"
  /\ request[c].todo = {}
  /\ adapter' = NoCaller
  /\ Goto(c, [request[c] EXCEPT !.op = "commit"])
  /\ UNCHANGED <<vars, cardVars>>

(* The bridge reports an error or is killed at its timeout: SIMWriteError. *)
(* What is written stays on the card, and the draft in the vault.          *)
BridgeFails(c) ==
  /\ request[c].op = "writing"
  /\ BridgeCanEnd(c)
  /\ adapter' = NoCaller
  /\ Goto(c, Free)
  /\ UNCHANGED <<vars, cardVars>>

Commit(c) ==
  /\ request[c].op = "commit"
  /\ CommitChange(request[c].id, request[c].base)
  /\ Goto(c, Free)
  /\ UNCHANGED <<cardVars, adapter>>

-----------------------------------------------------------------------------
(* Requests that end with an error                                         *)

(* no_card, iccid_mismatch, adm_verification_failed, an unreadable card    *)
CardRefuses(c) ==
  \/ request[c].op = "compare"
  \/ request[c].op = "queued" /\ AdapterFree

(* What the vault expects of a request; the last line of a condition is    *)
(* the bound on ids or revisions.  An adoption of what the profile has     *)
(* already is refused or, when the forms differ, goes through.             *)
CanAdd(r) ==
  /\ \A i \in DOMAIN profiles : profiles[i].record.iccid # r.record.iccid
  /\ MaxProfileId \notin DOMAIN profiles

CanAdopt(r) ==
  /\ r.id \in DOMAIN profiles \ DOMAIN drafts
  /\ profiles[r.id].record.iccid = r.iccid
  /\ profiles[r.id].record[r.field] # r.files[r.field]
  /\ profiles[r.id].revision < MaxRevision

CanCommit(r) ==
  /\ r.id \in DOMAIN profiles \cap DOMAIN drafts
  /\ drafts[r.id].base = r.base
  /\ profiles[r.id].revision = r.base
  /\ profiles[r.id].revision < MaxRevision

VaultRefuses(c) ==
  \/ request[c].op = "mark" /\ request[c].id \notin DOMAIN profiles
  \/ request[c].op = "summary" /\ request[c].id \notin DOMAIN drafts
  \/ request[c].op = "add" /\ ~CanAdd(request[c])
  \/ request[c].op = "adopt" /\ ~CanAdopt(request[c])
  \/ request[c].op = "commit" /\ ~CanCommit(request[c])

Refused(c) ==
  /\ CardRefuses(c) \/ VaultRefuses(c)
  /\ Goto(c, Free)
  /\ UNCHANGED <<vars, cardVars, adapter>>

-----------------------------------------------------------------------------
(* The next step of a request that is under way                            *)
Continue(c) ==
  \/ CompareCard(c)
  \/ MarkVerified(c)
  \/ AdoptImsi(c)
  \/ AdoptInfo(c)
  \/ AddChecked(c)
  \/ ReadDraft(c)
  \/ StartBridge(c)
  \/ \E field \in Fields : WriteField(c, field)
  \/ BridgeAnswers(c)
  \/ BridgeFails(c)
  \/ Commit(c)
  \/ Refused(c)

Arrive(c) ==
  \/ \E id \in ProfileIds :
       \/ ReadProfile(c, id)
       \/ \E field \in {"imsi", "info"} : ReadCardToAdopt(c, id, field)
       \/ ReadSummary(c, id)
  \/ \E record \in Record : CheckNewCard(c, record)

SystemNext ==
  \/ \E iccid \in Iccids : InsertCard(iccid)
  \/ RemoveCard
  \/ SystemRestart
  \/ \E c \in Callers : VaultRequest(c) \/ Arrive(c) \/ Continue(c)

(* A thread that can go on does: the vault's lock is held only for single  *)
(* statements and both adapters limit the time of their subprocess.        *)
Fairness == \A c \in Callers : WF_systemVars(Continue(c))

SystemSpec == SystemInit /\ [][SystemNext]_systemVars /\ Fairness
-----------------------------------------------------------------------------
(* Correctness                                                             *)

(* A version of a profile becomes active only when the card of its ICCID   *)
(* holds its new values: a draft is committed after its complete write, an *)
(* adoption takes what is on the card.                                     *)
NewRevisionIsOnCard ==
  [][\A k \in DOMAIN revisions' \ DOMAIN revisions :
       LET record == revisions'[k].record
       IN  k[2] > 1 => \A f \in revisions'[k].note :
                         cards[record.iccid][f] = record[f]]_systemVars

(* A file of a card changes only to the value that the pending draft of    *)
(* the profile with this ICCID proposes for it.                            *)
WritesComeFromDraft ==
  [][\A iccid \in Iccids : \A f \in Fields :
       cards'[iccid][f] # cards[iccid][f] =>
         \E id \in DOMAIN drafts :
           /\ profiles[id].record.iccid = iccid
           /\ f \in drafts[id].changed
           /\ drafts[id].record[f] = cards'[iccid][f]]_systemVars

(* The profiles, what their drafts are to change, and the cards            *)
Stored ==
  [id \in DOMAIN profiles |->
     [card |-> profiles[id].record.iccid,
      parts |-> [f \in Fields |-> profiles[id].record[f]]]]

Wanted ==
  [id \in DOMAIN drafts |-> [f \in drafts[id].changed |-> drafts[id].record[f]]]

Changes == INSTANCE CardChanges WITH stored <- Stored, wanted <- Wanted, held <- cards

(* Through drafts that fail, are discarded or repeated, through adoptions, *)
(* deletions and restarts, every profile and its card keep the promise of  *)
(* a prepared change: a card gets nothing that no draft names, and a       *)
(* profile nothing that its card does not have.                            *)
ImplementsCardChanges == Changes!Spec

(* A profile is marked verified only if its card was in the reader.        *)
VerifiedWasInReader ==
  \A id \in DOMAIN profiles :
    profiles[id].verified => profiles[id].record.iccid \in seen

(* Two writes never mix on a card.                                         *)
OneWriter ==
  \A c, d \in Callers :
    request[c].op = "writing" /\ request[d].op = "writing" => c = d

(* The writing adapter is never held for good: a card that is pulled out   *)
(* or a draft that is gone does not block later writes.                    *)
AdapterReleased == (adapter # NoCaller) ~> (adapter = NoCaller)

(* Every request is answered.                                              *)
RequestAnswered == \A c \in Callers : (request[c] # Free) ~> (request[c] = Free)
=============================================================================
