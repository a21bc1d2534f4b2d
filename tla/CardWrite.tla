------------------------------ MODULE CardWrite ------------------------------
(***************************************************************************)
(* One profile, its card and the write bridge, file by file: what          *)
(* adapters/pysim_write_bridge.py does with a draft, in its order, and     *)
(* what the comparison and the adoption of services/provisioning.py and    *)
(* services/profiles.py make of the card afterwards.                       *)
(*                                                                         *)
(* One request at a time: module Provisioning has the overlapping ones.    *)
(* The bridge may end at any of its stages, with an error, by its time     *)
(* limit or because the card is pulled out or the service stops; what it   *)
(* wrote stays on the card.                                                *)
(***************************************************************************)
EXTENDS SuciFiles, Tables

CONSTANTS
  Plain,               \* the fields besides those of 5GS that are in play
  Values,              \* what they may hold
  KeysA, KeysB,        \* home-network keys of scheme A, uncompressed ones of B
  Entered,             \* records as profiles are entered
  Requested,           \* records as drafts ask for them
  Lackable,            \* what a card may lack
  MaxRevision,         \* bound on the revision number
  Unset,               \* no protection scheme: SUCI is not managed
  Blank,               \* contents that cannot be decoded
  NoDraft

AllPlain ==
  {"imsi", "acc", "msisdn", "spn", "ki", "opc", "impi", "ims_domain", "impu", "ist"}

ASSUME CardWriteAssumption ==
  /\ Plain \subseteq AllPlain
  /\ MaxRevision \in Nat \ {0}

VARIABLES
  active,     \* the active record of the profile
  revision,
  draft,      \* [record, changed] or NoDraft
  card,       \* contents of its files
  lacking,    \* files and abilities the card does not have
  bridge      \* the stages that the bridge has still to pass

vars == <<active, revision, draft, card, lacking, bridge>>
vaultVars == <<active, revision, draft>>

Modes == {"me", "usim"}

(* SUCI_Calc_Info lies once below DF.5GS and once below DF.SAIP.           *)
CalcFile == [me |-> "calc_me", usim |-> "calc_usim"]

(* How a record keeps its single SUCI fields: as the strings of a CSV      *)
(* file, as numbers with "" for what is absent, or with None for it, as    *)
(* they are read from a card.                                              *)
Forms == {"text", "form", "card"}
Protections == KeysA \cup KeysB \cup {NullScheme}
NoRouting == <<>>

(* str(...).zfill(4)                                                       *)
Zfill(digits) ==
  [i \in 1..4 |-> IF i > 4 - Len(digits) THEN digits[i - 4 + Len(digits)] ELSE 0]

RoutingValues == {digits \in Seq(0..9) : Len(digits) <= 4}
Configuration == [priority : 0..255, protection : Protections]

Record ==
  [plain : [Plain -> Values], routing : RoutingValues, mode : Modes,
   protection : Protections \cup {Unset}, form : Forms,
   list : Seq(Configuration)]

(* Entries come from a CSV file or one by one, both without mode and list. *)
ASSUME RecordsAssumption ==
  /\ Entered \cup Requested \subseteq Record
  /\ \A r \in Entered : r.mode = "me" /\ r.list = <<>> /\ r.form # "card"
  /\ \A r \in Requested : r.form = "form"

SuciFields == {"suci_calculation_mode", "protection", "suci_configurations"}
Fields == Plain \cup {"routing_indicator"} \cup SuciFields

ASSUME NoDraftAssumption == NoDraft \notin [record : Record, changed : SUBSET Fields]

(* Ki and OPc lie together, once for 3G and once for 2G.                   *)
AuthFields == {"ki", "opc"}
AuthFiles == {"auth3g", "auth2g"}
PlainFiles == (Plain \ AuthFields) \cup AuthFiles
Contents(plain, file) ==
  IF file \in AuthFiles THEN [f \in Plain \cap AuthFields |-> plain[f]]
  ELSE plain[file]

(* The lists that can be written: legal ones, and single fields            *)
Lists ==
  {list \in {r.list : r \in Requested} : list # <<>> /\ LegalList(list)}
    \cup {OnlyEntry(p) : p \in Protections}

CalcFiles == {BuildCalcInfo(list) : list \in Lists} \cup {Blank}

ASSUME BlankAssumption == Blank \notin {BuildCalcInfo(list) : list \in Lists}

(* Mutant: the service table is written before the file it points to.      *)
ServicesFirst ==
  <<"check", "pre_routing", "pre_calc", "pre_ust", "pre_spn",
    "imsi", "acc", "msisdn", "spn", "auth3g", "auth2g",
    "impi", "ims_domain", "impu", "ist", "routing", "ust", "calc", "commit">>

(* Mutant: the service table is read just before it is written.            *)
LatePreflight ==
  <<"check", "pre_routing", "pre_calc", "pre_spn",
    "imsi", "acc", "msisdn", "spn", "auth3g", "auth2g",
    "impi", "ims_domain", "impu", "ist", "routing", "calc", "pre_ust", "ust", "commit">>

(* The order of the bridge, whatever of it a draft involves                *)
Stages ==
  <<"check", "pre_routing", "pre_calc", "pre_ust", "pre_spn",
    "imsi", "acc", "msisdn", "spn", "auth3g", "auth2g",
    "impi", "ims_domain", "impu", "ist", "routing", "calc", "ust", "commit">>

AllStages == {Stages[i] : i \in DOMAIN Stages}
Position == [s \in AllStages |-> CHOOSE i \in DOMAIN Stages : Stages[i] = s]

-----------------------------------------------------------------------------
(* SUCI in the vault                                                       *)

(* A record without a list has the one configuration of its single fields. *)
Configurations(record) ==
  IF record.list # <<>> THEN record.list
  ELSE IF record.protection = Unset THEN <<>>
  ELSE OnlyEntry(record.protection)

(* The record as its readers get it: ProvisioningDraft sets the single     *)
(* fields to the preferred entry of the list.                              *)
Effective(record) ==
  LET list == Configurations(record)
  IN  [record EXCEPT
         !.list = list,
         !.protection = IF list = <<>> THEN Unset ELSE Preferred(list).protection]

Valid(record) ==
  /\ LegalList(record.list)
  /\ record.protection # Unset => record.routing # NoRouting
  /\ record.mode = "usim" /\ record.protection # Unset =>
       /\ Len(record.list) = 1
       /\ record.list[1].priority = 0
       /\ record.protection \in KeysB

(* The fields in which a proposal differs                                  *)
Differing(old, new) ==
  {f \in Plain : old.plain[f] # new.plain[f]}
    \cup {f \in {"routing_indicator"} : old.routing # new.routing}
    \cup {f \in {"suci_calculation_mode"} : old.mode # new.mode}
    \cup {f \in {"protection"} : old.protection # new.protection}
    \cup {f \in {"suci_configurations"} : Configurations(old) # new.list}

(* Strings never equal the numbers that are proposed.                      *)
TextFields(old) ==
  IF old.form # "text" \/ old.protection = Unset THEN {}
  ELSE {"protection"} \cup {f \in {"suci_configurations"} : old.list = <<>>}

(* Mutant: None is not taken for "".                                       *)
WithAbsent(old, new) ==
  Differing(old, new) \cup TextFields(old)
    \cup {f \in {"protection"} : old.form = "card" /\ old.protection = NullScheme}

ChangedFields(old, new) == Differing(old, new) \cup TextFields(old)

-----------------------------------------------------------------------------
(* What the service hands to the bridge                                    *)

Payload == Effective(draft.record)

(* Without a change of mode or list the adapter is called without them;    *)
(* its defaults are "me" and an empty list.                                *)
PassesList ==
  \/ Payload.mode = "usim"
  \/ draft.changed \cap {"suci_calculation_mode", "suci_configurations"} # {}

(* The configurations that the bridge writes                               *)
TargetConfigurations ==
  IF PassesList /\ Payload.mode = "me" /\ Payload.list # <<>>
  THEN Payload.list
  ELSE OnlyEntry(Payload.protection)

TargetFile == Payload.mode

ChangesSuci == draft.changed \cap SuciFields # {}

Involved(stage) ==
  \/ stage \in {"check", "commit"}
  \/ stage \in draft.changed
  \/ stage \in AuthFiles /\ draft.changed \cap AuthFields # {}
  \/ stage = "pre_spn" /\ "spn" \in draft.changed
  \/ stage \in {"pre_routing", "routing"} /\ "routing_indicator" \in draft.changed
  \/ stage \in {"pre_calc", "pre_ust", "calc", "ust"} /\ ChangesSuci

(* Mutant: the 2G file is forgotten.                                       *)
Only3g == {s \in AllStages : Involved(s) /\ s # "auth2g"}

(* The stages that this draft involves                                     *)
Program == {s \in AllStages : Involved(s)}

(* Mutant: the target file is decoded.                                     *)
DecodableTarget ==
  /\ Payload.protection # Unset
  /\ Payload.mode = "usim" => Payload.protection \in KeysB
  /\ CalcFile[Payload.mode] \notin lacking
  /\ card.calc[Payload.mode] # Blank

(* The target can be built, and its file be read without decoding it.      *)
TargetReady ==
  /\ Payload.protection # Unset
  /\ Payload.mode = "usim" => Payload.protection \in KeysB
  /\ CalcFile[Payload.mode] \notin lacking

-----------------------------------------------------------------------------
(* What a comparison reads and reports                                     *)

(* The file that the services select; the one below DF.SAIP may need ADM1, *)
(* which a reader does not have.                                           *)
SuciReadable ==
  LET mode == ActiveMode(card.services)
  IN  /\ lacking \cap {"routing", "ust", "sja5"} = {}
      /\ CalcFile[mode] \notin lacking
      /\ mode = "usim" => "saip_read" \notin lacking
      /\ card.calc[mode] # Blank

CardConfigurations == ReadConfigurations(card.calc[ActiveMode(card.services)])

(* suci_matches                                                            *)
SuciMatches(record) ==
  LET target == Effective(record)
  IN  /\ Zfill(card.routing) = target.routing
      /\ CardConfigurations[1].protection = target.protection
      /\ CardConfigurations = ByPriority(target.list)
      /\ target.protection = NullScheme \/ card.services = ServicesFor(target.mode)

(* The fields that can be adopted; those of IMS are read together.         *)
ImsFields == {"impi", "ims_domain", "impu", "ist"}
Adoptable == (Plain \cap ({"acc", "msisdn", "spn"} \cup ImsFields)) \cup {"suci"}

Readable(field) ==
  IF field = "suci" THEN SuciReadable
  ELSE IF field \in ImsFields THEN lacking \cap (ImsFields \cup {"sja5"}) = {}
  ELSE field \notin lacking

(* Those of the selected fields whose stored values differ from the card's *)
Differences(record, selected) ==
  {f \in selected \cap Plain : record.plain[f] # card.plain[f]}
    \cup {f \in selected \cap {"suci"} :
            \/ record.routing # Zfill(card.routing)
            \/ record.protection # CardConfigurations[1].protection
            \/ record.form = "text"
            \/ record.form = "form" /\ record.protection = NullScheme}

(* The selected fields as on the card; mode and list of SUCI are kept.     *)
WithCardValues(record, selected, form) ==
  LET plain == [f \in Plain |-> IF f \in selected THEN card.plain[f] ELSE record.plain[f]]
  IN  IF "suci" \in selected
      THEN [record EXCEPT !.plain = plain, !.routing = Zfill(card.routing),
                          !.protection = CardConfigurations[1].protection, !.form = form]
      ELSE [record EXCEPT !.plain = plain]

(* Mutant: what is absent on the card is stored as "".                     *)
AdoptedAsEntered(record, selected) == WithCardValues(record, selected, "form")

Adopted(record, selected) == WithCardValues(record, selected, "card")

-----------------------------------------------------------------------------
(* The profile was entered for this card, whose SUCI files are as its      *)
(* manufacturer left them.                                                 *)
Init ==
  /\ active \in Entered
  /\ lacking \in {{}} \cup {{x} : x \in Lackable}     \* bound: one defect
  /\ \E calc \in {Blank, BuildCalcInfo(OnlyEntry(NullScheme))}, s124 \in BOOLEAN :
       /\ s124 => "services" \notin lacking
       /\ card = [plain |-> [f \in PlainFiles |-> Contents(active.plain, f)],
                  routing |-> Zfill(active.routing), calc |-> [m \in Modes |-> calc],
                  services |-> [s124 |-> s124, s125 |-> FALSE]]
  /\ revision = 1
  /\ draft = NoDraft
  /\ bridge = {}

(* prepare_change; a list takes precedence over the single fields.         *)
Prepare(request) ==
  LET proposed == Effective(request)
  IN  /\ bridge = {}
      /\ revision < MaxRevision                        \* bound
      /\ Valid(proposed)
      /\ ChangedFields(active, proposed) # {}
      /\ draft' = [record |-> proposed, changed |-> ChangedFields(active, proposed)]
      /\ UNCHANGED <<active, revision, card, lacking, bridge>>

(* Mutant: a draft is discarded while it is written.                       *)
DiscardAtAnyTime ==
  /\ draft # NoDraft
  /\ draft' = NoDraft
  /\ UNCHANGED <<active, revision, card, lacking, bridge>>

Discard ==
  /\ bridge = {}
  /\ draft # NoDraft
  /\ draft' = NoDraft
  /\ UNCHANGED <<active, revision, card, lacking, bridge>>

(* adopt_readable_card_fields, after a fresh reading of the card; without  *)
(* a difference it is refused.                                             *)
AdoptReadableFields(selected) ==
  /\ bridge = {}
  /\ draft = NoDraft
  /\ revision < MaxRevision                            \* bound
  /\ \A f \in selected : Readable(f)
  /\ Differences(active, selected) # {}
  /\ active' = Adopted(active, selected)
  /\ revision' = revision + 1
  /\ UNCHANGED <<draft, card, lacking, bridge>>

-----------------------------------------------------------------------------
(* The stages of the bridge                                                *)

StartWrite ==
  /\ bridge = {}
  /\ draft # NoDraft
  /\ bridge' = Program
  /\ UNCHANGED <<vaultVars, card, lacking>>

(* The next stage is the first one of those that are left.                 *)
At(stage) ==
  /\ stage \in bridge
  /\ \A other \in bridge : Position[stage] <= Position[other]

(* What a stage needs of the draft and of this card.  All but the oldest   *)
(* fields are for SJA5 cards, an absent routing indicator cannot be        *)
(* encoded, and a service table may be too short for services 124 and 125. *)
Feasible(stage) ==
  /\ stage = "check" /\ draft.changed \ {"imsi", "acc", "msisdn", "spn"} # {} =>
       "sja5" \notin lacking
  /\ stage = "pre_routing" => "routing" \notin lacking
  /\ stage = "pre_calc" => TargetReady
  /\ stage = "pre_ust" => "ust" \notin lacking
  /\ stage = "pre_spn" => "spn" \notin lacking
  /\ stage \in PlainFiles => stage \notin lacking
  /\ stage = "ist" => "ist_size" \notin lacking
  /\ stage = "routing" => Payload.routing # NoRouting
  /\ stage = "ust" => "services" \notin lacking

Pass(stage) ==
  /\ At(stage)
  /\ Feasible(stage)
  /\ bridge' = bridge \ {stage}

(* ICCID, ADM1 and the ATR                                                 *)
Check ==
  /\ Pass("check")
  /\ UNCHANGED <<vaultVars, card, lacking>>

Preflight ==
  /\ \E stage \in {"pre_routing", "pre_calc", "pre_ust", "pre_spn"} : Pass(stage)
  /\ UNCHANGED <<vaultVars, card, lacking>>

WritePlain(file) ==
  /\ Pass(file)
  /\ card' = [card EXCEPT !.plain[file] = Contents(Payload.plain, file)]
  /\ UNCHANGED <<vaultVars, lacking>>

WriteRouting ==
  /\ Pass("routing")
  /\ card' = [card EXCEPT !.routing = Payload.routing]
  /\ UNCHANGED <<vaultVars, lacking>>

WriteCalcInfo ==
  /\ Pass("calc")
  /\ card' = [card EXCEPT !.calc[TargetFile] = BuildCalcInfo(TargetConfigurations)]
  /\ UNCHANGED <<vaultVars, lacking>>

WriteServices ==
  /\ Pass("ust")
  /\ card' = [card EXCEPT !.services = ServicesFor(Payload.mode)]
  /\ UNCHANGED <<vaultVars, lacking>>

(* All fields were verified: commit_change.                                *)
Commit ==
  /\ Pass("commit")
  /\ active' = draft.record
  /\ revision' = revision + 1
  /\ draft' = NoDraft
  /\ UNCHANGED <<card, lacking>>

BridgeStep ==
  \/ Check \/ Preflight
  \/ \E file \in PlainFiles : WritePlain(file)
  \/ WriteRouting \/ WriteCalcInfo \/ WriteServices
  \/ Commit

(* The bridge ends at some stage.  SUCI_Calc_Info can be longer than one   *)
(* command to the card may be, so it can be cut off in the middle.         *)
BridgeFails ==
  /\ bridge # {}
  /\ bridge' = {}
  /\ \/ card' = card
     \/ At("calc") /\ card' = [card EXCEPT !.calc[TargetFile] = Blank]
  /\ UNCHANGED <<vaultVars, lacking>>

Next ==
  \/ \E request \in Requested : Prepare(request)
  \/ Discard
  \/ \E selected \in SUBSET Adoptable : AdoptReadableFields(selected)
  \/ StartWrite
  \/ BridgeStep
  \/ BridgeFails

Spec == Init /\ [][Next]_vars
-----------------------------------------------------------------------------
(* Correctness                                                             *)

CardTypeOK ==
  /\ DOMAIN card = {"plain", "routing", "calc", "services"}
  /\ DOMAIN card.plain = PlainFiles
  /\ \A file \in PlainFiles : \E plain \in [Plain -> Values] :
       card.plain[file] = Contents(plain, file)
  /\ card.routing \in RoutingValues
  /\ card.calc \in [Modes -> CalcFiles]
  /\ card.services \in [s124 : BOOLEAN, s125 : BOOLEAN]

(* Types; a bridge at work has a draft and a rest of its program to do.    *)
CardWriteTypeOK ==
  /\ active \in Record
  /\ revision \in 1..MaxRevision
  /\ draft = NoDraft \/ draft \in [record : Record, changed : SUBSET Fields]
  /\ CardTypeOK
  /\ lacking \subseteq Lackable
  /\ bridge # {} =>
       /\ draft # NoDraft
       /\ \E n \in 1..Len(Stages) : bridge = {s \in Program : Position[s] >= n}

Committed == At("commit") /\ revision' = revision + 1

(* A version that becomes active after a write is on the card in all its   *)
(* changed parts, both copies of the authentication keys included.         *)
CommittedIsOnCard ==
  [][Committed =>
       /\ \A file \in PlainFiles :
            Involved(file) => card.plain[file] = Contents(active'.plain, file)
       /\ "routing_indicator" \in draft.changed => card.routing = active'.routing]_vars

(* The comparison that follows a write of SUCI values reports a match,     *)
(* provided that the card lets them be read, a file for the routing        *)
(* indicator included that the write itself may not need, that the routing *)
(* indicator has four digits and agrees, and that the list went to the     *)
(* card with the rest.                                                     *)
ComparisonConfirmsWrite ==
  [][Committed /\ ChangesSuci /\ PassesList /\ Payload.protection # Unset
       /\ {"saip_read", "routing"} \cap lacking = {}
       /\ Payload.routing = card.routing /\ Len(card.routing) = 4 =>
       SuciReadable /\ SuciMatches(active')]_vars

(* A missing or inaccessible file of 5GS, or of the name of the provider,  *)
(* stops the bridge before its first change of the card.                   *)
NoPartialWriteWithoutFile ==
  [][card' # card =>
       /\ Involved("pre_routing") => "routing" \notin lacking
       /\ Involved("pre_calc") => {CalcFile[TargetFile], "ust"} \cap lacking = {}
       /\ Involved("pre_spn") => "spn" \notin lacking]_vars

(* Calculation moves between ME and USIM only to a file that is complete,  *)
(* at whatever point a write is cut off.                                   *)
SwitchesToCompleteFile ==
  [][ActiveMode(card'.services) # ActiveMode(card.services) =>
       card'.calc[ActiveMode(card'.services)] = BuildCalcInfo(TargetConfigurations)]_vars

(* What a draft asks for and this card cannot do                           *)
Impossible ==
  \/ lacking \ {"saip_read"} # {}
  \/ ChangesSuci /\ Payload.protection = Unset
  \/ "routing_indicator" \in draft.changed /\ Payload.routing = NoRouting

(* Whatever earlier attempts left on the card, the bridge has a next stage *)
(* and can pass it: a failed write can be repeated.  At and Feasible are   *)
(* the whole guard of every action of the bridge.                          *)
WriteCanBeRepeated ==
  bridge # {} => Impossible \/ \E stage \in AllStages : At(stage) /\ Feasible(stage)

(* An adoption takes over the configurations that the card was read with:  *)
(* those a later write of this version would put on a card.                *)
AdoptionIsComplete ==
  [][\A selected \in SUBSET Adoptable :
       "suci" \in selected /\ AdoptReadableFields(selected) =>
         ByPriority(Effective(active').list) = CardConfigurations]_vars

(* An adoption leaves nothing to be adopted: repeated, it is refused and   *)
(* makes no further revision, in whatever form the record was before.      *)
AdoptionSettles ==
  [][\A selected \in SUBSET Adoptable :
       AdoptReadableFields(selected) => Differences(active', selected) = {}]_vars

(* A draft names, and a write touches, only fields that get another value, *)
(* unless the SUCI fields are still those of a CSV file.                   *)
DraftNamesOnlyChanges ==
  draft # NoDraft /\ active.form # "text" =>
    draft.changed = Differing(active, draft.record)

(* The parts of a profile and of its card, for the promise of a prepared   *)
(* change: the files whose contents the vault keeps, and those of SUCI,    *)
(* which it keeps in another form                                          *)
KnownParts == PlainFiles \cup {"routing"}
SuciParts == {"services", "calc_me", "calc_usim"}

(* Routing indicators are compared with leading zeros.                     *)
OnCard(part) ==
  CASE part \in PlainFiles -> card.plain[part]
    [] part = "routing" -> Zfill(card.routing)
    [] part = "services" -> card.services
    [] part = "calc_me" -> card.calc.me
    [] part = "calc_usim" -> card.calc.usim

InVault(part) ==
  IF part = "routing" THEN Zfill(active.routing) ELSE Contents(active.plain, part)

(* BuildCalcInfo(TargetConfigurations), by a function: TLC evaluates the   *)
(* argument of a function once, that of an operator at every mention.      *)
TargetCalcInfo ==
  LET Built == [list \in {TargetConfigurations} |-> BuildCalcInfo(list)]
  IN  Built[TargetConfigurations]

(* What the bridge is to write                                             *)
Target(part) ==
  CASE part \in PlainFiles -> Contents(Payload.plain, part)
    [] part = "routing" -> Zfill(Payload.routing)
    [] part = "services" -> ServicesFor(Payload.mode)
    [] part = CalcFile[TargetFile] -> TargetCalcInfo

DraftParts ==
  {part \in KnownParts : Involved(part)}
    \cup {part \in {"services", CalcFile[TargetFile]} : ChangesSuci}

Stored ==
  [p \in {"profile"} |->
     [card |-> "card", parts |-> [part \in KnownParts |-> InVault(part)]]]

Held == [c \in {"card"} |-> [part \in KnownParts \cup SuciParts |-> OnCard(part)]]

Wanted ==
  IF draft = NoDraft THEN EmptyTable
  ELSE [p \in {"profile"} |-> [part \in DraftParts |-> Target(part)]]

Change == INSTANCE CardChanges WITH
  stored <- Stored, wanted <- Wanted, held <- Held

(* Whatever the bridge passes and wherever it ends, profile and card keep  *)
(* the promise of a prepared change: only the parts it names are touched,  *)
(* and the version that becomes active differs from the one before in      *)
(* nothing that is not on the card.                                        *)
ImplementsCardChanges == Change!Spec
=============================================================================
