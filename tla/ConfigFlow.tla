----------------------------- MODULE ConfigFlow -----------------------------
(***************************************************************************)
(* The set-up flow and the options flow: forms shown one after another,    *)
(* answers collected in a copy of the options, and one entry saved at the  *)
(* end; and the migration of an entry of version 2.                        *)
(*                                                                         *)
(* Kept of the options is what a later step, a later flow or another part  *)
(* reads again: how the heat loss was arrived at, the meter numbers, the   *)
(* Axle settings, the tariffs.  The others are stored as they are entered. *)
(***************************************************************************)
EXTENDS Integers

CONSTANT Codes           \* import tariff codes

VARIABLES entry,         \* the saved options, or NoEntry
          flow           \* the flow that is open

flowVars == <<entry, flow>>

NoCode == "no code"
HeatingTypes == {"none", "interpolation", "electric"}
Methods == {"known", "report", "estimate"}
Options ==
  [version : {2, 3}, heating : HeatingTypes, loss : Methods \cup {"default"},
   report : BOOLEAN, building : BOOLEAN, mpan : BOOLEAN, exportMpan : BOOLEAN,
   axle : {"none", "axel", "given", "default"}, enabled : BOOLEAN,
   tariffs : SUBSET Codes, current : Codes \cup {NoCode}]

Blank == [version |-> 3, heating |-> "interpolation", loss |-> "default",
          report |-> FALSE, building |-> FALSE, mpan |-> FALSE, exportMpan |-> FALSE,
          axle |-> "none", enabled |-> FALSE, tariffs |-> {}, current |-> NoCode]

(***************************************************************************)
(* No options: what hass has before set-up.                                *)
(***************************************************************************)
NoEntry == [Blank EXCEPT !.version = 2]

Steps == {"main", "heating", "interpolation", "electric", "method", "ml", "axle",
          "compare", "pick", "export meter"} \cup Methods

Closed == [step |-> "closed", opts |-> Blank, resolved |-> NoCode, asShown |-> TRUE,
           offered |-> {}, selected |-> {}]

FlowTypeOK ==
  /\ entry \in Options
  /\ flow \in [step : Steps \cup {"closed", "show pick"}, opts : Options,
               resolved : Codes \cup {NoCode}, asShown : BOOLEAN,
               offered : SUBSET Codes, selected : SUBSET Codes]

FlowInit == entry = NoEntry /\ flow = Closed
-----------------------------------------------------------------------------
(***************************************************************************)
(* A flow works on a copy.  There is one entry: the set-up flow aborts     *)
(* when it exists.  An entry of version 2 may have been left by an older   *)
(* integration, with the Axle settings under their old names or without.   *)
(***************************************************************************)
SetupFlowOpens ==
  /\ flow = Closed /\ entry = NoEntry
  /\ flow' = [Closed EXCEPT !.step = "main"]
  /\ UNCHANGED entry

OptionsFlowOpens ==
  /\ flow = Closed /\ entry # NoEntry /\ entry.version = 3
  /\ flow' = [Closed EXCEPT !.step = "main", !.opts = entry]
  /\ UNCHANGED entry

OldEntry ==
  /\ entry = NoEntry /\ flow = Closed
  /\ entry' \in {o \in Options : /\ o.version = 2 /\ o.axle \in {"none", "axel"}
                                 /\ o.loss = "known" /\ o.heating = "electric"
                                 /\ ~o.building /\ ~o.report /\ ~o.enabled
                                 /\ o.tariffs = {} /\ o.current = NoCode}
  /\ UNCHANGED flow

(***************************************************************************)
(* async_migrate_entry renames the Axle options; the first form only       *)
(* raises the version, which leaves the new names unset.                   *)
(***************************************************************************)
MigrateVersionOnly ==
  /\ entry # NoEntry /\ entry.version = 2
  /\ entry' = [entry EXCEPT !.version = 3, !.axle = "none"]
  /\ UNCHANGED flow

Migrate ==
  /\ entry # NoEntry /\ entry.version = 2
  /\ entry' = [entry EXCEPT !.version = 3, !.axle = IF @ = "axel" THEN "given" ELSE @]
  /\ UNCHANGED flow

Abandon ==
  /\ flow # Closed /\ flow' = Closed
  /\ UNCHANGED entry
-----------------------------------------------------------------------------
(***************************************************************************)
(* What the form of a step shows selected or filled in.                    *)
(***************************************************************************)
MethodShown(o) ==
  IF o.building THEN "estimate" ELSE IF o.report THEN "report" ELSE "known"

Shown(step, o) ==
  CASE step = "heating" -> o.heating
    [] step = "method" -> MethodShown(o)
    [] step = "compare" -> IF o.enabled THEN "enable" ELSE "disable"
    [] OTHER -> "as shown"

Answers(step) ==
  CASE step = "heating" -> HeatingTypes
    [] step = "method" -> Methods
    [] step = "compare" -> {"enable", "disable"}
    [] OTHER -> {"as shown", "changed"}

Following(step, answer) ==
  CASE step = "main" -> "heating"
    [] step = "heating" -> IF answer = "none" THEN "ml" ELSE answer
    [] step = "electric" -> "method"
    [] step = "method" -> answer
    [] step \in Methods \cup {"interpolation"} -> "ml"
    [] step = "ml" -> "axle"
    [] step = "axle" -> "compare"

(***************************************************************************)
(* What an answer stores.  The first step of the options flow drops both   *)
(* meter numbers; the heat loss steps leave what the other methods stored; *)
(* showing the Axle form fills in its defaults (in the first form, over    *)
(* what is there).                                                         *)
(***************************************************************************)
MainStored(o) == [o EXCEPT !.mpan = FALSE, !.exportMpan = FALSE]

LossStored(o, step, answer) ==
  CASE step = "known" -> IF answer = "as shown" THEN o ELSE [o EXCEPT !.loss = "known"]
    [] step = "report" -> [o EXCEPT !.loss = "report", !.report = TRUE]
    [] step = "estimate" -> [o EXCEPT !.loss = "estimate", !.building = TRUE]

AxleDefaultsOver(o) == [o EXCEPT !.axle = "default"]

AxleDefaults(o) == IF o.axle = "none" THEN [o EXCEPT !.axle = "default"] ELSE o

Stored(o, step, answer) ==
  CASE step = "main" -> MainStored(o)
    [] step = "heating" -> [o EXCEPT !.heating = answer]
    [] step \in Methods -> LossStored(o, step, answer)
    [] step = "ml" -> IF answer = "as shown" THEN o ELSE [o EXCEPT !.mpan = ~@]
    [] step = "axle" -> IF answer = "as shown" THEN AxleDefaults(o)
                                               ELSE [o EXCEPT !.axle = "given"]
    [] OTHER -> o

Answered(step, answer) ==
  [flow EXCEPT !.opts = Stored(@, step, answer),
               !.asShown = @ /\ answer = Shown(step, flow.opts)]

Submit ==
  /\ flow.step \in Steps \ {"compare", "pick", "export meter"}
  /\ \E answer \in Answers(flow.step) :
       flow' = [Answered(flow.step, answer) EXCEPT !.step = Following(flow.step, answer)]
  /\ UNCHANGED entry

(***************************************************************************)
(* A report whose temperatures leave no difference is asked for again.     *)
(***************************************************************************)
ReportRefused ==
  /\ flow.step = "report"
  /\ flow' = [flow EXCEPT !.asShown = FALSE]
  /\ UNCHANGED entry

Save(o) ==
  /\ entry' = AxleDefaults(o)
  /\ flow' = Closed

CompareDisabled ==
  /\ flow.step = "compare"
  /\ Save([flow.opts EXCEPT !.enabled = FALSE, !.tariffs = {}, !.current = NoCode])

CompareEnabled ==
  /\ flow.step = "compare"
  /\ flow' = [Answered("compare", "enable") EXCEPT !.step = "show pick",
                !.opts = [@ EXCEPT !.enabled = TRUE]]
  /\ UNCHANGED entry

(***************************************************************************)
(* Showing the tariffs asks Octopus twice, and either may fail: for the    *)
(* code in force, which a failure leaves as it was, and page by page for   *)
(* the products, which a failure cuts short.  The codes selected when the  *)
(* form is shown are added to those offered.  An account without an import *)
(* agreement has no code.                                                  *)
(***************************************************************************)
PickShown ==
  /\ flow.step = "show pick"
  /\ \E code \in Codes \cup {NoCode}, listed \in SUBSET Codes, keeps \in BOOLEAN :
       LET now == IF code = NoCode THEN {} ELSE {code}
           default == IF flow.opts.tariffs # {} THEN flow.opts.tariffs ELSE now
       IN flow' = [flow EXCEPT !.step = "pick", !.selected = default,
                     !.offered = listed \cup default,
                     !.resolved = IF code = NoCode /\ keeps THEN @ ELSE code]
  /\ UNCHANGED entry

NothingPicked ==
  /\ flow.step = "pick"
  /\ flow' = [flow EXCEPT !.step = "show pick", !.asShown = @ /\ flow.selected = {}]
  /\ UNCHANGED entry

(***************************************************************************)
(* _tariff_codes_to_stored_json.  The first form takes an empty selection. *)
(***************************************************************************)
PickStored(selected) ==
  flow' = [flow EXCEPT !.step = "export meter", !.asShown = @ /\ selected = flow.selected,
             !.opts = [@ EXCEPT !.tariffs = selected,
               !.current = IF flow.resolved \in selected THEN flow.resolved ELSE NoCode]]

PickedAny ==
  /\ flow.step = "pick"
  /\ \E selected \in SUBSET flow.offered : PickStored(selected)
  /\ UNCHANGED entry

Picked ==
  /\ flow.step = "pick"
  /\ \E selected \in (SUBSET flow.offered) \ {{}} : PickStored(selected)
  /\ UNCHANGED entry

ExportMeter ==
  /\ flow.step = "export meter"
  /\ \E given \in BOOLEAN : Save([flow.opts EXCEPT !.exportMpan = given])

FlowNext ==
  \/ SetupFlowOpens \/ OptionsFlowOpens \/ OldEntry \/ Migrate \/ Abandon
  \/ Submit \/ ReportRefused \/ CompareDisabled \/ CompareEnabled
  \/ PickShown \/ NothingPicked \/ Picked \/ ExportMeter

FlowSpec == FlowInit /\ [][FlowNext]_flowVars
-----------------------------------------------------------------------------
(***************************************************************************)
(* Whatever is picked, refused, shown again, abandoned or reopened: a      *)
(* saved entry compares tariffs exactly when the comparison is enabled,    *)
(* and the tariff marked as the account's own is one of them.              *)
(***************************************************************************)
ComparedIffEnabled ==
  entry.version = 3 =>
    /\ entry.enabled <=> entry.tariffs # {}
    /\ entry.current \in entry.tariffs \cup {NoCode}

(***************************************************************************)
(* Axle settings the user entered, under the old names or the new ones,    *)
(* are never replaced by the defaults, in a migration or in any flow.      *)
(***************************************************************************)
AxleEntered(o) == o.axle \in {"axel", "given"}

AxleKept == [][AxleEntered(entry) => AxleEntered(entry')]_flowVars

(***************************************************************************)
(* Walking through the options flow and submitting every form as it is     *)
(* shown keeps the heating, the Axle settings and the tariffs; it changes  *)
(* the heat loss only when the method offered (by what is stored, not by   *)
(* what was used last) is not the one the heat loss came from.  The meter  *)
(* numbers are not kept.                                                   *)
(***************************************************************************)
LastAsShown ==
  \/ flow.step = "compare" /\ ~flow.opts.enabled
  \/ flow.step = "export meter" /\ entry'.exportMpan = flow.opts.exportMpan

AsShownKeeps ==
  [][entry # NoEntry /\ flow.asShown /\ LastAsShown /\ flow' = Closed =>
       /\ entry'.heating = entry.heating
       /\ entry'.tariffs = entry.tariffs
       /\ entry'.axle = entry.axle \/ entry.axle = "none"
       /\ entry'.loss # entry.loss =>
            entry.heating = "electric" /\ MethodShown(entry) \notin {"known", entry.loss}]_flowVars
=============================================================================
