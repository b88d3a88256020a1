----------------------------- MODULE FormPages -----------------------------
(***************************************************************************)
(* The forms of the three frontends, as DraftForm sees them.  Of each: how *)
(* its inputs are seeded and what follows a save (its logic), and what its *)
(* inputs and buttons allow while a save is in flight.                     *)
(***************************************************************************)

\* seed: "each" answer, while "clean", "once", when "chosen" by a click, a
\* "blank" form, or a "switch" without inputs; wakes: the effect depends on
\* the response ("fetch") or on the data in it ("change"); after: what
\* onSuccess does.
Logic(seed, wakes, after) ==
  [seed |-> seed, wakes |-> wakes, after |-> after, drops |-> "none", poll |-> FALSE]
Dropping(l, how) == [l EXCEPT !.drops = how]
Polled(l) == [l EXCEPT !.poll = TRUE]

\* locked: the inputs are disabled while the form saves; gated: the save
\* button is disabled while the form is not dirty; early: the inputs can be
\* typed into before the first answer; exclusive: saving and removing disable
\* each other's button.
Inputs(locked, gated) ==
  [locked |-> locked, gated |-> gated, early |-> FALSE, exclusive |-> FALSE]
OpenInputs == Inputs(FALSE, FALSE)
Early(i) == [i EXCEPT !.early = TRUE]
Exclusive(i) == [i EXCEPT !.exclusive = TRUE]

Form(l, i) ==
  [seed |-> l.seed, wakes |-> l.wakes, after |-> l.after, drops |-> l.drops,
   poll |-> l.poll, locked |-> i.locked, gated |-> i.gated,
   early |-> i.early, exclusive |-> i.exclusive]

(* company-dashboard settings/page.tsx *)
NotificationsLogic == Logic("each", "fetch", "refetch")
NotificationsInputs == Inputs(FALSE, TRUE)
WorkingHoursLogic == Dropping(Logic("once", "change", "refetch"), "reseed")
WorkingHoursInputs == OpenInputs
MonitoringLogic == Logic("once", "change", "refetch")
MonitoringInputs == OpenInputs
BlockPageLogic == Logic("once", "fetch", "refetch")
BlockPageInputs == Early(OpenInputs)
PasswordLogic == Logic("blank", "change", "clear")
PasswordInputs == OpenInputs

(* company-dashboard profile/page.tsx *)
ProfileLogic == Logic("clean", "fetch", "refetch")
ProfileInputs == Inputs(FALSE, TRUE)

(* company-dashboard enforcement/DeviceScheduleModal.tsx, ScheduleEditor.tsx; *)
(* the working hours use the same editor                                   *)
DeviceScheduleLogic == Dropping(Logic("once", "change", "close"), "close")
DeviceScheduleInputs == OpenInputs
ScheduleInputs == OpenInputs
HolidayInputs == OpenInputs

(* company-dashboard data-residency/DataResidencyPanel.tsx *)
ConnectorLogic == Polled(Dropping(Logic("chosen", "change", "write and close"), "write"))
ConnectorInputs == Inputs(TRUE, FALSE)
HistoryLogic == Polled(Logic("switch", "change", "write"))
ResidencyLogic == Polled(Logic("switch", "change", "write"))
ResidencySwitch == OpenInputs

(* company-dashboard support/Composer.tsx, support/new/page.tsx *)
ComposerLogic == Logic("blank", "change", "clear")
ComposerInputs == OpenInputs
NewTicketLogic == Logic("blank", "change", "close")
NewTicketInputs == OpenInputs

(* company-dashboard and employee-portal reset-password/page.tsx           *)
ResetLogic == Logic("blank", "change", "close")
ResetInputs == OpenInputs
MyResetLogic == Logic("blank", "change", "close")
MyResetInputs == OpenInputs

(* superadmin settings/page.tsx, content/[kind]/[id]/page.tsx,             *)
(* support/Composer.tsx, profile/page.tsx                                  *)
PlatformLogic == Logic("each", "fetch", "refetch")
PlatformInputs == OpenInputs
EditorLogic == Dropping(Logic("each", "change", "write"), "close")
EditorInputs == Exclusive(OpenInputs)
ReplyLogic == Logic("blank", "change", "clear")
ReplyInputs == OpenInputs
AccountLogic == Logic("blank", "change", "clear")
AccountInputs == OpenInputs

(* employee-portal profile/page.tsx *)
MyPasswordLogic == Logic("blank", "change", "clear")
MyPasswordInputs == OpenInputs

FormPages ==
  {Form(NotificationsLogic, NotificationsInputs), Form(WorkingHoursLogic, WorkingHoursInputs),
   Form(WorkingHoursLogic, ScheduleInputs), Form(MonitoringLogic, MonitoringInputs),
   Form(BlockPageLogic, BlockPageInputs), Form(PasswordLogic, PasswordInputs),
   Form(ProfileLogic, ProfileInputs), Form(DeviceScheduleLogic, DeviceScheduleInputs),
   Form(DeviceScheduleLogic, HolidayInputs), Form(ConnectorLogic, ConnectorInputs),
   Form(HistoryLogic, ResidencySwitch), Form(ResidencyLogic, ResidencySwitch),
   Form(ComposerLogic, ComposerInputs), Form(NewTicketLogic, NewTicketInputs),
   Form(ResetLogic, ResetInputs), Form(MyResetLogic, MyResetInputs),
   Form(PlatformLogic, PlatformInputs), Form(EditorLogic, EditorInputs),
   Form(ReplyLogic, ReplyInputs), Form(AccountLogic, AccountInputs), Form(MyPasswordLogic, MyPasswordInputs)}

=============================================================================
