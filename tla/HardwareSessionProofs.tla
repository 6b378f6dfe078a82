------------------------- MODULE HardwareSessionProofs ------------------------
(***************************************************************************)
(* The safety of the bench session, for any boards, runs and requests      *)
(* under the conditions each theorem names.                                *)
(*                                                                         *)
(* A session is a behaviour of the executor, so its runs exclude each      *)
(* other on a board and its steps need their prefix; what is proved here   *)
(* is what the plans' order then does to the cards.                        *)
(***************************************************************************)
EXTENDS HardwareSession, PlanExecutorProofs

\* No step that its run has left goes on working: it ended, or hangs for good.
NoneOutlasts == Outlasting = {}

\* Every request names its endpoint, so that its run holds the device lock.
Locked == \A q \in Requests : q.bdf # NoBdf

\* Every request spells its endpoint as sysfs does.
Spelled == \A q \in Requests : SysfsSpells(q.bdf)

\* A board's runtime-PM patterns match the path to that board alone.
PathsApart == \A b \in Boards : Matches[b] = {b}

\* No other board has a board's PCI id.
IdsApart == \A b \in Boards : Twins[b] = {b}

\* All requests are for one board of the host.
OneBoard == \A p, q \in Requests : p.board = q.board

\* All sram-program requests are for one board of the host.
OneSramBoard ==
    \A p, q \in Requests :
        p.plan = "sram-program" /\ q.plan = "sram-program" => p.board = q.board

\* A recovery holds the path awake, or its bridges do not cut power.
RecoveriesHold ==
    \A q \in Requests : q.plan = "recovery" => q.patterns \/ q.board \notin HotPlug

\* The one plan that programs a board without removing its endpoint first.
NoBareBuild == \A q \in Requests : q.plan # "build-and-program"

------------------------------------------------------------------------------
(* The order of the steps in the plans. *)

\* The path is held before the endpoint is removed.
HoldsFirst(s) ==
    \A i \in 1 .. Len(s) :
        s[i] = "remove-endpoint" => \E j \in 1 .. i - 1 : s[j] \in Holds

\* The board is programmed right behind the removal.
RemovesFirst(s) ==
    \A i \in 1 .. Len(s) :
        s[i] = "program-volatile" => i > 1 /\ s[i - 1] = "remove-endpoint"

\* The board is programmed before the path is released.
ProgramsFirst(s) ==
    \E k \in 1 .. Len(s) :
        /\ s[k] = "program-volatile"
        /\ \A j \in 1 .. Len(s) : s[j] = "thunderbolt-release" => k < j

\* Steps before and between those.
Neutral(s) ==
    \A i \in 1 .. Len(s) :
        s[i] \notin {"remove-endpoint", "program-volatile", "thunderbolt-release"}

Trailing(s) ==
    \A i \in 1 .. Len(s) : s[i] \notin {"remove-endpoint", "program-volatile"}

HasHold(s) == \E i \in 1 .. Len(s) : s[i] \in Holds

LEMMA Joined ==
    ASSUME NEW S, NEW s \in Seq(S), NEW t \in Seq(S)
    PROVE  /\ s \o t \in Seq(S)
           /\ Len(s) \in Nat /\ Len(t) \in Nat /\ Len(s \o t) = Len(s) + Len(t)
           /\ \A i \in 1 .. Len(s) : (s \o t)[i] = s[i]
           /\ \A i \in 1 .. Len(t) : (s \o t)[Len(s) + i] = t[i]
           /\ \A i \in 1 .. Len(s \o t) :
                i \in 1 .. Len(s)
                  \/ (i > Len(s) /\ i - Len(s) \in 1 .. Len(t)
                        /\ (s \o t)[i] = t[i - Len(s)])
  OBVIOUS

LEMMA JoinedAvoids ==
    ASSUME NEW S, NEW s \in Seq(S), NEW t \in Seq(S), NEW X,
           \A i \in 1 .. Len(s) : s[i] \notin X, \A i \in 1 .. Len(t) : t[i] \notin X
    PROVE  \A i \in 1 .. Len(s \o t) : (s \o t)[i] \notin X
  BY Joined

\* Steps in front of a plan's tail keep its order, and a hold among them is
\* before everything in it.
LEMMA InFront ==
    ASSUME NEW S, NEW s \in Seq(S), NEW t \in Seq(S), Neutral(s)
    PROVE  /\ RemovesFirst(t) => RemovesFirst(s \o t)
           /\ ProgramsFirst(t) => ProgramsFirst(s \o t)
           /\ HasHold(s) => HoldsFirst(s \o t)
           /\ Neutral(t) => Neutral(s \o t)
           /\ HasHold(s) \/ HasHold(t) => HasHold(s \o t)
  <1> DEFINE u == s \o t
  <1>1. /\ Len(s) \in Nat /\ Len(t) \in Nat /\ Len(u) = Len(s) + Len(t)
        /\ \A i \in 1 .. Len(s) : u[i] = s[i]
        /\ \A i \in 1 .. Len(t) : u[Len(s) + i] = t[i]
        /\ \A i \in 1 .. Len(u) :
                i \in 1 .. Len(s)
                  \/ (i > Len(s) /\ i - Len(s) \in 1 .. Len(t) /\ u[i] = t[i - Len(s)])
    BY Joined
  <1> HIDE DEF u
  <1>2. ASSUME RemovesFirst(t) PROVE RemovesFirst(u)
    <2> SUFFICES ASSUME NEW i \in 1 .. Len(u), u[i] = "program-volatile"
                 PROVE  i > 1 /\ u[i - 1] = "remove-endpoint"
      BY DEF RemovesFirst
    <2>1. i > Len(s) /\ i - Len(s) \in 1 .. Len(t) /\ t[i - Len(s)] = "program-volatile"
      BY <1>1 DEF Neutral
    <2>2. i - Len(s) > 1 /\ t[(i - Len(s)) - 1] = "remove-endpoint"
      BY <1>2, <2>1 DEF RemovesFirst
    <2>3. (i - Len(s)) - 1 \in 1 .. Len(t) /\ Len(s) + ((i - Len(s)) - 1) = i - 1
      BY <1>1, <2>1, <2>2
    <2>4. u[Len(s) + ((i - Len(s)) - 1)] = t[(i - Len(s)) - 1]
      BY <1>1, <2>3
    <2>5. u[i - 1] = "remove-endpoint"
      BY <2>2, <2>3, <2>4
    <2>6. i > 1
      BY <1>1, <2>1, <2>2
    <2> QED  BY <2>5, <2>6
  <1>3. ASSUME ProgramsFirst(t) PROVE ProgramsFirst(u)
    <2>1. PICK k \in 1 .. Len(t) :
            /\ t[k] = "program-volatile"
            /\ \A j \in 1 .. Len(t) : t[j] = "thunderbolt-release" => k < j
      BY <1>3 DEF ProgramsFirst
    <2>2. Len(s) + k \in 1 .. Len(u) /\ u[Len(s) + k] = "program-volatile"
      BY <1>1, <2>1
    <2>3. ASSUME NEW j \in 1 .. Len(u), u[j] = "thunderbolt-release"
          PROVE  Len(s) + k < j
      <3>1. j > Len(s) /\ j - Len(s) \in 1 .. Len(t) /\ t[j - Len(s)] = "thunderbolt-release"
        BY <1>1, <2>3 DEF Neutral
      <3>2. k < j - Len(s)
        BY <2>1, <3>1
      <3> QED  BY <1>1, <3>2
    <2> QED  BY <2>2, <2>3 DEF ProgramsFirst
  <1>4. ASSUME HasHold(s) PROVE HoldsFirst(u)
    <2>1. PICK j \in 1 .. Len(s) : s[j] \in Holds
      BY <1>4 DEF HasHold
    <2> SUFFICES ASSUME NEW i \in 1 .. Len(u), u[i] = "remove-endpoint"
                 PROVE  j \in 1 .. i - 1 /\ u[j] \in Holds
      BY DEF HoldsFirst
    <2>2. i > Len(s)
      BY <1>1 DEF Neutral
    <2> QED  BY <1>1, <2>1, <2>2
  <1>5. ASSUME Neutral(t) PROVE Neutral(u)
    BY <1>1, <1>5 DEF Neutral
  <1>6. ASSUME HasHold(s) \/ HasHold(t) PROVE HasHold(u)
    <2>1. CASE HasHold(s)
      BY <1>1, <2>1 DEF HasHold
    <2>2. CASE HasHold(t)
      <3>1. PICK i \in 1 .. Len(t) : t[i] \in Holds
        BY <2>2 DEF HasHold
      <3>2. Len(s) + i \in 1 .. Len(u) /\ u[Len(s) + i] \in Holds
        BY <1>1, <3>1
      <3> QED  BY <3>2 DEF HasHold
    <2> QED  BY <1>6, <2>1, <2>2
  <1> QED  BY <1>2, <1>3, <1>4, <1>5, <1>6 DEF u

\* So do steps behind it.
LEMMA Behind ==
    ASSUME NEW S, NEW s \in Seq(S), NEW t \in Seq(S), Trailing(t)
    PROVE  /\ RemovesFirst(s) => RemovesFirst(s \o t)
           /\ ProgramsFirst(s) => ProgramsFirst(s \o t)
           /\ HoldsFirst(s) => HoldsFirst(s \o t)
  <1> DEFINE u == s \o t
  <1>1. /\ Len(s) \in Nat /\ Len(t) \in Nat /\ Len(u) = Len(s) + Len(t)
        /\ \A i \in 1 .. Len(s) : u[i] = s[i]
        /\ \A i \in 1 .. Len(u) :
                i \in 1 .. Len(s)
                  \/ (i > Len(s) /\ i - Len(s) \in 1 .. Len(t) /\ u[i] = t[i - Len(s)])
    BY Joined
  <1> HIDE DEF u
  <1>2. ASSUME RemovesFirst(s) PROVE RemovesFirst(u)
    <2> SUFFICES ASSUME NEW i \in 1 .. Len(u), u[i] = "program-volatile"
                 PROVE  i > 1 /\ u[i - 1] = "remove-endpoint"
      BY DEF RemovesFirst
    <2>1. i \in 1 .. Len(s) /\ s[i] = "program-volatile"
      BY <1>1 DEF Trailing
    <2>2. i > 1 /\ s[i - 1] = "remove-endpoint"
      BY <1>2, <2>1 DEF RemovesFirst
    <2>3. i - 1 \in 1 .. Len(s)
      BY <1>1, <2>1, <2>2
    <2> QED  BY <1>1, <2>2, <2>3
  <1>3. ASSUME ProgramsFirst(s) PROVE ProgramsFirst(u)
    <2>1. PICK k \in 1 .. Len(s) :
            /\ s[k] = "program-volatile"
            /\ \A j \in 1 .. Len(s) : s[j] = "thunderbolt-release" => k < j
      BY <1>3 DEF ProgramsFirst
    <2>2. k \in 1 .. Len(u) /\ u[k] = "program-volatile"
      BY <1>1, <2>1
    <2>3. \A j \in 1 .. Len(u) : u[j] = "thunderbolt-release" => k < j
      BY <1>1, <2>1
    <2> QED  BY <2>2, <2>3 DEF ProgramsFirst
  <1>4. ASSUME HoldsFirst(s) PROVE HoldsFirst(u)
    <2> SUFFICES ASSUME NEW i \in 1 .. Len(u), u[i] = "remove-endpoint"
                 PROVE  \E j \in 1 .. i - 1 : u[j] \in Holds
      BY DEF HoldsFirst
    <2>1. i \in 1 .. Len(s) /\ s[i] = "remove-endpoint"
      BY <1>1 DEF Trailing
    <2>2. PICK j \in 1 .. i - 1 : s[j] \in Holds
      BY <1>4, <2>1 DEF HoldsFirst
    <2>3. j \in 1 .. Len(s)
      BY <1>1, <2>1
    <2> QED  BY <1>1, <2>2, <2>3
  <1> QED  BY <1>2, <1>3, <1>4 DEF u

LEMMA PlanParts ==
    ASSUME NEW q
    PROVE  /\ detect_steps(q) \in Seq(StepNames) /\ Neutral(detect_steps(q))
           /\ \A c \in BOOLEAN :
                /\ When(c, <<"driver-hardware-smoke">>) \in Seq(StepNames)
                /\ Trailing(When(c, <<"driver-hardware-smoke">>))
                /\ When(c, <<"verify-device">>) \in Seq(StepNames)
                /\ Trailing(When(c, <<"verify-device">>))
                /\ When(c, <<"stage-shell">>) \in Seq(StepNames)
                /\ Neutral(When(c, <<"stage-shell">>))
                /\ LET d == <<"write-vivado-driver-script", "write-vivado-driver-script">>
                   IN  When(c, d) \in Seq(StepNames) /\ Neutral(When(c, d))
                /\ When(c, <<"cold-power-cycle-required">>) \in Seq(StepNames)
                /\ Neutral(When(c, <<"cold-power-cycle-required">>))
  <1>1. /\ <<"jtag-detect">> \in Seq(StepNames) /\ <<"driver-hardware-smoke">> \in Seq(StepNames)
        /\ <<"verify-device">> \in Seq(StepNames) /\ <<"stage-shell">> \in Seq(StepNames)
        /\ <<"write-vivado-driver-script", "write-vivado-driver-script">> \in Seq(StepNames)
        /\ <<"cold-power-cycle-required">> \in Seq(StepNames) /\ << >> \in Seq(StepNames)
    BY DEF StepNames
  <1>2. /\ Neutral(<<"jtag-detect">>) /\ Neutral(<<"stage-shell">>) /\ Neutral(<< >>)
        /\ Neutral(<<"write-vivado-driver-script", "write-vivado-driver-script">>)
        /\ Neutral(<<"cold-power-cycle-required">>)
    BY DEF Neutral
  <1>3. /\ Trailing(<<"driver-hardware-smoke">>) /\ Trailing(<<"verify-device">>)
        /\ Trailing(<< >>)
    BY DEF Trailing
  <1> QED  BY <1>1, <1>2, <1>3 DEF When, detect_steps

\* The tail that two of the plans share.
LEMMA TailOrder ==
    ASSUME NEW q \in Request
    PROVE  /\ ProgramAndRelease(q) \in Seq(StepNames)
           /\ RemovesFirst(ProgramAndRelease(q))
           /\ ProgramsFirst(ProgramAndRelease(q))
  <1> DEFINE t == <<"remove-endpoint", "program-volatile", "pci-rescan", "lspci-endpoint">>
             w == When(q.probe, <<"driver-hardware-smoke">>)
             d == detect_steps(q)
             e == <<"thunderbolt-release">>
  <1>1. t \in Seq(StepNames) /\ e \in Seq(StepNames) /\ Trailing(e)
    BY DEF StepNames, Trailing
  <1>2. RemovesFirst(t) /\ ProgramsFirst(t)
    BY DEF RemovesFirst, ProgramsFirst
  <1>3. q.probe \in BOOLEAN
    BY DEF Request
  <1>4. d \in Seq(StepNames) /\ Neutral(d) /\ w \in Seq(StepNames) /\ Trailing(w)
    BY <1>3, PlanParts
  <1>5. ProgramAndRelease(q) = d \o t \o w \o e
    BY DEF ProgramAndRelease
  <1> HIDE DEF t, w, d, e
  <1>6. d \o t \in Seq(StepNames) /\ RemovesFirst(d \o t) /\ ProgramsFirst(d \o t)
    BY <1>1, <1>2, <1>4, InFront, Joined
  <1>7. /\ (d \o t) \o w \in Seq(StepNames) /\ RemovesFirst((d \o t) \o w)
        /\ ProgramsFirst((d \o t) \o w)
    BY <1>4, <1>6, Behind, Joined
  <1>8. /\ ((d \o t) \o w) \o e \in Seq(StepNames) /\ RemovesFirst(((d \o t) \o w) \o e)
        /\ ProgramsFirst(((d \o t) \o w) \o e)
    BY <1>1, <1>7, Behind, Joined
  <1> QED  BY <1>5, <1>8

LEMMA SramOrder ==
    ASSUME NEW q \in Request
    PROVE  LET s == sram_program_plan(q)
           IN  /\ HoldsFirst(s) /\ RemovesFirst(s) /\ ProgramsFirst(s)
               /\ s \in Seq(StepNames) /\ Len(s) \in Nat /\ Len(s) > 7
               /\ s[1] = "pm-hold-path" /\ s[2] = "deadman-arm"
               /\ s[3] = "remove-endpoint" /\ s[4] = "program-volatile"
               /\ s[5] = "secondary-bus-reset" /\ s[6] = "pci-global-rescan-settle"
               /\ s[7] = "lspci-endpoint"
               /\ \A i \in 8 .. Len(s) : s[i] \in {"verify-device", "deadman-disarm"}
  <1> DEFINE t == <<"pm-hold-path", "deadman-arm", "remove-endpoint", "program-volatile",
                    "secondary-bus-reset", "pci-global-rescan-settle", "lspci-endpoint">>
             w == When(q.probe, <<"verify-device">>)
             e == <<"deadman-disarm">>
  <1>1. t \in Seq(StepNames) /\ e \in Seq(StepNames) /\ Trailing(e)
    BY DEF StepNames, Trailing
  <1>2. RemovesFirst(t) /\ ProgramsFirst(t) /\ HoldsFirst(t) /\ Len(t) = 7
    BY DEF RemovesFirst, ProgramsFirst, HoldsFirst, Holds
  <1>3. q.probe \in BOOLEAN
    BY DEF Request
  <1>4. w \in Seq(StepNames) /\ Trailing(w)
    BY <1>3, PlanParts
  <1>5. sram_program_plan(q) = (t \o w) \o e
    BY DEF sram_program_plan
  <1>6. /\ \A i \in 1 .. Len(w) : w[i] = "verify-device"
        /\ Len(e) = 1 /\ e[1] = "deadman-disarm"
    BY <1>3 DEF When
  <1>7. /\ t[1] = "pm-hold-path" /\ t[2] = "deadman-arm"
        /\ t[3] = "remove-endpoint" /\ t[4] = "program-volatile"
        /\ t[5] = "secondary-bus-reset" /\ t[6] = "pci-global-rescan-settle"
        /\ t[7] = "lspci-endpoint"
    OBVIOUS
  <1> HIDE DEF t, w, e
  <1>8. /\ t \o w \in Seq(StepNames) /\ RemovesFirst(t \o w)
        /\ ProgramsFirst(t \o w) /\ HoldsFirst(t \o w)
    BY <1>1, <1>2, <1>4, Behind, Joined
  <1>9. /\ (t \o w) \o e \in Seq(StepNames) /\ RemovesFirst((t \o w) \o e)
        /\ ProgramsFirst((t \o w) \o e) /\ HoldsFirst((t \o w) \o e)
    BY <1>1, <1>8, Behind, Joined
  <1>10. /\ Len(t \o w) = 7 + Len(w) /\ Len(w) \in Nat
         /\ \A i \in 1 .. 7 : (t \o w)[i] = t[i]
         /\ \A i \in 8 .. Len(t \o w) : (t \o w)[i] = "verify-device"
    <2>1. /\ Len(t \o w) = 7 + Len(w) /\ Len(w) \in Nat
          /\ \A i \in 1 .. 7 : (t \o w)[i] = t[i]
          /\ \A i \in 1 .. Len(w) : (t \o w)[7 + i] = w[i]
      <3>1. /\ Len(t \o w) = Len(t) + Len(w) /\ Len(w) \in Nat
            /\ \A i \in 1 .. Len(t) : (t \o w)[i] = t[i]
            /\ \A i \in 1 .. Len(w) : (t \o w)[Len(t) + i] = w[i]
        BY <1>1, <1>4, Joined
      <3>2. Len(t) = 7
        BY <1>2
      <3> QED  BY <3>1, <3>2
    <2>2. ASSUME NEW i \in 8 .. Len(t \o w) PROVE (t \o w)[i] = "verify-device"
      <3>1. i - 7 \in 1 .. Len(w) /\ 7 + (i - 7) = i
        BY <2>1
      <3>2. (t \o w)[7 + (i - 7)] = w[i - 7] /\ w[i - 7] = "verify-device"
        BY <1>6, <2>1, <3>1
      <3> QED  BY <3>1, <3>2
    <2> QED  BY <2>1, <2>2
  <1> DEFINE u == t \o w
  <1>11. /\ Len(u \o e) = 8 + Len(w)
         /\ \A i \in 1 .. 7 : (u \o e)[i] = t[i]
         /\ \A i \in 8 .. Len(u \o e) : (u \o e)[i] \in {"verify-device", "deadman-disarm"}
    <2>1. /\ Len(u \o e) = Len(u) + Len(e)
          /\ \A i \in 1 .. Len(u) : (u \o e)[i] = u[i]
          /\ \A i \in 1 .. Len(e) : (u \o e)[Len(u) + i] = e[i]
      BY <1>1, <1>8, Joined
    <2>2. Len(u) = 7 + Len(w) /\ Len(u \o e) = Len(u) + 1
      BY <1>6, <1>10, <2>1
    <2>3. (u \o e)[Len(u) + 1] = "deadman-disarm"
      BY <1>6, <2>1
    <2> HIDE DEF u
    <2>4. \A i \in 1 .. 7 : (u \o e)[i] = u[i]
      BY <1>10, <2>1, <2>2
    <2>5. \A i \in 8 .. Len(u) : (u \o e)[i] = "verify-device"
      BY <1>10, <2>1, <2>2 DEF u
    <2>6. \A i \in 8 .. Len(u \o e) : i \in 8 .. Len(u) \/ i = Len(u) + 1
      BY <1>10, <2>2
    <2> QED  BY <1>10, <2>2, <2>3, <2>4, <2>5, <2>6 DEF u
  <1>12. Len(u \o e) \in Nat /\ Len(u \o e) > 7
    BY <1>10, <1>11
  <1> DEFINE s == u \o e
  <1>13. /\ s[1] = "pm-hold-path" /\ s[2] = "deadman-arm"
         /\ s[3] = "remove-endpoint" /\ s[4] = "program-volatile"
         /\ s[5] = "secondary-bus-reset" /\ s[6] = "pci-global-rescan-settle"
         /\ s[7] = "lspci-endpoint"
    <2>1. \A i \in 1 .. 7 : s[i] = t[i]
      BY <1>11
    <2> HIDE DEF s
    <2> QED  BY <1>7, <2>1
  <1>14. /\ HoldsFirst(s) /\ RemovesFirst(s) /\ ProgramsFirst(s) /\ s \in Seq(StepNames)
    BY <1>9
  <1>15. sram_program_plan(q) = s
    BY <1>5
  <1>16. \A i \in 8 .. Len(s) : s[i] \in {"verify-device", "deadman-disarm"}
    BY <1>11
  <1>17. Len(s) \in Nat /\ Len(s) > 7
    BY <1>12
  <1> HIDE DEF s
  <1> QED  BY <1>13, <1>14, <1>15, <1>16, <1>17

LEMMA RecoveryOrder ==
    ASSUME NEW q
    PROVE  LET s == recovery_plan(q)
           IN  /\ HoldsFirst(s) /\ RemovesFirst(s) /\ ProgramsFirst(s)
               /\ Len(s) = 5
               /\ s[1] = "thunderbolt-hold" /\ s[2] = "remove-endpoint"
               /\ s[3] = "program-volatile" /\ s[4] = "pci-rescan"
               /\ s[5] = "lspci-endpoint"
  BY DEF recovery_plan, HoldsFirst, RemovesFirst, ProgramsFirst, Holds

\* Every plan keeps the order, but the one that never removes the endpoint.
LEMMA PlanOrder ==
    ASSUME NEW q \in Request
    PROVE  LET s == compose(q)
           IN  /\ s \in Seq(StepNames) /\ Len(s) \in Nat
               /\ HoldsFirst(s)
               /\ q.plan # "build-and-program" => RemovesFirst(s)
               /\ (\E i \in 1 .. Len(s) : s[i] = "remove-endpoint") => ProgramsFirst(s)
  <1>0. compose(q) \in Seq(StepNames) /\ q.plan \in PlanNames
    BY PlanIsSequence DEF Request
  <1>1. Len(compose(q)) \in Nat
    BY <1>0
  <1>2. CASE q.plan = "recovery"
    <2>1. compose(q) = recovery_plan(q)
      BY <1>2 DEF compose
    <2> QED  BY <1>0, <1>1, <2>1, RecoveryOrder
  <1>3. CASE q.plan = "sram-program"
    <2>1. compose(q) = sram_program_plan(q)
      BY <1>3 DEF compose
    <2> QED  BY <1>0, <1>1, <2>1, SramOrder
  <1>4. CASE q.plan = "validate-bitstream"
    <2> DEFINE h == <<"thunderbolt-hold">>
    <2>1. compose(q) = h \o ProgramAndRelease(q)
      BY <1>4 DEF compose, validate_bitstream_plan
    <2>2. h \in Seq(StepNames) /\ Neutral(h) /\ HasHold(h)
      BY DEF StepNames, Neutral, HasHold, Holds
    <2> HIDE DEF h
    <2> QED  BY <1>0, <1>1, <2>1, <2>2, TailOrder, InFront
  <1>5. CASE q.plan = "local-build-and-program"
    <2> DEFINE a == When(q.stage, <<"stage-shell">>)
               h == <<"thunderbolt-hold", "write-dau-overlay", "write-vivado-build-script">>
               d == When(q.drivers, <<"write-vivado-driver-script",
                                      "write-vivado-driver-script">>)
               v == <<"vivado-overlay-build">>
               t == ProgramAndRelease(q)
    <2>1. compose(q) = (((a \o h) \o d) \o v) \o t
      BY <1>5 DEF compose, local_build_and_program_plan
    <2>2. /\ h \in Seq(StepNames) /\ Neutral(h) /\ HasHold(h)
          /\ v \in Seq(StepNames) /\ Neutral(v)
      BY DEF StepNames, Neutral, HasHold, Holds
    <2>3. q.stage \in BOOLEAN /\ q.drivers \in BOOLEAN
      BY DEF Request
    <2>4. /\ a \in Seq(StepNames) /\ Neutral(a) /\ d \in Seq(StepNames) /\ Neutral(d)
      BY <2>3, PlanParts
    <2>5. t \in Seq(StepNames) /\ RemovesFirst(t) /\ ProgramsFirst(t)
      BY TailOrder
    <2> HIDE DEF a, h, d, v, t
    <2>6. a \o h \in Seq(StepNames) /\ Neutral(a \o h) /\ HasHold(a \o h)
      BY <2>2, <2>4, InFront, Joined
    <2>7. /\ (a \o h) \o d \in Seq(StepNames) /\ Neutral((a \o h) \o d)
          /\ HasHold((a \o h) \o d)
      BY <2>4, <2>6, InFront, Joined
    <2>8. /\ ((a \o h) \o d) \o v \in Seq(StepNames) /\ Neutral(((a \o h) \o d) \o v)
          /\ HasHold(((a \o h) \o d) \o v)
      BY <2>2, <2>7, InFront, Joined
    <2> QED  BY <1>0, <1>1, <2>1, <2>5, <2>8, InFront
  <1>6. CASE q.plan = "thunderbolt-hold" \/ q.plan = "thunderbolt-release"
    <2>1. compose(q) = <<"thunderbolt-hold">> \/ compose(q) = <<"thunderbolt-release">>
      BY <1>6 DEF compose
    <2> QED  BY <1>0, <1>1, <2>1 DEF HoldsFirst, RemovesFirst
  <1>7. CASE q.plan = "flash"
    <2> DEFINE a == <<"thunderbolt-hold", flash_step(q), "thunderbolt-release">>
               w == When(q.spi4, <<"cold-power-cycle-required">>)
    <2>1. compose(q) = a \o w
      BY <1>7 DEF compose, flash_plan
    <2>2. flash_step(q) \in {"flash", "program-persistent"}
      BY DEF flash_step
    <2>3. a \in Seq(StepNames) /\ \A i \in 1 .. Len(a) : a[i] \notin {"remove-endpoint", "program-volatile"}
      BY <2>2 DEF StepNames
    <2>4. w \in Seq(StepNames) /\ \A i \in 1 .. Len(w) : w[i] \notin {"remove-endpoint", "program-volatile"}
      <3>1. q.spi4 \in BOOLEAN
        BY DEF Request
      <3> QED  BY <3>1, PlanParts DEF Neutral
    <2> HIDE DEF a, w
    <2>5. \A i \in 1 .. Len(a \o w) : (a \o w)[i] \notin {"remove-endpoint", "program-volatile"}
      BY <2>3, <2>4, JoinedAvoids
    <2> QED  BY <1>0, <1>1, <2>1, <2>5 DEF HoldsFirst, RemovesFirst
  <1>8. CASE q.plan = "build-and-program"
    <2> DEFINE a == <<"thunderbolt-hold", "vivado-build">>
               d == detect_steps(q)
               t == <<"program-volatile", "pci-rescan", "lspci-endpoint">>
    <2>1. compose(q) = (a \o d) \o t
      BY <1>8 DEF compose, build_and_program_plan
    <2>2. a \in Seq(StepNames) /\ \A i \in 1 .. Len(a) : a[i] \notin {"remove-endpoint"}
      BY DEF StepNames
    <2>3. t \in Seq(StepNames) /\ \A i \in 1 .. Len(t) : t[i] \notin {"remove-endpoint"}
      BY DEF StepNames
    <2>4. d \in Seq(StepNames) /\ \A i \in 1 .. Len(d) : d[i] \notin {"remove-endpoint"}
      BY PlanParts DEF Neutral
    <2> HIDE DEF a, d, t
    <2>5. /\ a \o d \in Seq(StepNames)
          /\ \A i \in 1 .. Len(a \o d) : (a \o d)[i] \notin {"remove-endpoint"}
      BY <2>2, <2>4, Joined, JoinedAvoids
    <2>6. \A i \in 1 .. Len((a \o d) \o t) : ((a \o d) \o t)[i] \notin {"remove-endpoint"}
      BY <2>3, <2>5, JoinedAvoids
    <2> QED  BY <1>0, <1>1, <1>8, <2>1, <2>6 DEF HoldsFirst
  <1> QED
    BY <1>0, <1>2, <1>3, <1>4, <1>5, <1>6, <1>7, <1>8 DEF PlanNames

------------------------------------------------------------------------------
(* A session is a behaviour of the executor. *)

LEMMA SessionSteps == [SessionNext]_sessionVars => [Next]_vars
  BY DEF SessionNext, sessionVars, Between, Success, Failure, InterruptedRun,
         OrphanStepEnds, Hang, Suspend, DeadmanFires, HostReboot, Next, Step, vars

\* Whatever the bench does, the runs lock, start, fail and clean up as
\* execute_plan_steps does.
THEOREM SessionIsExecutor == SessionSpec => Spec
  <1>1. SessionInit => Init
    BY DEF SessionInit
  <1> QED  BY <1>1, SessionSteps, PTL DEF SessionSpec, Spec

\* What has succeeded lies behind the run's index.
PassedInv == \A r \in Runs : succeeded[r] \subseteq 1 .. pc[r] - 1

LEMMA PassedStep == TypeOK /\ PassedInv /\ [Next]_vars => PassedInv'
  <1> SUFFICES ASSUME TypeOK, PassedInv, [Next]_vars PROVE PassedInv'
    OBVIOUS
  <1>1. ASSUME UNCHANGED <<succeeded, pc>> PROVE PassedInv'
    BY <1>1 DEF PassedInv
  <1>2. ASSUME NEW r \in Runs, pc' = [pc EXCEPT ![r] = @ + 1],
               \/ succeeded' = succeeded
               \/ succeeded' = [succeeded EXCEPT ![r] = @ \cup {pc[r]}]
        PROVE  PassedInv'
    <2> SUFFICES ASSUME NEW s \in Runs PROVE succeeded'[s] \subseteq 1 .. pc'[s] - 1
      BY DEF PassedInv
    <2>1. pc[s] \in Nat \ {0} /\ succeeded[s] \subseteq 1 .. pc[s] - 1
      BY DEF TypeOK, PassedInv
    <2>2. CASE s # r
      BY <1>2, <2>1, <2>2 DEF TypeOK
    <2>3. CASE s = r
      <3>1. pc'[r] = pc[r] + 1
        BY <1>2 DEF TypeOK
      <3>2. succeeded'[r] \subseteq succeeded[r] \cup {pc[r]}
        BY <1>2 DEF TypeOK
      <3> QED  BY <2>1, <2>3, <3>1, <3>2
    <2> QED  BY <2>2, <2>3
  <1>3. ASSUME NEW r \in Runs, Step(r) PROVE PassedInv'
    <2>1. CASE \/ Refuse(r) \/ Invoke(r) \/ Acquire(r) \/ StartStep(r)
               \/ Return(r) \/ Interrupt(r) \/ OrphanEnds(r)
      BY <1>1, <2>1 DEF Refuse, Invoke, Acquire, StartStep, Return, Interrupt, OrphanEnds
    <2>2. CASE SkipStep(r) \/ StepFails(r) \/ StepSucceeds(r)
      BY <1>2, <2>2 DEF SkipStep, StepFails, StepSucceeds
    <2>3. ASSUME NEW ok \in BOOLEAN, CleanupStepEnds(r, ok) PROVE PassedInv'
      <3>1. \/ succeeded' = succeeded
            \/ succeeded' = [succeeded EXCEPT ![r] = @ \cup {pc[r]}]
        BY <2>3 DEF CleanupStepEnds, TypeOK
      <3> QED  BY <1>2, <2>3, <3>1 DEF CleanupStepEnds
    <2> QED  BY <1>3, <2>1, <2>2, <2>3 DEF Step
  <1> QED  BY <1>1, <1>3 DEF Next, Reboot, vars

\* The step process of a run inside its plan is the started step at its index.
AliveInv ==
    \A r \in Runs :
        child[r] /\ Critical(r) => pc[r] \in attempted[r] /\ pc[r] <= Len(Steps(r))

LEMMA AliveStep == TypeOK /\ StartedInv /\ AliveInv /\ [Next]_vars => AliveInv'
  <1> SUFFICES ASSUME TypeOK, StartedInv, AliveInv, [Next]_vars PROVE AliveInv'
    OBVIOUS
  <1> USE DEF AliveInv, TypeOK, Critical, Steps
  <1>1. CASE Reboot
    BY <1>1 DEF Reboot
  <1>2. ASSUME NEW r \in Runs, Refuse(r) \/ Invoke(r) \/ Acquire(r) PROVE AliveInv'
    <2>1. ~child[r]
      BY <1>2 DEF Refuse, Invoke, Acquire, StartedInv
    <2> QED  BY <1>2, <2>1 DEF Refuse, Invoke, Acquire
  <1>3. ASSUME NEW r \in Runs, StartStep(r) PROVE AliveInv'
    <2>1. pc[r] <= Len(Steps(r)) /\ pc[r] \in attempted'[r]
      BY <1>3 DEF StartStep
    <2>2. \A s \in Runs : s # r => child'[s] = child[s] /\ attempted'[s] = attempted[s]
      BY <1>3 DEF StartStep
    <2> QED  BY <1>3, <2>1, <2>2 DEF StartStep
  <1>4. ASSUME NEW r \in Runs,
               \/ SkipStep(r) \/ StepSucceeds(r) \/ StepFails(r)
               \/ \E ok \in BOOLEAN : CleanupStepEnds(r, ok)
        PROVE  AliveInv'
    <2>1. request' = request /\ attempted' = attempted /\ ~child'[r]
      BY <1>4 DEF SkipStep, StepSucceeds, StepFails, CleanupStepEnds
    <2>2. \A s \in Runs : s # r =>
            status'[s] = status[s] /\ child'[s] = child[s] /\ pc'[s] = pc[s]
      BY <1>4 DEF SkipStep, StepSucceeds, StepFails, CleanupStepEnds
    <2> QED  BY <2>1, <2>2
  <1>5. ASSUME NEW r \in Runs, Return(r) \/ Interrupt(r) \/ OrphanEnds(r) PROVE AliveInv'
    <2>1. /\ request' = request /\ attempted' = attempted /\ pc' = pc /\ ~Critical(r)'
          /\ \A s \in Runs : s # r => status'[s] = status[s] /\ child'[s] = child[s]
      BY <1>5 DEF Return, Interrupt, OrphanEnds
    <2> QED  BY <2>1
  <1>6. CASE UNCHANGED vars
    BY <1>6 DEF vars
  <1> QED  BY <1>1, <1>2, <1>3, <1>4, <1>5, <1>6 DEF Next, Step

\* A step that its run has left hangs in the kernel, or may go on working.
OrphansInv == \A r \in Runs : child[r] => Critical(r) \/ r \in hung \cup Outlasting

LEMMA OrphansStep ==
    TypeOK /\ OrphansInv /\ [SessionNext]_sessionVars => OrphansInv'
  <1> SUFFICES ASSUME TypeOK, OrphansInv, [SessionNext]_sessionVars PROVE OrphansInv'
    OBVIOUS
  <1> USE DEF OrphansInv, TypeOK, Critical, hostVars
  <1>1. ASSUME NEW r \in Runs, Between(r) PROVE OrphansInv'
    <2>1. /\ hung' = hung
          /\ \A s \in Runs : s # r => status'[s] = status[s] /\ child'[s] = child[s]
      BY <1>1 DEF Between, Refuse, Invoke, Acquire, StartStep, SkipStep, Return
    <2>2. child'[r] => Critical(r)' \/ r \in hung \cup Outlasting
      BY <1>1 DEF Between, Refuse, Invoke, Acquire, StartStep, SkipStep, Return
    <2> QED  BY <2>1, <2>2
  <1>2. ASSUME NEW r \in Runs, Success(r) \/ Failure(r) \/ OrphanStepEnds(r)
        PROVE  OrphansInv'
    <2>1. hung' = hung /\ ~child'[r]
      BY <1>2 DEF Success, Failure, OrphanStepEnds, CutShort, StepSucceeds, StepFails,
                  CleanupStepEnds, OrphanEnds
    <2>2. \A s \in Runs : s # r => status'[s] = status[s] /\ child'[s] = child[s]
      BY <1>2 DEF Success, Failure, OrphanStepEnds, StepSucceeds, StepFails,
                  CleanupStepEnds, OrphanEnds
    <2> QED  BY <2>1, <2>2
  <1>3. ASSUME NEW r \in Runs, InterruptedRun(r) PROVE OrphansInv'
    <2>1. /\ hung' = hung
          /\ \A s \in Runs : s # r => status'[s] = status[s] /\ child'[s] = child[s]
      BY <1>3 DEF InterruptedRun, Interrupt, CutShort
    <2>2. child'[r] => r \in hung \cup Outlasting
      BY <1>3 DEF InterruptedRun, Interrupt
    <2> QED  BY <2>1, <2>2
  <1>4. ASSUME NEW r \in Runs, Hang(r) PROVE OrphansInv'
    BY <1>4 DEF Hang, vars
  <1>5. ASSUME NEW b \in Boards, Suspend(b) PROVE OrphansInv'
    BY <1>5 DEF Suspend, vars
  <1>6. CASE DeadmanFires
    BY <1>6 DEF DeadmanFires, HostReboot, Reboot
  <1>7. CASE UNCHANGED sessionVars
    BY <1>7 DEF sessionVars, vars
  <1> QED  BY <1>1, <1>2, <1>3, <1>4, <1>5, <1>6, <1>7 DEF SessionNext

\* What the executor's proofs have shown of a session's runs, and what becomes
\* of their steps.
RunsInv ==
    /\ TypeOK /\ RunExclusion /\ ChildInv /\ HistoryInv /\ PassedInv /\ AliveInv
    /\ OrphansInv

LEMMA RunsInvariant == SessionSpec => []RunsInv
  <1>1. Init => PassedInv /\ AliveInv /\ ChildInv
    BY DEF Init, PassedInv, AliveInv, ChildInv
  <1>2. HistoryInv => StartedInv
    BY DEF HistoryInv
  <1>3. Spec => [](ChildInv /\ PassedInv /\ AliveInv)
    BY <1>1, <1>2, ChildInvStep, PassedStep, AliveStep, HistoryIsInvariant, ExecutorTypes, PTL
       DEF Spec
  <1>4. SessionInit => OrphansInv
    BY DEF SessionInit, Init, OrphansInv
  <1>5. SessionSpec => []OrphansInv
    BY <1>4, OrphansStep, SessionIsExecutor, ExecutorTypes, PTL DEF SessionSpec
  <1> QED
    BY <1>3, <1>5, SessionIsExecutor, ExecutorTypes, RunsAreExclusive, HistoryIsInvariant, PTL
       DEF RunsInv

\* A run in its plan loop has succeeded in exactly the steps behind its index,
\* and has started them and at most the one at its index.
LEMMA RunningRun ==
    ASSUME RunsInv, NEW r \in Runs, status[r] = "running"
    PROVE  /\ request[r] \in Requests /\ request[r] \in Request
           /\ request[r].board \in Boards
           /\ Steps(r) = compose(request[r])
           /\ Len(Steps(r)) \in Nat /\ DOMAIN Steps(r) = 1 .. Len(Steps(r))
           /\ pc[r] \in Nat /\ pc[r] > 0
           /\ \A i \in 1 .. pc[r] - 1 : i \in succeeded[r]
           /\ \A i \in succeeded[r] : i \in 1 .. pc[r] - 1
           /\ \A i \in attempted[r] : i \in Nat /\ i <= pc[r]
  <1>1. request[r] \in Requests /\ request[r] \in Request /\ request[r].board \in Boards
    BY ExecutorAssumption DEF RunsInv, TypeOK, WellFormed, Request
  <1>2. Steps(r) \in Seq(StepNames)
    BY <1>1, PlanIsSequence DEF Steps
  <1>3. Len(Steps(r)) \in Nat /\ DOMAIN Steps(r) = 1 .. Len(Steps(r))
    BY <1>2
  <1>4. Critical(r)
    BY DEF Critical
  <1>5. /\ pc[r] \in Nat /\ pc[r] > 0 /\ attempted[r] \subseteq Nat
        /\ \A i \in attempted[r] : i <= pc[r]
        /\ 1 .. (pc[r] - 1) \subseteq succeeded[r]
        /\ succeeded[r] \subseteq 1 .. pc[r] - 1
    BY <1>4 DEF RunsInv, TypeOK, HistoryInv, StartedInv, PrefixInv, PassedInv
  <1> QED  BY <1>1, <1>3, <1>5 DEF Steps

------------------------------------------------------------------------------
(* What the steps do to the cards. *)

LEMMA WorkedTypes ==
    ASSUME NEW q \in Request, NEW name, NEW core \in BOOLEAN, NEW c \in Card
    PROVE  Worked(name, q, core, c) \in Card
  <1>1. Image(q) \in {"good", "bad"}
    BY DEF Image
  <1>2. PoweredOn(c) \in Card /\ PoweredOn(c).sram # "off"
    BY DEF PoweredOn, Card
  <1>3. Held(c) \in Card
    BY <1>2 DEF Held, Card
  <1>4. Rescanned(c) \in Card
    BY DEF Rescanned, Card
  <1>5. /\ [c EXCEPT !.held = FALSE] \in Card
        /\ [c EXCEPT !.core = c.sram = "good"] \in Card
        /\ [c EXCEPT !.node = IF SysfsSpells(q.bdf) THEN "none" ELSE @] \in Card
    BY DEF Card
  <1>6. [c EXCEPT !.sram = Image(q), !.core = core,
                       !.node = IF @ = "none" THEN @ ELSE "stale"] \in Card
    BY <1>1 DEF Card
  <1>7. [c EXCEPT !.spi = Image(q)] \in Card
    BY <1>1 DEF Card
  <1> QED  BY <1>3, <1>4, <1>5, <1>6, <1>7 DEF Worked

\* A card that is held awake has power.
Awake(c) == c.held => c.sram # "off"

LEMMA WorkedAwake ==
    ASSUME NEW q \in Request, NEW name, NEW core \in BOOLEAN, NEW c \in Card, Awake(c)
    PROVE  Awake(Worked(name, q, core, c))
  <1>1. Image(q) \in {"good", "bad"}
    BY DEF Image
  <1>2. PoweredOn(c) \in Card /\ PoweredOn(c).sram # "off"
    BY DEF PoweredOn, Card
  <1>3. Awake(Held(c))
    BY <1>2 DEF Held, Card, Awake
  <1>4. Awake(Rescanned(c))
    BY DEF Rescanned, Card, Awake
  <1>5. /\ Awake([c EXCEPT !.held = FALSE])
        /\ Awake([c EXCEPT !.core = c.sram = "good"])
        /\ Awake([c EXCEPT !.node = IF SysfsSpells(q.bdf) THEN "none" ELSE @])
    BY DEF Card, Awake
  <1>6. Awake([c EXCEPT !.sram = Image(q), !.core = core,
                       !.node = IF @ = "none" THEN @ ELSE "stale"])
    BY <1>1 DEF Card, Awake
  <1>7. Awake([c EXCEPT !.spi = Image(q)])
    BY DEF Card, Awake
  <1> QED  BY <1>3, <1>4, <1>5, <1>6, <1>7 DEF Worked

\* A step that completes works on the boards it reaches.
LEMMA Completes ==
    ASSUME NEW q \in Request, NEW name, NEW next \in Completed(name, q)
    PROVE  /\ next = [x \in Boards |-> next[x]]
           /\ \E core \in BOOLEAN : \A x \in Boards :
                next[x] = IF x \in Reaches(name, q)
                          THEN Worked(name, q, core, cards[x]) ELSE cards[x]
  <1>1. q.good \in BOOLEAN
    BY DEF Request
  <1>2. PICK core \in {q.good, FALSE} :
          next = [x \in Boards |-> IF x \in Reaches(name, q)
                                   THEN Worked(name, q, core, cards[x]) ELSE cards[x]]
    BY DEF Completed
  <1>3. core \in BOOLEAN
    BY <1>1, <1>2
  <1> QED  BY <1>2, <1>3

\* One that is cut short leaves what it found, what it would have left, or
\* half of a write to its own board.
LEMMA CutsShort ==
    ASSUME cards \in [Boards -> Card], NEW q \in Request, NEW name,
           NEW next \in Partial(name, q)
    PROVE  \/ next \in Completed(name, q)
           \/ /\ next \in [Boards -> Card]
              /\ \A x \in Boards : x # q.board => next[x] = cards[x]
              /\ \/ next[q.board] = cards[q.board]
                 \/ /\ name = "program-volatile" /\ cards[q.board].sram # "off"
                    /\ next[q.board] = [cards[q.board] EXCEPT
                         !.sram = "blank", !.core = FALSE,
                         !.node = IF @ = "none" THEN @ ELSE "stale"]
                 \/ name \in Flashes /\ next[q.board] = [cards[q.board] EXCEPT !.spi = "torn"]
  <1> DEFINE b == q.board
             blank == [cards[b] EXCEPT !.sram = "blank", !.core = FALSE,
                                       !.node = IF @ = "none" THEN @ ELSE "stale"]
             torn == [cards[b] EXCEPT !.spi = "torn"]
  <1>1. b \in Boards /\ cards[b] \in Card
    BY DEF Request
  <1>2. blank \in Card /\ torn \in Card
    BY <1>1 DEF Card
  <1>3. CASE next = cards
    BY <1>1, <1>3
  <1>4. CASE name = "program-volatile" /\ cards[b].sram # "off" /\ next = [cards EXCEPT ![b] = blank]
    <2> HIDE DEF blank
    <2>1. next[b] = blank /\ next \in [Boards -> Card] /\ \A x \in Boards : x # b => next[x] = cards[x]
      BY <1>1, <1>2, <1>4
    <2> QED  BY <1>4, <2>1 DEF blank
  <1>5. CASE name \in Flashes /\ next = [cards EXCEPT ![b] = torn]
    <2> HIDE DEF torn
    <2>1. next[b] = torn /\ next \in [Boards -> Card] /\ \A x \in Boards : x # b => next[x] = cards[x]
      BY <1>1, <1>2, <1>5
    <2> QED  BY <1>5, <2>1 DEF torn
  <1>6. \/ next = cards \/ next \in Completed(name, q)
        \/ name = "program-volatile" /\ cards[b].sram # "off" /\ next = [cards EXCEPT ![b] = blank]
        \/ name \in Flashes /\ next = [cards EXCEPT ![b] = torn]
    BY DEF Partial
  <1> QED  BY <1>3, <1>4, <1>5, <1>6

LEMMA CutsElsewhere ==
    ASSUME cards \in [Boards -> Card], NEW q \in Request, NEW name,
           NEW next \in Partial(name, q), next \notin Completed(name, q)
    PROVE  \A x \in Boards : x # q.board => next[x] = cards[x]
  BY DEF Partial, Request

\* Of the other boards a step only brings endpoints back.
LEMMA Elsewhere ==
    ASSUME PathsApart, cards \in [Boards -> Card], NEW q \in Request, NEW name,
           NEW next \in Partial(name, q), NEW x \in Boards, x # q.board
    PROVE  next[x] = cards[x] \/ next[x] = Rescanned(cards[x])
  <1>1. q.board \in Boards
    BY DEF Request
  <1>2. Matches[q.board] = {q.board}
    BY <1>1 DEF PathsApart
  <1>3. CASE next \notin Completed(name, q)
    <2>1. \A y \in Boards : y # q.board => next[y] = cards[y]
      BY <1>3, CutsElsewhere
    <2> QED  BY <2>1
  <1>4. CASE next \in Completed(name, q) /\ name \in Rescans
    <2>1. PICK core : next[x] = IF x \in Reaches(name, q)
                          THEN Worked(name, q, core, cards[x]) ELSE cards[x]
      BY <1>4, Completes
    <2>2. Worked(name, q, core, cards[x]) = Rescanned(cards[x])
      BY <1>4 DEF Worked, Holds, Rescans, Flashes
    <2> QED  BY <2>1, <2>2
  <1>5. CASE next \in Completed(name, q) /\ name \notin Rescans
    <2>1. PICK core : next[x] = IF x \in Reaches(name, q)
                          THEN Worked(name, q, core, cards[x]) ELSE cards[x]
      BY <1>5, Completes
    <2>2. x \notin Reaches(name, q)
      BY <1>2, <1>5 DEF Reaches, Rescans
    <2> QED  BY <2>1, <2>2
  <1> QED  BY <1>3, <1>4, <1>5

------------------------------------------------------------------------------
(* A step of the session, as the cards see it. *)

\* The live step of a run ends, and its run moves on.
Advances(r) ==
    /\ status[r] = "running" /\ status'[r] = "running"
    /\ pc'[r] = pc[r] + 1
    /\ CanSucceed(StepName(r), request[r])
    /\ cards' \in Completed(StepName(r), request[r])

\* The live step of a run ends, well or not.
Acts(r) ==
    /\ Critical(r) /\ child[r]
    /\ request' = request /\ attempted' = attempted
    /\ \A s \in Runs : s # r =>
           status'[s] = status[s] /\ pc'[s] = pc[s] /\ succeeded'[s] = succeeded[s]
    /\ cards' \in Partial(StepName(r), request[r])
    /\ deadman' \in {deadman, Armed(StepName(r))}
    /\ \/ succeeded' = succeeded
       \/ succeeded'[r] = succeeded[r] \cup {pc[r]} /\ deadman' = Armed(StepName(r))
    /\ Advances(r) \/ status'[r] # "running"

\* Nothing happens to the bench; a run that enters its plan starts at 1.
Idles ==
    /\ request' = request /\ cards' = cards /\ deadman' = deadman
    /\ succeeded' = succeeded
    /\ \A r \in Runs :
           /\ attempted[r] \subseteq attempted'[r]
           /\ Critical(r)' => Critical(r) \/ status[r] \in {"idle", "blocked"}
           /\ status'[r] = "running" =>
                  \/ pc'[r] = 1
                  \/ status[r] = "running" /\ pc'[r] = pc[r]

Suspends ==
    /\ request' = request /\ status' = status /\ pc' = pc /\ child' = child
    /\ attempted' = attempted /\ succeeded' = succeeded /\ deadman' = deadman
    /\ \E b \in Boards : Suspend(b)

Restarts ==
    /\ request' = request
    /\ \A r \in Runs : ~Critical(r)'
    /\ HostReboot

LEMMA SessionMoves ==
    ASSUME RunsInv, NoneOutlasts, [SessionNext]_sessionVars
    PROVE  (\E r \in Runs : Acts(r)) \/ Idles \/ Suspends \/ Restarts
  <1> USE DEF RunsInv, TypeOK
  <1>1. ASSUME NEW r \in Runs, Between(r) PROVE Idles
    <2>1. CASE Refuse(r) \/ Invoke(r) \/ Acquire(r)
      <3>1. pc[r] = 1
        BY <2>1 DEF Refuse, Invoke, Acquire, HistoryInv, StartedInv
      <3> QED  BY <1>1, <2>1, <3>1 DEF Between, Refuse, Invoke, Acquire, Idles, hostVars, Critical
    <2>2. CASE StartStep(r)
      BY <1>1, <2>2 DEF Between, StartStep, Idles, hostVars, Critical
    <2>3. CASE SkipStep(r)
      BY <1>1, <2>3 DEF Between, SkipStep, Idles, hostVars, Critical
    <2>4. CASE Return(r)
      BY <1>1, <2>4 DEF Between, Return, Idles, hostVars, Critical
    <2> QED  BY <1>1, <2>1, <2>2, <2>3, <2>4 DEF Between
  <1>2. ASSUME NEW name, NEW q PROVE Completed(name, q) \subseteq Partial(name, q)
    BY DEF Partial
  <1>3. ASSUME NEW r \in Runs, Success(r) PROVE Acts(r)
    <2>1. cards' \in Partial(StepName(r), request[r])
      BY <1>2, <1>3 DEF Success
    <2>2. CASE StepSucceeds(r)
      <3>1. Advances(r)
        BY <1>3, <2>2 DEF Success, StepSucceeds, Advances
      <3> QED  BY <1>3, <2>1, <2>2, <3>1 DEF Success, StepSucceeds, Acts, Critical
    <2>3. CASE CleanupStepEnds(r, TRUE)
      BY <1>3, <2>1, <2>3 DEF Success, CleanupStepEnds, Acts, Critical
    <2> QED  BY <1>3, <2>2, <2>3 DEF Success
  <1>4. ASSUME NEW r \in Runs, Failure(r) PROVE Acts(r)
    <2>1. CASE StepFails(r)
      BY <1>4, <2>1 DEF Failure, CutShort, StepFails, Acts, Critical
    <2>2. CASE CleanupStepEnds(r, FALSE)
      <3>1. succeeded' = succeeded
        BY <2>2 DEF CleanupStepEnds
      <3> QED  BY <1>4, <2>2, <3>1 DEF Failure, CutShort, CleanupStepEnds, Acts, Critical
    <2> QED  BY <1>4, <2>1, <2>2 DEF Failure
  <1>5. ASSUME NEW r \in Runs, child[r], r \notin hung PROVE Critical(r)
    BY <1>5 DEF OrphansInv, NoneOutlasts
  <1>6. ASSUME NEW r \in Runs, InterruptedRun(r) PROVE Acts(r) \/ Idles
    <2>1. CASE child[r] /\ ~child'[r]
      <3>1. Critical(r)
        BY <1>5, <1>6, <2>1 DEF InterruptedRun
      <3> QED  BY <1>6, <2>1, <3>1 DEF InterruptedRun, Interrupt, CutShort, Acts
    <2>2. CASE ~(child[r] /\ ~child'[r])
      BY <1>6, <2>2 DEF InterruptedRun, Interrupt, Idles, hostVars, Critical
    <2> QED  BY <2>1, <2>2
  <1>7. ASSUME NEW r \in Runs PROVE ~OrphanStepEnds(r)
    BY <1>5 DEF OrphanStepEnds, OrphanEnds, Critical
  <1>8. ASSUME NEW r \in Runs, Hang(r) PROVE Idles
    BY <1>8 DEF Hang, vars, Idles, Critical
  <1>9. ASSUME NEW b \in Boards, Suspend(b) PROVE Suspends
    BY <1>9 DEF Suspend, vars, Suspends
  <1>10. ASSUME DeadmanFires PROVE Restarts
    BY <1>10 DEF DeadmanFires, HostReboot, Reboot, Restarts, Live, Critical
  <1>11. ASSUME UNCHANGED sessionVars PROVE Idles
    BY <1>11 DEF sessionVars, vars, hostVars, Idles, Critical
  <1> QED
    BY <1>1, <1>3, <1>4, <1>6, <1>7, <1>8, <1>9, <1>10, <1>11 DEF SessionNext

\* Two runs inside their plans are at different boards.
LEMMA OthersElsewhere ==
    ASSUME RunsInv, Locked, NEW r \in Runs, NEW s \in Runs, r # s, Critical(r), Critical(s)
    PROVE  request[r].board # request[s].board
  <1>1. Keyed(r) /\ Keyed(s)
    BY DEF RunsInv, TypeOK, Locked, Keyed
  <1> QED  BY <1>1 DEF RunsInv, RunExclusion, SameBoard

------------------------------------------------------------------------------
(* The cards. *)

CardsInv ==
    /\ cards \in [Boards -> Card]
    /\ deadman \in BOOLEAN
    /\ \A b \in Boards : Awake(cards[b])

\* What a run's step makes of a card, completed or not.
LEMMA PartialCards ==
    ASSUME CardsInv, NEW q \in Request, NEW name, NEW next \in Partial(name, q)
    PROVE  next \in [Boards -> Card] /\ \A b \in Boards : Awake(next[b])
  <1>1. CASE next \in Completed(name, q)
    <2>1. PICK core \in BOOLEAN : \A x \in Boards :
            next[x] = IF x \in Reaches(name, q)
                      THEN Worked(name, q, core, cards[x]) ELSE cards[x]
      BY <1>1, Completes
    <2>2. next = [x \in Boards |-> next[x]]
      BY <1>1, Completes
    <2>3. \A x \in Boards : next[x] \in Card /\ Awake(next[x])
      <3> SUFFICES ASSUME NEW x \in Boards PROVE next[x] \in Card /\ Awake(next[x])
        OBVIOUS
      <3>1. cards[x] \in Card /\ Awake(cards[x])
        BY DEF CardsInv
      <3>2. Worked(name, q, core, cards[x]) \in Card /\ Awake(Worked(name, q, core, cards[x]))
        BY <3>1, WorkedTypes, WorkedAwake
      <3> QED  BY <2>1, <3>1, <3>2
    <2> QED  BY <2>2, <2>3
  <1>2. CASE next \notin Completed(name, q)
    <2> DEFINE b == q.board
    <2>1. b \in Boards /\ cards \in [Boards -> Card] /\ cards[b] \in Card
      BY DEF Request, CardsInv
    <2>2. \A x \in Boards : x # b => next[x] = cards[x]
      BY <1>2, <2>1, CutsElsewhere
    <2>3. /\ next \in [Boards -> Card]
          /\ \/ next[b] = cards[b]
             \/ next[b] = [cards[b] EXCEPT !.sram = "blank", !.core = FALSE,
                                           !.node = IF @ = "none" THEN @ ELSE "stale"]
             \/ next[b] = [cards[b] EXCEPT !.spi = "torn"]
      BY <1>2, <2>1, CutsShort
    <2>4. Awake(next[b])
      <3>1. \A c \in Card : Awake(c) =>
              /\ Awake([c EXCEPT !.sram = "blank", !.core = FALSE,
                                 !.node = IF @ = "none" THEN @ ELSE "stale"])
              /\ Awake([c EXCEPT !.spi = "torn"])
        BY DEF Awake, Card
      <3>2. Awake(cards[b])
        BY <2>1 DEF CardsInv
      <3> QED  BY <2>1, <2>3, <3>1, <3>2
    <2> QED  BY <2>1, <2>2, <2>3, <2>4 DEF CardsInv
  <1> QED  BY <1>1, <1>2

LEMMA BootedCard ==
    ASSUME NEW c \in Card
    PROVE  Booted(c) \in Card /\ Awake(Booted(c)) /\ Booted(c).node # "stale"
  BY DEF Card, Booted, PoweredOn, Awake

LEMMA CardsStep ==
    ASSUME RunsInv, NoneOutlasts, CardsInv, [SessionNext]_sessionVars
    PROVE  CardsInv'
  <1>1. ASSUME NEW r \in Runs, Acts(r) PROVE CardsInv'
    <2>1. request[r] \in Request
      BY ExecutorAssumption DEF RunsInv, TypeOK, WellFormed
    <2>2. deadman' \in BOOLEAN
      BY <1>1 DEF Acts, Armed, CardsInv
    <2>3. cards' \in [Boards -> Card] /\ \A b \in Boards : Awake(cards'[b])
      BY <1>1, <2>1, PartialCards DEF Acts
    <2> QED  BY <2>2, <2>3 DEF CardsInv
  <1>2. CASE Idles
    BY <1>2 DEF Idles, CardsInv
  <1>3. CASE Suspends
    <2>1. PICK b \in Boards : Suspend(b)
      BY <1>3 DEF Suspends
    <2>2. cards[b] \in Card /\ ~cards[b].held
      BY <2>1 DEF Suspend, CardsInv
    <2> DEFINE off == [cards[b] EXCEPT !.sram = "off", !.core = FALSE]
    <2>3. off \in Card /\ Awake(off)
      BY <2>2 DEF Card, Awake
    <2>4. cards' = [cards EXCEPT ![b] = off]
      BY <2>1 DEF Suspend, CardsInv
    <2> HIDE DEF off
    <2>5. cards' \in [Boards -> Card] /\ \A x \in Boards : Awake(cards'[x])
      BY <2>3, <2>4 DEF CardsInv
    <2> QED  BY <1>3, <2>5 DEF Suspends, CardsInv
  <1>4. CASE Restarts
    <2>1. \A b \in Boards : cards[b] \in Card /\ [cards[b] EXCEPT !.spi = "torn"] \in Card
      BY DEF CardsInv, Card
    <2>2. PICK torn : cards' = [b \in Boards |->
                        Booted(IF b \in torn
                               THEN [cards[b] EXCEPT !.spi = "torn"] ELSE cards[b])]
      BY <1>4 DEF Restarts, HostReboot
    <2>3. \A b \in Boards : cards'[b] \in Card /\ Awake(cards'[b])
      BY <2>1, <2>2, BootedCard
    <2>4. cards' \in [Boards -> Card]
      BY <2>2, <2>3
    <2> QED  BY <1>4, <2>3, <2>4 DEF Restarts, HostReboot, CardsInv
  <1> QED  BY <1>1, <1>2, <1>3, <1>4, SessionMoves

\* The card of the board a run is for.
At(r) == cards[request[r].board]

LEMMA CardAt ==
    ASSUME RunsInv, CardsInv, NEW r \in Runs
    PROVE  /\ request[r] \in Requests /\ request[r] \in Request
           /\ request[r].board \in Boards /\ At(r) \in Card /\ Awake(At(r))
  BY ExecutorAssumption DEF RunsInv, TypeOK, WellFormed, Request, CardsInv, At

\* A run that moves on has worked on the card of its own board.
LEMMA AdvanceWorks ==
    ASSUME RunsInv, CardsInv, NEW r \in Runs, Acts(r), status'[r] = "running"
    PROVE  /\ status[r] = "running" /\ pc'[r] = pc[r] + 1
           /\ pc[r] <= Len(Steps(r)) /\ Steps(r)' = Steps(r)
           /\ CanSucceed(StepName(r), request[r])
           /\ At(r)' = cards'[request[r].board]
           /\ \E core \in BOOLEAN :
                At(r)' = IF request[r].board \in Reaches(StepName(r), request[r])
                         THEN Worked(StepName(r), request[r], core, At(r)) ELSE At(r)
  <1>1. Advances(r) /\ child[r] /\ Critical(r) /\ request' = request
    BY DEF Acts
  <1>2. request[r] \in Request /\ request[r].board \in Boards
    BY CardAt
  <1>3. At(r)' = cards'[request[r].board] /\ Steps(r)' = Steps(r)
    BY <1>1 DEF At, Steps
  <1>4. pc[r] <= Len(Steps(r))
    BY <1>1 DEF RunsInv, AliveInv
  <1>5. PICK core \in BOOLEAN : \A x \in Boards :
          cards'[x] = IF x \in Reaches(StepName(r), request[r])
                      THEN Worked(StepName(r), request[r], core, cards[x]) ELSE cards[x]
    BY <1>1, <1>2, Completes DEF Advances
  <1>6. At(r)' = IF request[r].board \in Reaches(StepName(r), request[r])
                 THEN Worked(StepName(r), request[r], core, At(r)) ELSE At(r)
    BY <1>2, <1>3, <1>5 DEF At
  <1> QED  BY <1>1, <1>3, <1>4, <1>6 DEF Advances

\* The runs that do not act find their cards as they were, or rescanned.
LEMMA OthersCards ==
    ASSUME RunsInv, CardsInv, Locked, PathsApart,
           NEW r \in Runs, NEW s \in Runs, r # s, Acts(r), status'[s] = "running"
    PROVE  /\ status[s] = "running" /\ pc'[s] = pc[s] /\ Steps(s)' = Steps(s)
           /\ At(s)' = At(s) \/ At(s)' = Rescanned(At(s))
  <1>1. /\ status[s] = "running" /\ pc'[s] = pc[s] /\ request' = request
        /\ Critical(r) /\ cards' \in Partial(StepName(r), request[r])
    BY DEF Acts
  <1>2. request[s].board # request[r].board
    BY <1>1, OthersElsewhere DEF Critical
  <1>3. request[r] \in Request /\ request[s].board \in Boards /\ cards \in [Boards -> Card]
    BY CardAt DEF CardsInv
  <1>4. \/ cards'[request[s].board] = cards[request[s].board]
        \/ cards'[request[s].board] = Rescanned(cards[request[s].board])
    BY <1>1, <1>2, <1>3, Elsewhere
  <1> QED  BY <1>1, <1>4 DEF At, Steps

LEMMA RescanKeeps ==
    ASSUME NEW c \in Card
    PROVE  Rescanned(c).held = c.held /\ Rescanned(c).sram = c.sram
  BY DEF Card, Rescanned

------------------------------------------------------------------------------
(* The hold. *)

\* A run is past its hold and short of its release.
HoldsOn(r) ==
    /\ \E i \in 1 .. pc[r] - 1 : Steps(r)[i] \in Holds
    /\ \A i \in 1 .. Len(Steps(r)) :
           i <= pc[r] => Steps(r)[i] # "thunderbolt-release"

HoldInv ==
    \A r \in Runs :
        status[r] = "running" /\ request[r].patterns /\ HoldsOn(r) => At(r).held

LEMMA WorkedHolds ==
    ASSUME NEW q \in Request, NEW name, NEW core \in BOOLEAN, NEW c \in Card
    PROVE  /\ name \in Holds => Worked(name, q, core, c).held
           /\ c.held /\ name # "thunderbolt-release" => Worked(name, q, core, c).held
  <1>1. Held(c).held
    <2>1. PoweredOn(c) \in Card
      BY DEF PoweredOn, Card
    <2> QED  BY <2>1 DEF Held, Card
  <1>2. ASSUME c.held
        PROVE  /\ [c EXCEPT !.core = c.sram = "good"].held
               /\ [c EXCEPT !.node = IF SysfsSpells(q.bdf) THEN "none" ELSE @].held
               /\ [c EXCEPT !.sram = Image(q), !.core = core,
                            !.node = IF @ = "none" THEN @ ELSE "stale"].held
               /\ [c EXCEPT !.spi = Image(q)].held
               /\ Rescanned(c).held
    BY <1>2, RescanKeeps DEF Card
  <1>3. name \in Holds => Worked(name, q, core, c).held
    BY <1>1 DEF Worked, Holds, Rescans, Flashes
  <1>4. ASSUME c.held, name # "thunderbolt-release" PROVE Worked(name, q, core, c).held
    <2> HIDE DEF Image, SysfsSpells
    <2> QED  BY <1>1, <1>2, <1>4 DEF Worked
  <1> QED  BY <1>3, <1>4

LEMMA HoldStep ==
    ASSUME RunsInv, NoneOutlasts, Locked, PathsApart, CardsInv, HoldInv,
           [SessionNext]_sessionVars
    PROVE  HoldInv'
  <1> SUFFICES ASSUME NEW s \in Runs, status'[s] = "running",
                      request'[s].patterns, HoldsOn(s)'
               PROVE  At(s)'.held
    BY DEF HoldInv
  <1>0. pc[s] \in Nat /\ pc'[s] # 1 /\ Len(Steps(s)) \in Nat
    <2>1. pc[s] \in Nat /\ Len(Steps(s)) \in Nat
      <3>1. Steps(s) \in Seq(StepNames)
        BY CardAt, PlanIsSequence DEF Steps
      <3> QED  BY <3>1 DEF RunsInv, TypeOK
    <2> QED  BY <2>1 DEF HoldsOn
  <1>6. request[s].patterns = TRUE
    <2>1. \A r \in Runs : Acts(r) => request' = request
      BY DEF Acts
    <2>2. (Idles => request' = request) /\ (Suspends => request' = request)
            /\ (Restarts => request' = request)
      BY DEF Idles, Suspends, Restarts
    <2>3. request' = request
      BY <2>1, <2>2, SessionMoves
    <2>4. request[s].patterns \in BOOLEAN
      BY CardAt DEF Request
    <2> QED  BY <2>3, <2>4
  <1>1. ASSUME NEW r \in Runs, Acts(r), r # s PROVE At(s)'.held
    <2>1. /\ status[s] = "running" /\ pc'[s] = pc[s] /\ Steps(s)' = Steps(s)
          /\ At(s)' = At(s) \/ At(s)' = Rescanned(At(s))
      BY <1>1, OthersCards
    <2>2. request' = request
      BY <1>1 DEF Acts
    <2>3. HoldsOn(s)
      BY <2>1 DEF HoldsOn
    <2>4. At(s).held /\ At(s) \in Card
      BY <2>1, <2>2, <2>3, CardAt DEF HoldInv
    <2> QED  BY <2>1, <2>4, RescanKeeps
  <1>2. ASSUME Acts(s) PROVE At(s)'.held
    <2> DEFINE q == request[s]  name == StepName(s)
    <2>1. /\ status[s] = "running" /\ pc'[s] = pc[s] + 1
          /\ pc[s] <= Len(Steps(s)) /\ Steps(s)' = Steps(s)
      BY <1>2, AdvanceWorks
    <2>2. PICK core \in BOOLEAN :
            At(s)' = IF q.board \in Reaches(name, q)
                     THEN Worked(name, q, core, At(s)) ELSE At(s)
      BY <1>2, AdvanceWorks
    <2>3. request' = request /\ q \in Request /\ q.board \in Boards /\ At(s) \in Card
      BY <1>2, CardAt DEF Acts
    <2>4. pc[s] \in 1 .. Len(Steps(s)) /\ name # "thunderbolt-release"
      <3>1. pc[s] > 0
        BY DEF RunsInv, TypeOK
      <3> QED  BY <1>0, <2>1, <3>1 DEF HoldsOn, StepName
    <2>5. CASE name \in Holds
      <3>1. Reaches(name, q) = Matches[q.board]
        <4> HIDE DEF name
        <4> QED  BY <1>6, <2>5 DEF Reaches, Holds, Rescans
      <3>2. q.board \in Reaches(name, q)
        BY <2>3, <3>1 DEF PathsApart
      <3> HIDE DEF q, name
      <3> QED  BY <2>2, <2>3, <2>5, <3>2, WorkedHolds
    <2>6. CASE name \notin Holds
      <3>1. HoldsOn(s)
        <4>1. PICK i \in 1 .. pc[s] : Steps(s)[i] \in Holds
          BY <1>0, <2>1 DEF HoldsOn
        <4>2. i # pc[s]
          BY <2>6, <4>1 DEF StepName
        <4>3. i \in 1 .. pc[s] - 1
          BY <1>0, <4>2
        <4> QED  BY <1>0, <2>1, <4>1, <4>3 DEF HoldsOn
      <3>2. At(s).held
        BY <2>1, <2>3, <3>1 DEF HoldInv
      <3> HIDE DEF q, name
      <3> QED  BY <2>2, <2>3, <2>4, <3>2, WorkedHolds
    <2> QED  BY <2>5, <2>6
  <1>3. CASE Idles
    <2>1. status[s] = "running" /\ pc'[s] = pc[s] /\ request' = request /\ cards' = cards
      BY <1>0, <1>3 DEF Idles
    <2>2. HoldsOn(s)
      BY <2>1 DEF HoldsOn, Steps
    <2> QED  BY <2>1, <2>2 DEF HoldInv, At
  <1>4. CASE Suspends
    <2>1. status[s] = "running" /\ pc' = pc /\ request' = request
      BY <1>4 DEF Suspends
    <2>2. HoldsOn(s)
      BY <2>1 DEF HoldsOn, Steps
    <2>3. At(s).held
      BY <2>1, <2>2 DEF HoldInv
    <2>4. PICK b \in Boards : Suspend(b)
      BY <1>4 DEF Suspends
    <2>5. request[s].board # b
      BY <2>3, <2>4 DEF Suspend, At
    <2>6. request[s].board \in Boards /\ cards \in [Boards -> Card]
      BY CardAt DEF CardsInv
    <2>7. cards'[request[s].board] = cards[request[s].board]
      BY <2>4, <2>5, <2>6 DEF Suspend
    <2> QED  BY <2>1, <2>3, <2>7 DEF At
  <1>5. CASE Restarts
    BY <1>5 DEF Restarts, Critical
  <1> QED  BY <1>1, <1>2, <1>3, <1>4, <1>5, SessionMoves

\* Between its removal and its program step a run holds the path.
LEMMA RemovedIsHeld ==
    ASSUME RunsInv, NEW r \in Runs, status[r] = "running",
           Done(r, "remove-endpoint"), ~Done(r, "program-volatile")
    PROVE  HoldsOn(r)
  <1> DEFINE s == Steps(r)
  <1>1. /\ request[r] \in Request /\ s = compose(request[r])
        /\ Len(s) \in Nat /\ DOMAIN s = 1 .. Len(s)
        /\ pc[r] \in Nat /\ pc[r] > 0
        /\ \A i \in 1 .. pc[r] - 1 : i \in succeeded[r]
        /\ \A i \in succeeded[r] : i \in 1 .. pc[r] - 1
    BY RunningRun
  <1> HIDE DEF s
  <1>2. PICK i \in succeeded[r] : i \in 1 .. Len(s) /\ s[i] = "remove-endpoint"
    BY <1>1 DEF Done, s
  <1>3. HoldsFirst(s) /\ ProgramsFirst(s)
    BY <1>1, <1>2, PlanOrder
  <1>4. PICK j \in 1 .. i - 1 : s[j] \in Holds
    BY <1>2, <1>3 DEF HoldsFirst
  <1>5. j \in 1 .. pc[r] - 1
    BY <1>1, <1>2, <1>4
  <1>6. PICK k \in 1 .. Len(s) :
          /\ s[k] = "program-volatile"
          /\ \A m \in 1 .. Len(s) : s[m] = "thunderbolt-release" => k < m
    BY <1>3 DEF ProgramsFirst
  <1>7. k \notin succeeded[r]
    BY <1>1, <1>6 DEF Done, s
  <1>8. k \notin 1 .. pc[r] - 1
    BY <1>1, <1>7
  <1>9. k >= pc[r]
    BY <1>1, <1>6, <1>8
  <1>10. \A m \in 1 .. Len(s) : m <= pc[r] => s[m] # "thunderbolt-release"
    BY <1>1, <1>6, <1>9
  <1> QED  BY <1>4, <1>5, <1>10 DEF HoldsOn, s

SessionInv == RunsInv /\ CardsInv

LEMMA SessionInvariant ==
    ASSUME NoneOutlasts
    PROVE  SessionSpec => []SessionInv
  <1>1. SessionInit => CardsInv
    <2> DEFINE fresh == [sram |-> "good", spi |-> "good", node |-> "live",
                         core |-> TRUE, held |-> FALSE]
    <2>1. fresh \in Card /\ Awake(fresh)
      BY DEF Card, Awake
    <2>2. SessionInit => cards = [b \in Boards |-> fresh] /\ deadman = FALSE
      BY DEF SessionInit
    <2> HIDE DEF fresh
    <2> QED  BY <2>1, <2>2 DEF CardsInv
  <1>2. RunsInv /\ CardsInv /\ [SessionNext]_sessionVars => CardsInv'
    BY CardsStep
  <1> QED  BY <1>1, <1>2, RunsInvariant, PTL DEF SessionSpec, SessionInv

\* However many boards and runs the host has, while a board's path is matched
\* by its own patterns alone, a card whose endpoint a run has removed keeps its
\* power until that run has programmed it.
THEOREM PathIsHeldAcrossReprogram ==
    ASSUME NoneOutlasts, Locked, PathsApart
    PROVE  SessionSpec => []CardStaysPowered
  <1>1. SessionInit => HoldInv
    BY DEF SessionInit, Init, HoldInv
  <1>2. SessionInv /\ HoldInv /\ [SessionNext]_sessionVars => HoldInv'
    BY HoldStep DEF SessionInv
  <1>3. SessionInv /\ HoldInv => CardStaysPowered
    <2> SUFFICES ASSUME SessionInv, HoldInv, NEW r \in Runs, status[r] = "running",
                        request[r].patterns,
                        Done(r, "remove-endpoint"), ~Done(r, "program-volatile")
                 PROVE  cards[request[r].board].sram # "off"
      BY DEF CardStaysPowered
    <2>1. HoldsOn(r)
      BY RemovedIsHeld DEF SessionInv
    <2>2. At(r).held
      BY <2>1 DEF HoldInv
    <2> QED  BY <2>2, CardAt DEF SessionInv, Awake, At
  <1> QED  BY <1>1, <1>2, <1>3, SessionInvariant, PTL DEF SessionSpec

------------------------------------------------------------------------------
(* The recovery. *)

\* A recovery past its program step has its good image running.
RecoverInv ==
    \A r \in Runs :
        /\ status[r] = "running" /\ pc[r] > 3
        /\ request[r].plan = "recovery" /\ request[r].good
        => At(r).sram = "good"

LEMMA RecoverySteps ==
    ASSUME RunsInv, NEW r \in Runs, request[r].plan = "recovery"
    PROVE  /\ Len(Steps(r)) = 5
           /\ Steps(r)[1] = "thunderbolt-hold" /\ Steps(r)[2] = "remove-endpoint"
           /\ Steps(r)[3] = "program-volatile" /\ Steps(r)[4] = "pci-rescan"
           /\ Steps(r)[5] = "lspci-endpoint"
  BY RecoveryOrder DEF Steps, compose

LEMMA RecoverStep ==
    ASSUME RunsInv, NoneOutlasts, Locked, PathsApart, RecoveriesHold, CardsInv, HoldInv,
           RecoverInv, [SessionNext]_sessionVars
    PROVE  RecoverInv'
  <1> SUFFICES ASSUME NEW s \in Runs, status'[s] = "running", pc'[s] > 3,
                      request'[s].plan = "recovery", request'[s].good
               PROVE  At(s)'.sram = "good"
    BY DEF RecoverInv
  <1>0. pc[s] \in Nat \ {0} /\ pc'[s] # 1
    BY DEF RunsInv, TypeOK
  <1>1. ASSUME NEW r \in Runs, Acts(r), r # s PROVE At(s)'.sram = "good"
    <2>1. /\ status[s] = "running" /\ pc'[s] = pc[s]
          /\ At(s)' = At(s) \/ At(s)' = Rescanned(At(s))
      BY <1>1, OthersCards
    <2>2. request' = request
      BY <1>1 DEF Acts
    <2>3. At(s).sram = "good" /\ At(s) \in Card
      BY <2>1, <2>2, CardAt DEF RecoverInv
    <2> QED  BY <2>1, <2>3, RescanKeeps
  <1>2. ASSUME Acts(s) PROVE At(s)'.sram = "good"
    <2> DEFINE q == request[s]  name == StepName(s)
    <2>1. /\ status[s] = "running" /\ pc'[s] = pc[s] + 1 /\ pc[s] <= Len(Steps(s))
      BY <1>2, AdvanceWorks
    <2>2. PICK core \in BOOLEAN :
            At(s)' = IF q.board \in Reaches(name, q)
                     THEN Worked(name, q, core, At(s)) ELSE At(s)
      BY <1>2, AdvanceWorks
    <2>3. request' = request /\ At(s) \in Card
      BY <1>2, CardAt DEF Acts
    <2>4. pc[s] \in 3 .. 5
      <3>1. Len(Steps(s)) = 5
        BY <2>3, RecoverySteps
      <3> QED  BY <1>0, <2>1, <3>1
    <2>5. CASE pc[s] = 3
      <3>1. name = "program-volatile"
        BY <2>3, <2>5, RecoverySteps DEF StepName
      <3> HIDE DEF name
      <3>2. q.board \in Reaches(name, q)
        BY <3>1 DEF Reaches, Holds, Rescans
      <3>3. At(s)' = [At(s) EXCEPT !.sram = Image(q), !.core = core,
                       !.node = IF @ = "none" THEN @ ELSE "stale"]
        BY <2>2, <3>1, <3>2 DEF Worked, Holds, Rescans, Flashes
      <3>4. Image(q) = "good"
        BY <2>3 DEF Image
      <3> QED  BY <2>3, <3>3, <3>4 DEF Card
    <2>6. CASE pc[s] \in 4 .. 5
      <3>1. name \in {"pci-rescan", "lspci-endpoint"}
        BY <2>3, <2>6, RecoverySteps DEF StepName
      <3> HIDE DEF name
      <3>2. Worked(name, q, core, At(s)) = Rescanned(At(s))
        BY <3>1 DEF Worked, Holds, Rescans, Flashes
      <3>3. At(s).sram = "good"
        BY <2>1, <2>3, <2>6 DEF RecoverInv
      <3> QED  BY <2>2, <2>3, <3>2, <3>3, RescanKeeps
    <2> QED  BY <2>4, <2>5, <2>6
  <1>3. CASE Idles
    <2>1. status[s] = "running" /\ pc'[s] = pc[s] /\ request' = request /\ cards' = cards
      BY <1>0, <1>3 DEF Idles
    <2> QED  BY <2>1 DEF RecoverInv, At
  <1>4. CASE Suspends
    <2>1. status[s] = "running" /\ pc' = pc /\ request' = request
      BY <1>4 DEF Suspends
    <2>2. At(s).sram = "good"
      BY <2>1 DEF RecoverInv
    <2>3. PICK b \in Boards : Suspend(b)
      BY <1>4 DEF Suspends
    <2>4. request[s] \in Requests /\ request[s].board \in Boards /\ cards \in [Boards -> Card]
      BY CardAt DEF CardsInv
    <2>5. CASE request[s].patterns
      <3>1. \E i \in 1 .. pc[s] - 1 : Steps(s)[i] \in Holds
        <4>1. Steps(s)[1] \in Holds
          BY <2>1, RecoverySteps DEF Holds
        <4>2. 1 \in 1 .. pc[s] - 1
          BY <1>0, <2>1
        <4> QED  BY <4>1, <4>2
      <3>2. \A i \in 1 .. 5 : Steps(s)[i] # "thunderbolt-release"
        BY <2>1, RecoverySteps
      <3>3. HoldsOn(s)
        BY <2>1, <3>1, <3>2, RecoverySteps DEF HoldsOn
      <3>4. At(s).held
        BY <2>1, <2>5, <3>3 DEF HoldInv
      <3>5. request[s].board # b
        BY <2>3, <3>4 DEF Suspend, At
      <3>6. cards'[request[s].board] = cards[request[s].board]
        BY <2>3, <2>4, <3>5 DEF Suspend
      <3> QED  BY <2>1, <2>2, <3>6 DEF At
    <2>6. CASE request[s].board \notin HotPlug
      <3>1. request[s].board # b
        BY <2>3, <2>6 DEF Suspend
      <3>2. cards'[request[s].board] = cards[request[s].board]
        BY <2>3, <2>4, <3>1 DEF Suspend
      <3> QED  BY <2>1, <2>2, <3>2 DEF At
    <2> QED  BY <2>1, <2>4, <2>5, <2>6 DEF RecoveriesHold
  <1>5. CASE Restarts
    BY <1>5 DEF Restarts, Critical
  <1> QED  BY <1>1, <1>2, <1>3, <1>4, <1>5, SessionMoves

\* A recovery with a good image rescans only once that image runs, whatever
\* else is at work on the host's other boards.
THEOREM RecoveryRunsItsImageFirst ==
    ASSUME NoneOutlasts, Locked, PathsApart, RecoveriesHold
    PROVE  SessionSpec => []RecoveryRescansGood
  <1>1. SessionInit => HoldInv /\ RecoverInv
    BY DEF SessionInit, Init, HoldInv, RecoverInv
  <1>2. SessionInv /\ HoldInv /\ RecoverInv /\ [SessionNext]_sessionVars
          => HoldInv' /\ RecoverInv'
    BY HoldStep, RecoverStep DEF SessionInv
  <1>3. SessionInv /\ RecoverInv => RecoveryRescansGood
    <2> SUFFICES ASSUME SessionInv, RecoverInv, NEW r \in Runs,
                        request[r].plan = "recovery", request[r].good,
                        status[r] = "running", child[r], StepName(r) \in Rescans
                 PROVE  cards[request[r].board].sram = "good"
      BY DEF RecoveryRescansGood
    <2>1. pc[r] \in Nat \ {0} /\ pc[r] <= Len(Steps(r))
      BY DEF SessionInv, RunsInv, TypeOK, AliveInv, Critical
    <2>2. pc[r] \in 1 .. 5
      <3>1. Len(Steps(r)) = 5
        BY RecoverySteps DEF SessionInv
      <3> QED  BY <2>1, <3>1
    <2>3. pc[r] \notin {1, 2, 3}
      BY RecoverySteps DEF SessionInv, StepName, Rescans
    <2>4. pc[r] > 3
      BY <2>2, <2>3
    <2> QED  BY <2>4 DEF RecoverInv, At
  <1> QED  BY <1>1, <1>2, <1>3, SessionInvariant, PTL DEF SessionSpec

------------------------------------------------------------------------------
(* One board: its runs come one after the other. *)

LEMMA SoleRun ==
    ASSUME RunsInv, Locked, OneBoard, NEW r \in Runs, NEW s \in Runs,
           Critical(r), Critical(s)
    PROVE  r = s
  <1>1. request[r].board = request[s].board
    BY CardAt DEF OneBoard, RunsInv, TypeOK
  <1> QED  BY <1>1, OthersElsewhere

LEMMA SoleActor ==
    ASSUME RunsInv, Locked, OneBoard, NEW r \in Runs, Acts(r),
           NEW s \in Runs, Critical(s)'
    PROVE  s = r
  <1>1. CASE s # r
    <2>1. Critical(r) /\ Critical(s)
      BY <1>1 DEF Acts, Critical
    <2> QED  BY <2>1, SoleRun
  <1> QED  BY <1>1

\* The steps of an sram-program run.
LEMMA SramSteps ==
    ASSUME RunsInv, NEW r \in Runs, request[r].plan = "sram-program"
    PROVE  /\ Steps(r) \in Seq(StepNames) /\ Len(Steps(r)) \in Nat /\ Len(Steps(r)) > 7
           /\ DOMAIN Steps(r) = 1 .. Len(Steps(r))
           /\ Steps(r)[1] = "pm-hold-path" /\ Steps(r)[2] = "deadman-arm"
           /\ Steps(r)[3] = "remove-endpoint" /\ Steps(r)[4] = "program-volatile"
           /\ Steps(r)[5] = "secondary-bus-reset"
           /\ Steps(r)[6] = "pci-global-rescan-settle" /\ Steps(r)[7] = "lspci-endpoint"
           /\ \A i \in 8 .. Len(Steps(r)) : Steps(r)[i] \in {"verify-device", "deadman-disarm"}
  <1>1. request[r] \in Request
    BY ExecutorAssumption DEF RunsInv, TypeOK, WellFormed
  <1>2. Steps(r) = sram_program_plan(request[r])
    BY DEF Steps, compose
  <1> HIDE DEF Steps
  <1> QED  BY <1>1, <1>2, SramOrder

\* The steps that arm and disarm the deadman.
Arming == {"deadman-arm", "deadman-disarm"}

\* No plan but sram-program has them.
LEMMA OnlySramArms ==
    ASSUME NEW q \in Request, q.plan # "sram-program"
    PROVE  compose(q) \in Seq(StepNames \ Arming)
  <1> DEFINE S == StepNames \ Arming
             writes == <<"write-vivado-driver-script", "write-vivado-driver-script">>
  <1>1. \A name \in S : <<name>> \in Seq(S)
    OBVIOUS
  <1>2. /\ "thunderbolt-hold" \in S /\ "thunderbolt-release" \in S /\ "jtag-detect" \in S
        /\ "driver-hardware-smoke" \in S /\ "stage-shell" \in S /\ "vivado-overlay-build" \in S
        /\ "cold-power-cycle-required" \in S /\ flash_step(q) \in S
    BY DEF StepNames, Arming, flash_step
  <1>3. /\ writes \in Seq(S)
        /\ <<"remove-endpoint", "program-volatile", "pci-rescan", "lspci-endpoint">> \in Seq(S)
        /\ <<"thunderbolt-hold", "vivado-build">> \in Seq(S)
        /\ <<"program-volatile", "pci-rescan", "lspci-endpoint">> \in Seq(S)
        /\ <<"thunderbolt-hold", "write-dau-overlay", "write-vivado-build-script">> \in Seq(S)
    BY DEF StepNames, Arming
  <1>4. recovery_plan(q) \in Seq(S)
    BY DEF recovery_plan, StepNames, Arming
  <1> HIDE DEF S, writes
  <1>5. detect_steps(q) \in Seq(S)
    BY <1>1, <1>2, WhenIsSequence DEF detect_steps
  <1>6. build_and_program_plan(q) \in Seq(S)
    BY <1>3, <1>5, Joined DEF build_and_program_plan
  <1>7. ProgramAndRelease(q) \in Seq(S)
    <2>1. When(q.probe, <<"driver-hardware-smoke">>) \in Seq(S)
      BY <1>1, <1>2, WhenIsSequence
    <2> QED  BY <1>1, <1>2, <1>3, <1>5, <2>1, Joined DEF ProgramAndRelease
  <1>8. validate_bitstream_plan(q) \in Seq(S)
    BY <1>1, <1>2, <1>7, Joined DEF validate_bitstream_plan
  <1>9. local_build_and_program_plan(q) \in Seq(S)
    <2>1. When(q.stage, <<"stage-shell">>) \in Seq(S) /\ When(q.drivers, writes) \in Seq(S)
      BY <1>1, <1>2, <1>3, WhenIsSequence
    <2> QED  BY <1>1, <1>2, <1>3, <1>7, <2>1, Joined DEF local_build_and_program_plan, writes
  <1>10. flash_plan(q) \in Seq(S)
    <2>1. When(q.spi4, <<"cold-power-cycle-required">>) \in Seq(S)
      BY <1>1, <1>2, WhenIsSequence
    <2>2. <<"thunderbolt-hold", flash_step(q), "thunderbolt-release">> \in Seq(S)
      BY <1>2
    <2> QED  BY <2>1, <2>2, Joined DEF flash_plan
  <1>11. q.plan \in PlanNames
    BY DEF Request
  <1> QED
    BY <1>1, <1>2, <1>4, <1>6, <1>8, <1>9, <1>10, <1>11 DEF compose, PlanNames, S

\* A run that has got past its composition is one that composes.
ComposedInv == \A r \in Runs : Live(r) => Composable(request[r])

LEMMA ComposedStep == TypeOK /\ ComposedInv /\ [Next]_vars => ComposedInv'
  <1> SUFFICES ASSUME TypeOK, ComposedInv, [Next]_vars, NEW s \in Runs, Live(s)'
               PROVE  Composable(request'[s])
    BY DEF ComposedInv
  <1> USE DEF Live, Critical, TypeOK
  <1>1. request' = request
    BY DEF Next, Step, Refuse, Invoke, Acquire, StartStep, SkipStep, StepSucceeds, StepFails,
           CleanupStepEnds, Return, Interrupt, OrphanEnds, Reboot, vars
  <1>2. Live(s) \/ Composable(request[s])
    <2>1. ASSUME NEW r \in Runs, Invoke(r) PROVE Live(s) \/ Composable(request[s])
      BY <2>1 DEF Invoke
    <2>2. ASSUME NEW r \in Runs,
                 \/ Refuse(r) \/ Acquire(r) \/ StartStep(r) \/ SkipStep(r) \/ StepSucceeds(r)
                 \/ StepFails(r) \/ \E ok \in BOOLEAN : CleanupStepEnds(r, ok)
          PROVE  Live(s)
      BY <2>2 DEF Refuse, Acquire, StartStep, SkipStep, StepSucceeds, StepFails, CleanupStepEnds
    <2>3. ASSUME NEW r \in Runs, Return(r) \/ Interrupt(r) \/ OrphanEnds(r)
          PROVE  Live(s)
      BY <2>3 DEF Return, Interrupt, OrphanEnds
    <2>4. Reboot \/ UNCHANGED vars => Live(s)
      BY DEF Reboot, vars
    <2> QED  BY <2>1, <2>2, <2>3, <2>4 DEF Next, Step
  <1> QED  BY <1>1, <1>2 DEF ComposedInv

\* sram-program runs hold the lock of their board, as their endpoint is a fact
\* that the plan reads: on one board they come one after the other.
LEMMA SoleSram ==
    ASSUME RunsInv, ComposedInv, OneSramBoard, NEW r \in Runs, NEW s \in Runs,
           Critical(r), Critical(s),
           request[r].plan = "sram-program", request[s].plan = "sram-program"
    PROVE  r = s
  <1>1. ASSUME NEW x \in Runs, Critical(x), request[x].plan = "sram-program" PROVE Keyed(x)
    <2>1. Steps(x)[3] = "remove-endpoint" /\ 3 \in DOMAIN Steps(x)
      BY <1>1, SramSteps
    <2>2. required_host_access(Steps(x)[3]) \subseteq request[x].facts
      BY <1>1, <2>1 DEF ComposedInv, Live, Composable, Steps
    <2>3. "endpoint_bdf" \in request[x].facts
      BY <2>1, <2>2 DEF required_host_access
    <2> QED  BY <2>3, ExecutorAssumption DEF RunsInv, TypeOK, WellFormed, Keyed
  <1>2. request[r].board = request[s].board
    BY DEF OneSramBoard, RunsInv, TypeOK
  <1> QED  BY <1>1, <1>2 DEF RunsInv, RunExclusion, SameBoard

\* The deadman stands behind every sram-program run that has armed it.
DeadmanInv ==
    \A r \in Runs :
        /\ request[r].plan = "sram-program" /\ Critical(r)
        /\ 2 \in succeeded[r] /\ ~Begun(r, "deadman-disarm")
        => deadman

LEMMA DeadmanStep ==
    ASSUME RunsInv, NoneOutlasts, OneSramBoard, ComposedInv, DeadmanInv,
           [SessionNext]_sessionVars
    PROVE  DeadmanInv'
  <1> SUFFICES ASSUME NEW s \in Runs, request'[s].plan = "sram-program", Critical(s)',
                      2 \in succeeded'[s], ~Begun(s, "deadman-disarm")'
               PROVE  deadman'
    BY DEF DeadmanInv
  <1>0. ASSUME NEW r \in Runs, Acts(r), r # s PROVE deadman'
    <2>1. /\ request' = request /\ attempted' = attempted /\ Critical(s)
          /\ succeeded'[s] = succeeded[s]
      BY <1>0 DEF Acts, Critical
    <2>2. deadman
      BY <2>1 DEF DeadmanInv, Begun, Steps
    <2>3. request[r].plan # "sram-program"
      BY <1>0, <2>1, SoleSram DEF Acts
    <2>4. request[r] \in Request
      BY ExecutorAssumption DEF RunsInv, TypeOK, WellFormed
    <2>5. Steps(r) \in Seq(StepNames \ Arming)
      BY <2>3, <2>4, OnlySramArms DEF Steps
    <2>6. pc[r] \in 1 .. Len(Steps(r))
      BY <1>0, <2>5 DEF Acts, RunsInv, AliveInv, TypeOK
    <2>7. StepName(r) \notin Arming
      BY <2>5, <2>6 DEF StepName
    <2> QED  BY <1>0, <2>2, <2>7 DEF Acts, Armed, Arming
  <1>1. ASSUME NEW r \in Runs, Acts(r), r = s PROVE deadman'
    <2>1. s = r
      BY <1>1
    <2>2. /\ request' = request /\ attempted' = attempted /\ Critical(s) /\ child[s]
          /\ deadman' \in {deadman, Armed(StepName(s))}
      BY <1>1, <2>1 DEF Acts
    <2>3. ~Begun(s, "deadman-disarm")
      BY <2>2 DEF Begun, Steps
    <2>4. pc[s] \in attempted[s] /\ pc[s] <= Len(Steps(s)) /\ pc[s] \in Nat \ {0}
      BY <2>2 DEF RunsInv, AliveInv, TypeOK
    <2>5. pc[s] \in DOMAIN Steps(s)
      BY <2>2, <2>4, SramSteps
    <2>6. StepName(s) # "deadman-disarm"
      BY <2>3, <2>4, <2>5 DEF Begun, StepName
    <2>7. CASE 2 \in succeeded[s]
      <3>1. deadman
        BY <2>2, <2>3, <2>7 DEF DeadmanInv
      <3> QED  BY <2>2, <2>6, <3>1 DEF Armed
    <2>8. CASE 2 \notin succeeded[s]
      <3>1. pc[s] = 2 /\ deadman' = Armed(StepName(s))
        BY <1>1, <2>1, <2>8 DEF Acts
      <3>2. StepName(s) = "deadman-arm"
        BY <2>2, <3>1, SramSteps DEF StepName
      <3> QED  BY <3>1, <3>2 DEF Armed
    <2> QED  BY <2>7, <2>8
  <1>2. CASE Idles
    <2>1. request' = request /\ deadman' = deadman /\ succeeded' = succeeded
          /\ attempted[s] \subseteq attempted'[s]
      BY <1>2 DEF Idles
    <2>2. ~Begun(s, "deadman-disarm")
      BY <2>1 DEF Begun, Steps
    <2>3. Critical(s)
      <3>1. Critical(s) \/ status[s] \in {"idle", "blocked"}
        BY <1>2 DEF Idles
      <3>2. status[s] \in {"idle", "blocked"} => pc[s] = 1
        BY DEF RunsInv, HistoryInv, StartedInv
      <3>3. succeeded[s] \subseteq 1 .. pc[s] - 1
        BY DEF RunsInv, PassedInv
      <3> QED  BY <2>1, <3>1, <3>2, <3>3
    <2> QED  BY <2>1, <2>2, <2>3 DEF DeadmanInv
  <1>3. CASE Suspends
    <2>1. /\ request' = request /\ deadman' = deadman /\ succeeded' = succeeded
          /\ attempted' = attempted /\ status' = status
      BY <1>3 DEF Suspends
    <2> QED  BY <2>1 DEF Begun, Steps, Critical, DeadmanInv
  <1>4. CASE Restarts
    BY <1>4 DEF Restarts
  <1> QED  BY <1>0, <1>1, <1>2, <1>3, <1>4, SessionMoves

\* On a host whose sram-program runs are all for one board, whatever runs for the
\* others, the deadman is armed from the moment a live sram-program run starts to
\* remove the endpoint until it starts to disarm it.
THEOREM RiskyWindowIsCovered ==
    ASSUME NoneOutlasts, OneSramBoard
    PROVE  SessionSpec => []WindowIsCovered
  <1>1. SessionInit => DeadmanInv
    BY DEF SessionInit, Init, DeadmanInv
  <1>2. RunsInv /\ ComposedInv /\ DeadmanInv /\ [SessionNext]_sessionVars => DeadmanInv'
    BY DeadmanStep
  <1>3. RunsInv /\ DeadmanInv => WindowIsCovered
    <2> SUFFICES ASSUME RunsInv, DeadmanInv, NEW r \in Runs,
                        request[r].plan = "sram-program", Critical(r),
                        Begun(r, "remove-endpoint"), ~Begun(r, "deadman-disarm")
                 PROVE  deadman
      BY DEF WindowIsCovered
    <2>1. PICK i \in attempted[r] : i \in DOMAIN Steps(r) /\ Steps(r)[i] = "remove-endpoint"
      BY DEF Begun
    <2>2. i = 3
      <3>1. i \in 1 .. Len(Steps(r)) /\ Len(Steps(r)) \in Nat
        BY <2>1, SramSteps
      <3>2. i \notin 8 .. Len(Steps(r))
        BY <2>1, SramSteps
      <3>3. i \notin {1, 2, 4, 5, 6, 7}
        BY <2>1, SramSteps
      <3> QED  BY <3>1, <3>2, <3>3
    <2>3. 1 .. (i - 1) \subseteq succeeded[r]
      BY <2>1 DEF RunsInv, HistoryInv, StepsNeedTheirPrefix, IsRelease
    <2>4. 2 \in succeeded[r]
      BY <2>2, <2>3
    <2> QED  BY <2>4 DEF DeadmanInv
  <1>4. SessionSpec => []ComposedInv
    <2>1. Init => ComposedInv
      BY DEF Init, ComposedInv, Live, Critical
    <2> QED  BY <2>1, ComposedStep, ExecutorTypes, SessionIsExecutor, PTL DEF Spec
  <1> QED  BY <1>1, <1>2, <1>3, <1>4, RunsInvariant, PTL DEF SessionSpec

------------------------------------------------------------------------------
(* The endpoint. *)

\* Between its removal and its program step a run finds no endpoint.
RemovedInv ==
    \A r \in Runs :
        /\ status[r] = "running" /\ pc[r] > 1
        /\ Steps(r)[pc[r] - 1] = "remove-endpoint"
        => At(r).node = "none"

LEMMA RemovedStep ==
    ASSUME RunsInv, NoneOutlasts, Spelled, OneBoard, CardsInv, RemovedInv,
           [SessionNext]_sessionVars
    PROVE  RemovedInv'
  <1> SUFFICES ASSUME NEW s \in Runs, status'[s] = "running", pc'[s] > 1,
                      Steps(s)'[pc'[s] - 1] = "remove-endpoint"
               PROVE  At(s)'.node = "none"
    BY DEF RemovedInv
  <1>0. pc[s] \in Nat \ {0} /\ Locked /\ Critical(s)'
    BY DEF RunsInv, TypeOK, Locked, Spelled, SysfsSpells, Critical
  <1>1. ASSUME NEW r \in Runs, Acts(r) PROVE At(s)'.node = "none"
    <2> DEFINE q == request[s]  name == StepName(s)
    <2>1. s = r
      BY <1>0, <1>1, SoleActor
    <2>2. pc'[s] = pc[s] + 1 /\ Steps(s)' = Steps(s)
      BY <1>1, <2>1, AdvanceWorks
    <2>3. name = "remove-endpoint"
      BY <1>0, <2>2 DEF StepName
    <2>4. PICK core \in BOOLEAN :
            At(s)' = IF q.board \in Reaches(name, q)
                     THEN Worked(name, q, core, At(s)) ELSE At(s)
      BY <1>1, <2>1, AdvanceWorks
    <2>5. q \in Requests /\ At(s) \in Card
      BY CardAt
    <2> HIDE DEF name
    <2>6. q.board \in Reaches(name, q)
      BY <2>3 DEF Reaches, Holds, Rescans
    <2>7. At(s)' = [At(s) EXCEPT !.node = IF SysfsSpells(q.bdf) THEN "none" ELSE @]
      BY <2>3, <2>4, <2>6 DEF Worked, Holds, Rescans, Flashes
    <2>8. SysfsSpells(q.bdf)
      BY <2>5 DEF Spelled
    <2> QED  BY <2>5, <2>7, <2>8 DEF Card
  <1>2. CASE Idles
    <2>1. status[s] = "running" /\ pc'[s] = pc[s] /\ request' = request /\ cards' = cards
      BY <1>0, <1>2 DEF Idles
    <2> QED  BY <2>1 DEF RemovedInv, At, Steps
  <1>3. CASE Suspends
    <2>1. status[s] = "running" /\ pc' = pc /\ request' = request
      BY <1>3 DEF Suspends
    <2>2. At(s).node = "none"
      BY <2>1 DEF RemovedInv, Steps
    <2>3. PICK b \in Boards : Suspend(b)
      BY <1>3 DEF Suspends
    <2>4. request[s].board \in Boards /\ cards \in [Boards -> Card]
      BY CardAt DEF CardsInv
    <2>5. cards'[request[s].board].node = cards[request[s].board].node
      BY <2>3, <2>4 DEF Suspend, Card
    <2> QED  BY <2>1, <2>2, <2>5 DEF At
  <1>4. CASE Restarts
    BY <1>4 DEF Restarts, Critical
  <1> QED  BY <1>1, <1>2, <1>3, <1>4, SessionMoves

\* Of the steps only the program step makes an endpoint stale.
LEMMA WorkedStale ==
    ASSUME NEW q \in Request, NEW name, NEW core \in BOOLEAN, NEW c \in Card,
           c.node # "stale", name = "program-volatile" => c.node = "none"
    PROVE  Worked(name, q, core, c).node # "stale"
  <1>1. Held(c).node # "stale" /\ Rescanned(c).node # "stale"
    BY DEF Held, PoweredOn, Rescanned, Card
  <1>2. /\ [c EXCEPT !.held = FALSE].node # "stale"
        /\ [c EXCEPT !.core = c.sram = "good"].node # "stale"
        /\ [c EXCEPT !.node = IF SysfsSpells(q.bdf) THEN "none" ELSE @].node # "stale"
        /\ [c EXCEPT !.spi = Image(q)].node # "stale"
    BY DEF Card
  <1>3. CASE name = "program-volatile"
    <2>1. Worked(name, q, core, c).node = "none"
      BY <1>3 DEF Worked, Card, Holds, Rescans, Flashes
    <2> QED  BY <2>1
  <1>4. CASE name # "program-volatile"
    BY <1>1, <1>2, <1>4 DEF Worked
  <1> QED  BY <1>3, <1>4

LEMMA StaleStep ==
    ASSUME RunsInv, NoneOutlasts, Spelled, OneBoard, NoBareBuild, CardsInv, RemovedInv,
           NoStaleEndpoint, [SessionNext]_sessionVars
    PROVE  NoStaleEndpoint'
  <1> SUFFICES ASSUME NEW b \in Boards PROVE cards'[b].node # "stale"
    BY DEF NoStaleEndpoint
  <1>0. cards \in [Boards -> Card] /\ cards[b] \in Card /\ cards[b].node # "stale"
    BY DEF CardsInv, NoStaleEndpoint
  <1>1. ASSUME NEW r \in Runs, Acts(r) PROVE cards'[b].node # "stale"
    <2> DEFINE q == request[r]  name == StepName(r)
    <2>1. q \in Requests /\ q \in Request /\ q.board \in Boards /\ At(r) \in Card
      BY CardAt
    <2>2. ASSUME name = "program-volatile" PROVE At(r).node = "none"
      <3>1. child[r] /\ Critical(r)
        BY <1>1 DEF Acts
      <3>2. status[r] = "running"
        <4>1. status[r] = "cleanup" => IsRelease(name)
          BY <3>1 DEF RunsInv, HistoryInv, CleanupInv, StepName
        <4> QED  BY <2>2, <3>1, <4>1 DEF Critical, IsRelease
      <3>3. pc[r] \in 1 .. Len(Steps(r)) /\ Len(Steps(r)) \in Nat
        BY <3>1, <3>2, RunningRun DEF RunsInv, AliveInv
      <3>4. RemovesFirst(Steps(r))
        BY <2>1, PlanOrder DEF NoBareBuild, Steps
      <3>5. pc[r] > 1 /\ Steps(r)[pc[r] - 1] = "remove-endpoint"
        BY <2>2, <3>3, <3>4 DEF RemovesFirst, StepName
      <3> QED  BY <3>2, <3>5 DEF RemovedInv
    <2>3. ASSUME name = "program-volatile", b = q.board PROVE cards[b].node = "none"
      BY <2>2, <2>3 DEF At
    <2>4. cards' \in Partial(name, q)
      BY <1>1 DEF Acts
    <2> HIDE DEF name, q
    <2>5. CASE cards' \in Completed(name, q)
      <3>1. PICK core \in BOOLEAN : \A x \in Boards :
              cards'[x] = IF x \in Reaches(name, q)
                          THEN Worked(name, q, core, cards[x]) ELSE cards[x]
        BY <2>1, <2>5, Completes
      <3>2. name = "program-volatile" => Reaches(name, q) = {q.board}
        BY DEF Reaches, Holds, Rescans
      <3>3. CASE b \in Reaches(name, q)
        <4>1. Worked(name, q, core, cards[b]).node # "stale"
          BY <1>0, <2>1, <2>3, <3>2, <3>3, WorkedStale
        <4> QED  BY <3>1, <3>3, <4>1
      <3> QED  BY <1>0, <3>1, <3>3
    <2>6. CASE cards' \notin Completed(name, q)
      <3>1. CASE b # q.board
        BY <1>0, <2>1, <2>4, <2>6, <3>1, CutsElsewhere
      <3>2. CASE b = q.board
        <4>1. \/ cards'[b] = cards[b]
              \/ /\ name = "program-volatile"
                 /\ cards'[b] = [cards[b] EXCEPT !.sram = "blank", !.core = FALSE,
                                    !.node = IF @ = "none" THEN @ ELSE "stale"]
              \/ cards'[b] = [cards[b] EXCEPT !.spi = "torn"]
          BY <1>0, <2>1, <2>4, <2>6, <3>2, CutsShort
        <4> QED  BY <1>0, <2>3, <3>2, <4>1 DEF Card
      <3> QED  BY <3>1, <3>2
    <2> QED  BY <2>5, <2>6
  <1>2. CASE Idles
    BY <1>0, <1>2 DEF Idles
  <1>3. CASE Suspends
    <2>1. PICK x \in Boards : Suspend(x)
      BY <1>3 DEF Suspends
    <2> QED  BY <1>0, <2>1 DEF Suspend, Card
  <1>4. CASE Restarts
    <2>1. PICK torn : cards' = [x \in Boards |->
                        Booted(IF x \in torn
                               THEN [cards[x] EXCEPT !.spi = "torn"] ELSE cards[x])]
      BY <1>4 DEF Restarts, HostReboot
    <2>2. [cards[b] EXCEPT !.spi = "torn"] \in Card
      BY <1>0 DEF Card
    <2> QED  BY <1>0, <2>1, <2>2, BootedCard
  <1> QED  BY <1>1, <1>2, <1>3, <1>4, SessionMoves

\* On a host with one board, whose endpoint every request spells as sysfs does,
\* no plan but the bare build-and-program leaves the kernel a device whose
\* configuration changed under it.
THEOREM EndpointsAreNeverStale ==
    ASSUME NoneOutlasts, Spelled, OneBoard, NoBareBuild
    PROVE  SessionSpec => []NoStaleEndpoint
  <1>1. SessionInit => RemovedInv /\ NoStaleEndpoint
    BY DEF SessionInit, Init, RemovedInv, NoStaleEndpoint
  <1>2. SessionInv /\ RemovedInv /\ NoStaleEndpoint /\ [SessionNext]_sessionVars
          => RemovedInv' /\ NoStaleEndpoint'
    BY RemovedStep, StaleStep DEF SessionInv
  <1> QED  BY <1>1, <1>2, SessionInvariant, PTL DEF SessionSpec

------------------------------------------------------------------------------
(* The way of an sram-program run's card: without an endpoint from the     *)
(* removal to the rescan, with the given image from the program step on,   *)
(* or no power, with a register block that answers from the bus reset on.  *)

LiveCard(i, q, c) ==
    /\ i \in 4 .. 6 => c.node = "none"
    /\ i > 4 => c.sram \in {Image(q), "off"}
    /\ i > 5 => c.core = (c.sram = "good")
    /\ i = 7 => c.node = "none" \/ (c.node = "live" /\ c.sram = "good")
    /\ i > 7 => c.node = "live" /\ c.sram = "good"

LiveInv ==
    \A r \in Runs :
        status[r] = "running" /\ request[r].plan = "sram-program"
            => LiveCard(pc[r], request[r], At(r))

\* Each step in turn.
LEMMA LiveAdvance ==
    ASSUME RunsInv, NoneOutlasts, Spelled, OneBoard, IdsApart, CardsInv, LiveInv,
           NEW r \in Runs, Acts(r), status'[r] = "running",
           request[r].plan = "sram-program"
    PROVE  LiveCard(pc[r] + 1, request[r], At(r)')
  <1> DEFINE q == request[r]  name == StepName(r)  c == At(r)  d == At(r)'
  <1> SUFFICES LiveCard(pc[r] + 1, q, d)
    OBVIOUS
  <1>1. /\ status[r] = "running" /\ pc[r] <= Len(Steps(r))
        /\ CanSucceed(name, q)
    BY AdvanceWorks
  <1>2. PICK core \in BOOLEAN :
          At(r)' = IF q.board \in Reaches(name, q) THEN Worked(name, q, core, c) ELSE c
    BY AdvanceWorks
  <1>3. q \in Requests /\ q.board \in Boards /\ c \in Card /\ c = cards[q.board]
    BY CardAt DEF At
  <1>4. LiveCard(pc[r], q, c)
    BY <1>1 DEF LiveInv
  <1>5. pc[r] \in Nat \ {0} /\ Len(Steps(r)) \in Nat
    BY SramSteps DEF RunsInv, TypeOK
  <1>6. CASE pc[r] < 3
    BY <1>5, <1>6 DEF LiveCard
  <1>7. CASE pc[r] = 3
    <2>1. name = "remove-endpoint"
      BY <1>7, SramSteps DEF StepName
    <2> HIDE DEF name
    <2>2. q.board \in Reaches(name, q)
      BY <2>1 DEF Reaches, Holds, Rescans
    <2>3. d = [c EXCEPT !.node = IF SysfsSpells(q.bdf) THEN "none" ELSE @]
      BY <1>2, <2>1, <2>2 DEF Worked, Holds, Rescans, Flashes
    <2>4. SysfsSpells(q.bdf)
      BY <1>3 DEF Spelled
    <2>5. d.node = "none"
      BY <1>3, <2>3, <2>4 DEF Card
    <2> HIDE DEF d, q
    <2> QED  BY <1>7, <2>5 DEF LiveCard
  <1>8. CASE pc[r] = 4
    <2>1. name = "program-volatile"
      BY <1>8, SramSteps DEF StepName
    <2> HIDE DEF name
    <2>2. q.board \in Reaches(name, q)
      BY <2>1 DEF Reaches, Holds, Rescans
    <2>3. d = [c EXCEPT !.sram = Image(q), !.core = core,
                        !.node = IF @ = "none" THEN @ ELSE "stale"]
      BY <1>2, <2>1, <2>2 DEF Worked, Holds, Rescans, Flashes
    <2>4. c.node = "none"
      BY <1>4, <1>8 DEF LiveCard
    <2>5. d.node = "none" /\ d.sram = Image(q)
      BY <1>3, <2>3, <2>4 DEF Card
    <2> HIDE DEF d, q
    <2> QED  BY <1>8, <2>5 DEF LiveCard
  <1>9. CASE pc[r] = 5
    <2>1. name = "secondary-bus-reset"
      BY <1>9, SramSteps DEF StepName
    <2> HIDE DEF name
    <2>2. q.board \in Reaches(name, q)
      BY <2>1 DEF Reaches, Holds, Rescans
    <2>3. d = [c EXCEPT !.core = c.sram = "good"]
      BY <1>2, <2>1, <2>2 DEF Worked, Holds, Rescans, Flashes
    <2>4. c.node = "none" /\ c.sram \in {Image(q), "off"}
      BY <1>4, <1>9 DEF LiveCard
    <2>5. d.node = "none" /\ d.sram = c.sram /\ d.core = (c.sram = "good")
      BY <1>3, <2>3, <2>4 DEF Card
    <2> HIDE DEF d, q, c
    <2> QED  BY <1>9, <2>4, <2>5 DEF LiveCard
  <1>10. CASE pc[r] = 6
    <2>1. name = "pci-global-rescan-settle"
      BY <1>10, SramSteps DEF StepName
    <2> HIDE DEF name
    <2>2. q.board \in Reaches(name, q)
      BY <1>3, <2>1 DEF Reaches, Holds, Rescans
    <2>3. d = Rescanned(c)
      BY <1>2, <2>1, <2>2 DEF Worked, Holds, Rescans, Flashes
    <2>4. c.node = "none" /\ c.sram \in {Image(q), "off"} /\ c.core = (c.sram = "good")
      BY <1>4, <1>10 DEF LiveCard
    <2>5. /\ d.node = "none" \/ (d.node = "live" /\ c.sram = "good")
          /\ d.sram = c.sram /\ d.core = c.core
      BY <1>3, <2>3, <2>4 DEF Card, Rescanned
    <2> HIDE DEF d, q, c
    <2> QED  BY <1>10, <2>4, <2>5 DEF LiveCard
  <1>11. CASE pc[r] = 7
    <2>1. name = "lspci-endpoint"
      BY <1>11, SramSteps DEF StepName
    <2> HIDE DEF name
    <2>2. /\ c.sram \in {Image(q), "off"} /\ c.core = (c.sram = "good")
          /\ c.node = "none" \/ (c.node = "live" /\ c.sram = "good")
      BY <1>4, <1>11 DEF LiveCard
    <2>3. Twins[q.board] = {q.board}
      BY <1>3 DEF IdsApart
    <2>4. Rescanned(c).node # "none"
      BY <1>1, <1>3, <2>1, <2>3 DEF CanSucceed
    <2>5. c.node = "live" \/ (c.node = "none" /\ c.sram = "good")
      BY <1>3, <2>2, <2>4 DEF Rescanned, Card
    <2>6. c.node = "none" => q.board \in Reaches(name, q)
      BY <1>3, <2>1, <2>3 DEF Reaches, Holds, Rescans
    <2>7. Worked(name, q, core, c) = Rescanned(c)
      BY <2>1 DEF Worked, Holds, Rescans, Flashes
    <2>8. /\ Rescanned(c).node = "live" /\ Rescanned(c).sram = c.sram
          /\ Rescanned(c).core = c.core
      BY <1>3, <2>5 DEF Rescanned, Card
    <2>9. d.node = "live" /\ d.sram = c.sram /\ d.core = c.core
      BY <1>2, <2>5, <2>6, <2>7, <2>8
    <2> HIDE DEF d, q, c
    <2> QED  BY <1>11, <2>2, <2>5, <2>9 DEF LiveCard
  <1>12. CASE pc[r] > 7
    <2>1. name \in {"verify-device", "deadman-disarm"}
      BY <1>1, <1>5, <1>12, SramSteps DEF StepName
    <2> HIDE DEF name
    <2>2. Worked(name, q, core, c) = c
      BY <2>1 DEF Worked, Holds, Rescans, Flashes
    <2>3. d = c
      BY <1>2, <2>2
    <2> HIDE DEF d, q, c
    <2> QED  BY <1>4, <1>5, <1>12, <2>3 DEF LiveCard
  <1> QED  BY <1>5, <1>6, <1>7, <1>8, <1>9, <1>10, <1>11, <1>12

LEMMA LiveStep ==
    ASSUME RunsInv, NoneOutlasts, Spelled, OneBoard, IdsApart, CardsInv, LiveInv,
           [SessionNext]_sessionVars
    PROVE  LiveInv'
  <1> SUFFICES ASSUME NEW s \in Runs, status'[s] = "running",
                      request'[s].plan = "sram-program"
               PROVE  LiveCard(pc'[s], request'[s], At(s)')
    BY DEF LiveInv
  <1>0. pc[s] \in Nat \ {0} /\ Locked /\ Critical(s)'
    BY DEF RunsInv, TypeOK, Locked, Spelled, SysfsSpells, Critical
  <1>1. ASSUME NEW r \in Runs, Acts(r) PROVE LiveCard(pc'[s], request'[s], At(s)')
    <2>1. s = r
      BY <1>0, <1>1, SoleActor
    <2>2. request' = request /\ pc'[s] = pc[s] + 1
      BY <1>1, <2>1, AdvanceWorks DEF Acts
    <2>3. LiveCard(pc[s] + 1, request[s], At(s)')
      BY <1>1, <2>1, <2>2, LiveAdvance
    <2> QED  BY <2>2, <2>3
  <1>2. CASE Idles
    <2>1. request' = request /\ cards' = cards
      BY <1>2 DEF Idles
    <2>2. CASE pc'[s] = 1
      BY <2>2 DEF LiveCard
    <2>3. CASE status[s] = "running" /\ pc'[s] = pc[s]
      BY <2>1, <2>3 DEF LiveInv, At
    <2> QED  BY <1>2, <2>2, <2>3 DEF Idles
  <1>3. CASE Suspends
    <2>1. status[s] = "running" /\ pc' = pc /\ request' = request
      BY <1>3 DEF Suspends
    <2>2. LiveCard(pc[s], request[s], At(s))
      BY <2>1 DEF LiveInv
    <2>3. PICK b \in Boards : Suspend(b)
      BY <1>3 DEF Suspends
    <2>4. request[s].board \in Boards /\ cards \in [Boards -> Card] /\ At(s) \in Card
      BY CardAt DEF CardsInv
    <2>5. CASE request[s].board # b
      <3>1. cards'[request[s].board] = cards[request[s].board]
        BY <2>3, <2>4, <2>5 DEF Suspend
      <3> QED  BY <2>1, <2>2, <3>1 DEF At
    <2>6. CASE request[s].board = b
      <3>1. At(s)' = [At(s) EXCEPT !.sram = "off", !.core = FALSE] /\ At(s).node = "none"
        BY <2>1, <2>3, <2>4, <2>6 DEF Suspend, At
      <3>2. At(s)'.sram = "off" /\ At(s)'.core = FALSE /\ At(s)'.node = "none"
        BY <2>4, <3>1 DEF Card
      <3>3. ~(pc[s] > 7)
        BY <2>2, <3>1 DEF LiveCard
      <3> QED  BY <1>0, <2>1, <3>2, <3>3 DEF LiveCard
    <2> QED  BY <2>5, <2>6
  <1>4. CASE Restarts
    BY <1>4 DEF Restarts, Critical
  <1> QED  BY <1>1, <1>2, <1>3, <1>4, SessionMoves

\* On a host with one board, whose id no other device has and whose endpoint
\* every request spells as sysfs does, an sram-program run reports success only
\* of a card that runs the given image, is enumerated and answers.
THEOREM SuccessMeansAlive ==
    ASSUME NoneOutlasts, Spelled, OneBoard, IdsApart
    PROVE  SessionSpec => SuccessIsAlive
  <1>1. SessionInit => LiveInv
    BY DEF SessionInit, Init, LiveInv
  <1>2. SessionInv /\ LiveInv /\ [SessionNext]_sessionVars => LiveInv'
    BY LiveStep DEF SessionInv
  <1>3. ASSUME SessionInv, LiveInv, [SessionNext]_sessionVars,
               NEW r \in Runs, request[r].plan = "sram-program",
               status[r] = "running", status'[r] = "done"
        PROVE  /\ At(r).sram = Image(request[r])
               /\ At(r).node = "live" /\ At(r).core
    <2>1. [Next]_vars
      BY <1>3, SessionSteps
    <2>2. Return(r)
      <3> USE DEF SessionInv, RunsInv, TypeOK
      <3>1. Next /\ ~Reboot
        BY <1>3, <2>1 DEF vars, Reboot
      <3>2. PICK s \in Runs : Step(s)
        BY <3>1 DEF Next
      <3>3. ~(Refuse(s) \/ Invoke(s) \/ Acquire(s) \/ StartStep(s) \/ SkipStep(s))
        BY <1>3 DEF Refuse, Invoke, Acquire, StartStep, SkipStep
      <3>4. ~(StepSucceeds(s) \/ StepFails(s) \/ CleanupStepEnds(s, TRUE)
                \/ CleanupStepEnds(s, FALSE))
        BY <1>3 DEF StepSucceeds, StepFails, CleanupStepEnds
      <3>5. ~(Interrupt(s) \/ OrphanEnds(s))
        BY <1>3 DEF Interrupt, OrphanEnds
      <3>6. Return(s)
        BY <3>2, <3>3, <3>4, <3>5 DEF Step
      <3> QED  BY <1>3, <3>6 DEF Return
    <2>3. pc[r] > 7
      <3>1. pc[r] \in Nat /\ Len(Steps(r)) \in Nat /\ Len(Steps(r)) > 7
        BY <1>3, SramSteps DEF SessionInv, RunsInv, TypeOK
      <3> QED  BY <2>2, <3>1 DEF Return
    <2>4. pc[r] \in Nat
      BY <1>3 DEF SessionInv, RunsInv, TypeOK
    <2>5. LiveCard(pc[r], request[r], At(r))
      BY <1>3 DEF LiveInv
    <2>6. /\ At(r).sram \in {Image(request[r]), "off"} /\ At(r).core = (At(r).sram = "good")
          /\ At(r).node = "live" /\ At(r).sram = "good"
      BY <2>3, <2>4, <2>5 DEF LiveCard
    <2> QED  BY <2>6
  <1>4. SessionInv /\ LiveInv /\ [SessionNext]_sessionVars =>
          \A r \in Runs :
            /\ request[r].plan = "sram-program"
            /\ status[r] = "running" /\ status'[r] = "done"
            => LET c == cards[request[r].board]
               IN  c.sram = Image(request[r]) /\ c.node = "live" /\ c.core
    BY <1>3 DEF At
  <1> QED  BY <1>1, <1>2, <1>4, SessionInvariant, PTL DEF SessionSpec, SuccessIsAlive
===============================================================================
