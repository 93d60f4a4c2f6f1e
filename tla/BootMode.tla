------------------------------ MODULE BootMode ------------------------------
(***************************************************************************)
(* What the bootloader does after a reset: check_dfu_mode() and the end of *)
(* main() in main.c, with the three places that outlive a reset: GPREGRET, *)
(* the word at DFU_DBL_RESET_MEM and the pin bit of RESETREAS.  An         *)
(* application is what these functions see of it: is it valid, and does    *)
(* the word of APP_ASKS_FOR_SINGLE_TAP_RESET() hold its magic?  Building   *)
(* with DEFAULT_TO_OTA_DFU, off by default, is not modelled.               *)
(***************************************************************************)
VARIABLES
  phase,   \* "off", "boot", "delay" (of DFU_DBL_RESET_DELAY), "dfu" or "app"
  gpregret, \* GPREGRET[0]
  dbl,     \* *dbl_reset_mem
  pin,     \* the RESETPIN bit of RESETREAS
  app,     \* the content of bank 0
  button,  \* BUTTON_DFU is held
  link,    \* _ota_dfu
  wasConn, \* _ota_was_connected
  timer,   \* the startup timer runs and no packet was received
  asked    \* history: what this boot was asked for, and in which phase

registers == <<gpregret, dbl, pin>>
session == <<link, wasConn, timer>>
vars == <<phase, registers, app, button, session, asked>>

App == [valid : BOOLEAN, tap : BOOLEAN]
OtaMagic == {"OTA_APPJUM", "OTA_RESET"}
Magic == OtaMagic \cup {"SERIAL_ONLY", "SKIP"}

Init ==
  /\ phase = "off" /\ app \in App
  /\ gpregret = "zero" /\ dbl = "junk" /\ pin = FALSE /\ button = FALSE
  /\ link = FALSE /\ wasConn = FALSE /\ timer = FALSE
  /\ asked = [what |-> "power", in |-> "off"]

-----------------------------------------------------------------------------
(* Resets.                                                                 *)

Restart(what) ==
  /\ phase' = "boot" /\ button' \in BOOLEAN
  /\ link' = FALSE /\ wasConn' = FALSE /\ timer' = FALSE
  /\ asked' = [what |-> what, in |-> phase]

PowerOn ==
  /\ phase = "off"
  /\ gpregret' = "zero" /\ dbl' = "junk" /\ pin' = FALSE
  /\ Restart("power") /\ app' = app

PowerOff ==
  /\ phase # "off" /\ phase' = "off"
  /\ UNCHANGED <<registers, app, button, session, asked>>

\* A tap on the reset button; in "boot" no one is that fast.
Tap ==
  /\ phase \in {"delay", "dfu", "app"}
  /\ pin' = TRUE
  /\ Restart("tap") /\ UNCHANGED <<gpregret, dbl, app>>

\* A fault or the watchdog.
SoftReset ==
  /\ phase \in {"dfu", "app"}
  /\ Restart("reset") /\ UNCHANGED <<registers, app>>

\* The application writes GPREGRET and resets.
Request(magic) ==
  /\ phase = "app"
  /\ gpregret' = magic
  /\ Restart(magic) /\ UNCHANGED <<dbl, pin, app>>

-----------------------------------------------------------------------------
(* check_dfu_mode().                                                       *)

OtaDfu == gpregret \in OtaMagic
SerialOnly == gpregret = "SERIAL_ONLY"
DoubleTap == dbl = "MAGIC" /\ pin
DfuStart == OtaDfu \/ SerialOnly \/ DoubleTap
NeverCleared == gpregret                         \* mutant
Cleared == IF DfuStart \/ gpregret = "SKIP" THEN "zero" ELSE gpregret
JustStartApp == app.valid /\ ~DfuStart /\ ~button /\ dbl = "APP"
EntersDfu == DfuStart \/ button \/ (~JustStartApp /\ app.tap)
\* What the word says while the DFU mode runs.
DblMark == IF app.tap THEN "APP" ELSE "zero"

\* bootloader_app_start().  The application clears RESETREAS: "it should be
\* cleared by application upon init()".
StartApp ==
  /\ phase' = "app" /\ dbl' = "zero" /\ pin' = FALSE
  /\ UNCHANGED <<app, button, session, asked>>

EnterDfu ==
  /\ phase' = "dfu" /\ dbl' = DblMark
  /\ link' = OtaDfu /\ wasConn' = FALSE
  /\ timer' = (~OtaDfu /\ (app.tap \/ SerialOnly))
  /\ UNCHANGED <<pin, app, button, asked>>

\* GPREGRET says SKIP: not even the double reset is looked at.
Skip ==
  /\ phase = "boot" /\ gpregret = "SKIP"
  /\ gpregret' = Cleared
  /\ IF app.valid THEN StartApp
     ELSE Restart("reset") /\ UNCHANGED <<dbl, pin, app>>

Check ==
  /\ phase = "boot" /\ gpregret # "SKIP"
  /\ gpregret' = Cleared
  /\ \/ /\ EntersDfu \/ ~app.valid
        /\ EnterDfu
     \/ /\ ~EntersDfu /\ app.valid
        /\ IF pin /\ ~JustStartApp
             THEN /\ phase' = "delay" /\ dbl' = "MAGIC"
                  /\ UNCHANGED <<pin, app, button, session, asked>>
             ELSE StartApp

\* No second tap within DFU_DBL_RESET_DELAY.
DelayOver ==
  /\ phase = "delay"
  /\ StartApp /\ gpregret' = gpregret

-----------------------------------------------------------------------------
(* The DFU mode, as far as main() sees it.                                 *)

Connect ==
  /\ phase = "dfu" /\ link
  /\ wasConn' = TRUE
  /\ UNCHANGED <<phase, registers, app, button, link, timer, asked>>

\* A packet of a serial host: dfu_startup_packet_received.
Packet ==
  /\ phase = "dfu" /\ ~link
  /\ timer' = FALSE
  /\ UNCHANGED <<phase, registers, app, button, link, wasConn, asked>>

\* An update begins: the bank is erased, and written again in part.
Erase ==
  /\ phase = "dfu" /\ (link => wasConn) /\ (~link => ~timer)
  /\ app' \in [valid : {FALSE}, tap : BOOLEAN]
  /\ UNCHANGED <<phase, registers, button, session, asked>>

GpregretAtReset == IF wasConn THEN "OTA_RESET" ELSE gpregret

\* wait_for_events() has returned; a is then in the bank.  A host that breaks
\* off an update leaves no valid application.
End(a) ==
  /\ app' = a
  /\ IF a.valid
       THEN /\ phase' = "app" /\ dbl' = "zero" /\ pin' = FALSE
            /\ UNCHANGED <<gpregret, button, session, asked>>
       ELSE /\ gpregret' = GpregretAtReset
            /\ Restart(IF wasConn THEN "OTA_RESET" ELSE "reset")
            /\ UNCHANGED <<dbl, pin>>

StartupTimeout == phase = "dfu" /\ timer /\ End(app)
\* DFU timeout, or the reset command of a host.
BreakOff == phase = "dfu" /\ End(app)
Update ==
  /\ phase = "dfu" /\ ~app.valid
  /\ \E t \in BOOLEAN : End([valid |-> TRUE, tap |-> t])

Next ==
  \/ PowerOn \/ PowerOff \/ Tap \/ SoftReset \/ (\E m \in Magic : Request(m))
  \/ Skip \/ Check \/ DelayOver
  \/ Connect \/ Packet \/ Erase \/ StartupTimeout \/ BreakOff \/ Update

Spec == Init /\ [][Next]_vars

-----------------------------------------------------------------------------
(* Properties.                                                             *)

TypeOK ==
  /\ phase \in {"off", "boot", "delay", "dfu", "app"}
  /\ gpregret \in Magic \cup {"zero"} /\ dbl \in {"junk", "zero", "MAGIC", "APP"}
  /\ app \in App /\ {pin, button, link, wasConn, timer} \subseteq BOOLEAN

\* What the user and the application have asked for, with no regard to the
\* registers: by a request, a second tap within the delay, the button, or a
\* reset of an application that wants the DFU mode at each of its resets, where
\* a reset in the DFU mode gives it its turn.
WantsDfu ==
  \/ asked.what \in OtaMagic \cup {"SERIAL_ONLY"}
  \/ asked = [what |-> "tap", in |-> "delay"]
  \/ asked.what # "SKIP" /\ (button \/ (app.tap /\ asked.in # "dfu"))

\* Every boot does what it was asked for, and nothing that an earlier boot was
\* asked for: what is left in GPREGRET, RESETREAS and the word at
\* DFU_DBL_RESET_MEM neither starts the DFU mode nor hides the application, the
\* link is the one of the request, and an update over the air that was broken off
\* goes on over the air.
DecidesAsAsked ==
  [][(phase \in {"boot", "delay"} /\ phase' \in {"dfu", "app"}) =>
       /\ (phase' = "dfu") <=> (WantsDfu \/ ~app.valid)
       /\ (phase' = "dfu") => (link' <=> (asked.what \in OtaMagic))]_vars
=============================================================================
