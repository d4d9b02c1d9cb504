-------------------------- MODULE PowerSupplies --------------------------
(***************************************************************************)
(* The power supply facade, InstroPSU, and its drivers.                    *)
(*                                                                         *)
(* The vendors differ in what they support, in what they refuse before     *)
(* sending anything, and in how a command and the reading of the error     *)
(* queue that tells whether it was accepted are kept together.             *)
(***************************************************************************)
EXTENDS Programs

Setpoints == {"set_voltage", "set_current_limit", "output_enable"}
Readings == {"get_voltage", "get_current", "get_output_status"}
Readbacks == {"get_voltage_setpoint", "get_current_setpoint"}
Levels == {"set_overvoltage_protection_level", "set_overcurrent_protection_level"}
LevelReadings == {"get_overvoltage_protection_level", "get_overcurrent_protection_level"}
Enables == {"set_overvoltage_protection_enabled", "set_overcurrent_protection_enabled"}
EnableReadings == {"get_overvoltage_protection_enabled", "get_overcurrent_protection_enabled"}
Delays == {"set_overvoltage_protection_delay", "get_overvoltage_protection_delay"}
Trips == {"get_overvoltage_protection_tripped", "get_overcurrent_protection_tripped"}
RemoteSense == {"set_remote_sense_enabled", "get_remote_sense_enabled"}

Protection == Levels \cup LevelReadings \cup Enables \cup EnableReadings \cup Delays

\* The methods of PSUDriverBase that are not abstract: they refuse.
Optional == Readbacks \cup Trips \cup {"get_operating_mode", "clear_protection"}

PsuMethods == Setpoints \cup Readings \cup Protection \cup RemoteSense \cup Optional

-----------------------------------------------------------------------------
(* The drivers.                                                            *)

\* A range known from open() is tested before anything is sent.
RigolDP800Settings ==
    On({"set_voltage", "set_current_limit"} \cup Levels, <<"args">> \o Checked(<<"write">>))
    @@ On({"output_enable", "set_remote_sense_enabled"} \cup Enables, Checked(<<"write">>))
    @@ On({"clear_protection"}, Checked(<<"write">>) \o Checked(<<"write">>))
    @@ On(Delays, Refused)

\* open() asks for the model, unless an earlier open() learnt it, and for the
\* limits of each channel: of these questions the model keeps two.
RigolDP800 ==
    LET limits == <<"args">> \o Checked(<<"query">>) \o Checked(<<"query">>)
    IN
    OneOf({"open"}, {Checked(<<"query">>) \o limits, limits})
    @@ On(Readings \cup Readbacks \cup LevelReadings \cup EnableReadings, Checked(<<"query">>))
    @@ On({"get_operating_mode", "get_remote_sense_enabled"} \cup Trips,
          Checked(<<"query">>) \o <<"args">>)
    @@ RigolDP800Settings

SiglentSPD3303 ==
    On(Setpoints, <<"args">> \o Checked(<<"write">>))
    @@ On(Readings \cup Readbacks, <<"args">> \o Checked(<<"query">>))
    @@ On({"query_status"}, Checked(<<"query">>))
    @@ On(Protection \cup RemoteSense \cup Trips \cup {"clear_protection"}, Refused)

BK9115 ==
    On(Setpoints \cup {"set_overvoltage_protection_level", "set_overvoltage_protection_enabled",
                       "set_overvoltage_protection_delay"}, <<"args">> \o Checked(<<"write">>))
    @@ On(Readings \cup {"get_overvoltage_protection_level", "get_overvoltage_protection_enabled",
                         "get_overvoltage_protection_delay"}, <<"args">> \o Checked(<<"query">>))
    @@ On({"set_overcurrent_protection_level", "get_overcurrent_protection_level",
           "set_overcurrent_protection_enabled", "get_overcurrent_protection_enabled",
           "get_overcurrent_protection_tripped"} \cup RemoteSense, <<"args">> \o Refused)

KeysightE36100 ==
    On(Setpoints \cup Enables \cup {"set_overvoltage_protection_level", "set_remote_sense_enabled"},
       Checked(<<"write">>))
    @@ On(Readings \cup EnableReadings \cup {"get_overvoltage_protection_level",
                                             "get_remote_sense_enabled"}, Checked(<<"query">>))
    @@ On(Delays \cup {"set_overcurrent_protection_level", "get_overcurrent_protection_level"}, Refused)

TDKLambdaGenesys ==
    On(Setpoints \cup {"set_overvoltage_protection_level", "set_overcurrent_protection_enabled"},
       <<"args">> \o Checked(<<"write">>))
    @@ On(Readings \cup {"get_overvoltage_protection_level", "get_overcurrent_protection_enabled"},
          <<"args">> \o Checked(<<"query">>))
    @@ On({"set_overvoltage_protection_enabled", "get_overvoltage_protection_enabled",
           "set_overcurrent_protection_level", "get_overcurrent_protection_level"}
          \cup Delays \cup RemoteSense, <<"args">> \o Refused)

\* Two channels; questions are not checked, and the status is three lines.
GWInstekGPD3303 ==
    On(Setpoints, <<"args">> \o Checked(<<"write">>))
    @@ On({"get_voltage", "get_current"} \cup Readbacks, <<"args", "query">>)
    @@ On({"get_output_status", "get_operating_mode"},
          <<"args">> \o Section(<<"query", "query", "query">>) \o <<"args">>)
    @@ On(Protection \cup RemoteSense \cup Trips \cup {"clear_protection"}, Refused)

\* The instrument works on the channel selected last.  The driver remembers
\* which it selected and selects again only for another one.
BK914X ==
    On(Setpoints \cup Levels \cup {"set_overcurrent_protection_enabled", "set_remote_sense_enabled"}
       \cup Readings \cup LevelReadings
       \cup {"get_overcurrent_protection_enabled", "get_remote_sense_enabled"},
       Checked(<<"reselect", "act">>))

BK914XRefusals ==
    On({"set_overvoltage_protection_enabled", "get_overvoltage_protection_enabled"} \cup Delays, Refused)

SimulatedPSU ==
    On(Setpoints \cup Levels \cup Enables \cup {"set_remote_sense_enabled"}, Checked(<<"write">>))
    @@ On(Readings \cup Readbacks \cup LevelReadings \cup EnableReadings
          \cup {"get_operating_mode", "get_remote_sense_enabled"}, Checked(<<"query">>))
    @@ On(Delays, Refused)

\* A supply of software: nothing is sent, and a channel that is not there or
\* a value out of range is refused.
VirtualPSU == On(PsuMethods, <<"args">>)

\* No section, and an error check that does nothing: the instrument has no
\* error queue to read, so a refused command passes unnoticed.
MatrixWPS300S ==
    On(Setpoints \cup Levels \cup Enables, <<"args", "write">>)
    @@ On(Readings \cup LevelReadings \cup EnableReadings, <<"args", "query">>)
    @@ On(Delays \cup RemoteSense, <<"args">> \o Refused)

\* Opening the device takes its remote lock and asks who holds it; if that
\* fails, and when the device is closed, the lock is given back, without
\* regard to failures, before the transport is closed.
EAPSB10000Visa ==
    On({"open"}, <<"try">> \o Section(<<"write", "check", "query", "args">>) \o <<"undo", "settle">>)
    @@ On({"close"}, <<"hush">>)

\* The two quadrants own the device together (_views): an open() that finds a
\* quadrant open already, and a close() that leaves one open, do nothing on
\* the line.  Which quadrants are open is left to chance: any open() and any
\* close() may be one of these.
HeldAlready == {<<"ready", "return">>}
HeldStill == {<<"return">>}

EAPSB10000VisaSource ==
    On(Setpoints \cup Levels, <<"args">> \o Checked(<<"write">>))
    @@ On(Readings \cup LevelReadings, <<"args">> \o Checked(<<"query">>))
    @@ On(Enables \cup EnableReadings \cup Delays \cup RemoteSense, Refused)

-----------------------------------------------------------------------------
(* The facade.                                                             *)

\* _execute_command, _execute_measurement and clear_protection.
PsuCalls(driver) == {Guarded(program) : program \in Of(driver, PsuMethods)}

\* apply(): the output is switched off first, or switched on last, and the
\* whole sequence holds the resource lock.
Apply(driver) ==
    LET limit == Of(driver, {"set_current_limit"})
        level == Of(driver, {"set_voltage"})
        output == Of(driver, {"output_enable"})
        steps == Then(output, Then(limit, level)) \cup Then(limit, Then(level, output))
    IN  {Guarded(<<"half">> \o p \o <<"whole">>) : p \in steps}
=============================================================================
