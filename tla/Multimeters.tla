---------------------------- MODULE Multimeters ----------------------------
(***************************************************************************)
(* The multimeter facade, InstroDMM, and its drivers.                      *)
(*                                                                         *)
(* A multimeter measures in the function it was last set to.  The facade   *)
(* remembers that function (_measurement_config, whose function is label   *)
(* in module Bench), sets one only when it is not in force already and     *)
(* names its readings after it.  Some drivers name the function with every *)
(* reading ("measure", or "select" and "act" in one section); others read  *)
(* in whatever function is in force ("sample").                            *)
(***************************************************************************)
EXTENDS Programs

Measures == {"measure_dc_voltage", "measure_dc_current", "measure_resistance",
             "measure_ac_voltage", "measure_ac_current", "measure_four_wire_resistance"}
AcMeasures == {"measure_ac_voltage", "measure_ac_current"}

DcRanges == {"set_dc_voltage_range", "set_dc_current_range", "set_two_wire_resistance_range"}
OtherRanges == {"set_ac_voltage_range", "set_ac_current_range", "set_four_wire_resistance_range"}
Ranges == DcRanges \cup OtherRanges

DcApertures == {"set_dc_voltage_nplc", "set_dc_current_nplc", "set_two_wire_resistance_nplc"}
AcApertures == {"set_ac_voltage_nplc", "set_ac_current_nplc"}
Apertures == DcApertures \cup AcApertures \cup {"set_four_wire_resistance_nplc"}

-----------------------------------------------------------------------------
(* The drivers.                                                            *)

\* MEAS:...? both sets the function and reads; a range and a resolution are
\* kept by the driver and travel with it.
Agilent34401A ==
    On({"open"}, <<"clear", "write", "check">>)
    @@ On({"set_measurement_function"}, <<"args">> \o Checked(<<"measure">>))
    @@ On(Measures, Checked(<<"measure">>))
    @@ On({"set_digits"}, <<"args">>)
    @@ On(Ranges, <<>>)

Keysight34461A ==
    On({"open"}, Section(<<"clear", "check">>))
    @@ On({"set_measurement_function"}, Checked(<<"select">>))
    @@ On(Ranges \cup (Apertures \ AcApertures), Checked(<<"write">>))
    @@ On(Measures, Checked(<<"select", "act">>))
    @@ On({"set_digits"} \cup AcApertures, Refused)

SimulatedDMM ==
    On({"set_measurement_function"}, <<"args">> \o Checked(<<"select">>))
    @@ On(Measures \ {"measure_four_wire_resistance"}, Checked(<<"measure">>))

\* Setting the function is five commands, of which the one that sets it is
\* neither the first nor the last.  READ? reads in the function in force.
\* close() switches the output off if it finds the transport open; what that
\* raises leaves close() when the transport has been closed.
Keithley2400 ==
    On({"open"}, Section(<<"clear", "check">>))
    @@ OneOf({"close"}, {<<"write">>, <<>>})
    @@ OneOf({"set_measurement_function"},
             {Checked(<<"write", "select", "write", "write", "write">>),
              Checked(<<"select", "write", "write">>),
              Section(Refused)})
    @@ On(DcApertures, Checked(<<"write">>))
    @@ OneOf(DcRanges, {Checked(<<"write">>), Checked(<<"write", "write">>)})
    @@ On({"measure_dc_voltage", "measure_dc_current", "measure_resistance"},
          Checked(<<"write", "sample">>))
    @@ On({"set_digits"} \cup AcMeasures, Refused)

Keithley2750 ==
    On({"open"}, Section(<<"clear", "write", "write", "check">>))
    @@ On({"set_measurement_function"}, <<"args">> \o Checked(<<"select">>))
    @@ On(Apertures \ AcApertures, Checked(<<"write">>))
    @@ On(AcApertures, Checked(<<"write", "write">>))
    @@ OneOf(Ranges, {Checked(<<"write">>), Checked(<<"write", "write">>)})
    @@ On(Measures, Checked(<<"sample">>))
    @@ On({"set_digits", "set_aperture_seconds"}, Refused)

Fluke8845A == Agilent34401A

\* A multimeter of software: nothing is sent, nothing refused.
VirtualDMM ==
    On({"set_measurement_function", "set_digits", "set_aperture_seconds"}
       \cup Ranges \cup Apertures \cup Measures, <<>>)

-----------------------------------------------------------------------------
(* The facade.                                                             *)

SetFunction(driver) ==
    {<<"take">> \o program \o <<"adopt", "drop", "return">> :
        program \in Of(driver, {"set_measurement_function"})}

\* set_digits, set_aperture_seconds, set_aperture_nplc and set_range: the
\* driver is called under the lock, and the memory, function included, is
\* copied and written back after it.
Adjust(driver) ==
    {<<"follow", "take">> \o program \o <<"drop", "follow", "adopt", "return">> :
        program \in Of(driver, {"set_digits", "set_aperture_seconds"} \cup Apertures \cup Ranges)}

\* read(): in the function the facade remembers, and named after the one it
\* remembers when the lock has been let go.
Read(driver) ==
    {<<"take", "follow">> \o program \o <<"drop", "name", "return">> :
        program \in Of(driver, Measures)}

\* _set_function_and_read, for read_dc_voltage and its like: the function is
\* set first, unless the facade believes it in force.
ReadIn(driver) ==
    {Guarded(<<"ensure">> \o setter \o <<"adopt">> \o program) :
        setter \in Of(driver, {"set_measurement_function"}), program \in Of(driver, Measures)}

DmmCalls(driver) == SetFunction(driver) \cup Adjust(driver) \cup Read(driver) \cup ReadIn(driver)

\* open(): the configured measurement is applied by the public setters; if
\* that fails the memory is dropped and the driver closed.
DmmOpen(driver) ==
    LET body == IF "open" \in DOMAIN driver THEN driver.open ELSE {<<>>}
        function == {<<"take">> \o p \o <<"adopt", "drop">> : p \in Of(driver, {"set_measurement_function"})}
        range == {<<>>} \cup {<<"take">> \o p \o <<"drop">> : p \in Of(driver, {"set_dc_voltage_range"})}
        settings == {<<>>} \cup Then(function, range)
    IN  UNION {Opening(b \o <<"try">> \o s \o <<"settle">>) : b \in body, s \in settings}
=============================================================================
