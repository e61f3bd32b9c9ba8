---------------------------- MODULE LibraryObjects ----------------------------
(***************************************************************************)
(* The classes of a library (Lib.hh): for each the fields that an          *)
(* attribute may set and the objects it may hold.  A field is <<name,      *)
(* index>>, the index "" but for arrays; a container is a name with the    *)
(* classes of its elements.                                                *)
(***************************************************************************)
Class(fields, holds) == [fields |-> fields, holds |-> holds]
Scalars(names) == names \X {""}
Nothing == [c \in {} |-> {}]

LibLibrary ==
  Class(Scalars({"cap_unit", "resistance_unit", "time_unit", "default_max_transition",
                 "default_max_fanout", "default_fanout_load", "default_wire_load", "nom_voltage",
                 "slew_lower_threshold_pct_rise", "slew_upper_threshold_pct_rise",
                 "slew_lower_threshold_pct_fall", "slew_upper_threshold_pct_fall",
                 "input_threshold_pct_rise", "output_threshold_pct_rise",
                 "input_threshold_pct_fall", "output_threshold_pct_fall"}),
        [cells |-> {"cell"}, lut_templates |-> {"lut_template", "current_template"},
         wire_loads |-> {"wire_load"}, types |-> {"type"}])
LibWireLoad ==
  Class(Scalars({"cap", "resistance_per_length_unit", "slope"})
          \cup {"fanout_to_length"} \X {"0", "1", "2", "3"}, Nothing)
LibLutTableTemplate == Class(Scalars({"variable_1", "variable_2", "variable_3"}), Nothing)
LibCurrentTemplate == LibLutTableTemplate
LibType ==
  Class(Scalars({"base_type", "data_type", "bit_width", "bit_from", "bit_to"}), Nothing)

LibCell ==
  Class(Scalars({"cell_area", "is_macro_cell", "cell_leakage_power",
                 "clock_gating_integrated_cell", "is_clock_gating_integrated_cell"}),
        [cell_ports |-> {"port"}, cell_port_buses |-> {"bus"},
         leakage_power_list |-> {"leakage_power"}, cell_arcs |-> {"arc set"},
         cell_power_arcs |-> {"power arc set"}])
LibPort ==
  Class(Scalars({"port_type", "clock_gate_clock_pin", "clock_gate_enable_pin", "func_expr",
                 "func_expr_str", "cap", "fanout_load"})
          \cup {"port_caps"} \X {"max rise", "max fall", "min rise", "min fall"}
          \cup {"cap_limits", "slew_limits"} \X {"max", "min"},
        [internal_powers |-> {"power_arc"}])
LibPortBus ==
  Class(LibPort.fields \cup Scalars({"bus_type"}),
        [c \in {"ports", "internal_powers"} |-> IF c = "ports" THEN {"port"} ELSE {"power_arc"}])
LibLeakagePower == Class(Scalars({"related_pg_port", "when", "value"}), Nothing)

LibArc ==
  Class(Scalars({"src_port", "snk_port", "timing_sense", "timing_type"}),
        [table_model |-> {"delay_model", "check_model"}])
LibArcSet == Class({}, [arcs |-> {"arc"}])
\* A power arc owns one LibInternalPowerInfo for all its life: one object here.
LibInternalPowerInfo ==
  Class(Scalars({"related_pg_port", "when"}), [power_table_model |-> {"power_model"}])
LibPowerArc ==
  Class(LibInternalPowerInfo.fields \cup Scalars({"src_port", "snk_port"}),
        LibInternalPowerInfo.holds)
LibPowerArcSet == Class({}, [arcs |-> {"power_arc"}])

\* A model keeps a table at the place of its type; a delay model has the output
\* currents as well.
LibDelayTableModel ==
  Class({}, [tables |-> {"table"}, current_tables |-> {"current_table"}])
LibCheckTableModel == Class({}, [tables |-> {"table"}])
LibPowerTableModel == Class({}, [tables |-> {"table"}])
LibTable == Class(Scalars({"table_template", "table_values"}), Nothing)
LibVectorTable == Class(LibTable.fields \cup Scalars({"ref_time"}), Nothing)
LibCCSTable == Class({}, [vector_tables |-> {"vector"}])

Classes ==
  [k \in {"library", "wire_load", "lut_template", "current_template", "type", "cell", "port", "bus",
          "leakage_power", "arc", "arc set", "power_arc", "power arc set", "delay_model",
          "check_model", "power_model", "table", "vector", "current_table"} |->
     CASE k = "library" -> LibLibrary [] k = "wire_load" -> LibWireLoad
       [] k = "lut_template" -> LibLutTableTemplate
       [] k = "current_template" -> LibCurrentTemplate
       [] k = "type" -> LibType [] k = "cell" -> LibCell [] k = "port" -> LibPort
       [] k = "bus" -> LibPortBus [] k = "leakage_power" -> LibLeakagePower
       [] k = "arc" -> LibArc [] k = "arc set" -> LibArcSet [] k = "power_arc" -> LibPowerArc
       [] k = "power arc set" -> LibPowerArcSet [] k = "delay_model" -> LibDelayTableModel
       [] k = "check_model" -> LibCheckTableModel [] k = "power_model" -> LibPowerTableModel
       [] k = "table" -> LibTable [] k = "vector" -> LibVectorTable
       [] k = "current_table" -> LibCCSTable]

=============================================================================
