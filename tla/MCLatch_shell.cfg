CONSTANTS
  None = None
  Pins <- L_Pins
  Arcs <- L_Arcs
  pin_type <- L_pin_type
  from_pin <- L_from
  to_pin <- L_to
  timing_type <- L_type
  timing_sense <- L_sense
  delay_lut <- L_delay
  slew_lut <- L_slew
  constraint_lut <- L_constraint
  port_capacitance <- L_capacitance
  fanout <- L_fanout
  constraint_arcs <- L_constraint_arcs
  Toposorts <- L_Toposorts
  DeducedClock = "clk"
  Client = "shell"
  ClockCycle = 30
  ClockRiseAt = 1
  MaxCalls = 2
  SetupTables = {"RISING", "FALLING"}
  SlewTables = {"RISING"}
SPECIFICATION Spec
INVARIANTS
  AbortsOnlyWithoutTable
PROPERTIES
  ImplementsSta
