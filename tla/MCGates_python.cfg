CONSTANTS
  None = None
  Pins <- G_Pins
  Arcs <- G_Arcs
  pin_type <- G_pin_type
  from_pin <- G_from
  to_pin <- G_to
  timing_type <- G_type
  timing_sense <- G_sense
  delay_lut <- G_delay
  slew_lut <- G_slew
  constraint_lut <- G_constraint
  port_capacitance <- G_capacitance
  fanout <- G_fanout
  constraint_arcs <- G_constraint_arcs
  Toposorts <- G_Toposorts
  DeducedClock = None
  Client = "python"
  ClockCycle = 30
  ClockRiseAt = 1
  MaxCalls = 2
SPECIFICATION FairSpec
PROPERTIES
  CachedReportsStay
