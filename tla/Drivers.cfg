\* All drivers; the usual rates, the ends of the ranges and both sides of
\* every threshold of the encoders.  The application changes to two other
\* rates and two formats.
CONSTANTS
  Families = {"CdcAcm", "CP210X", "CH34X", "FT23XX", "PL2303"}
  Indices = {0, 1, 2}
  Bauds = {300, 367, 368, 732, 733, 2941, 2942, 23530, 115200, 250000, 256000,
           921600, 1499999, 5999999, 12000000}
  NewBauds = {19200, 31250}
  DataBits = {5}
  Parities = {4}
  StopBits = {1, 2}
SPECIFICATION FairSpec
INVARIANT ChipSound
PROPERTY Settles
