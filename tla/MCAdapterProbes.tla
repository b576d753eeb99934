--------------------------- MODULE MCAdapterProbes ---------------------------
\* Instance of the probe scheduler for TLC.
EXTENDS AdapterProbes

CONSTANTS adapter1, adapter2, adapter3, unknown,
          command1, command2, command3, command4

ThreeAdapters == {adapter1, adapter2, adapter3}
AndUnknown    == ThreeAdapters \cup {unknown}
FourCommands  == {command1, command2, command3, command4}
=============================================================================
