SPECIFICATION Spec
CONSTANT Inputs <- MCInputs
INVARIANT KernelsDecodeAlike
INVARIANT BlocksTileOutput
INVARIANT RowsFit
INVARIANT RowsGoHome
