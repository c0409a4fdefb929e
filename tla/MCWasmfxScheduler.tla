-------------------------- MODULE MCWasmfxScheduler -------------------------
EXTENDS WasmfxScheduler
=============================================================================
