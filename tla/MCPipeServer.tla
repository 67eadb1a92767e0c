----------------------------- MODULE MCPipeServer -----------------------------
EXTENDS PipeServer
CONSTANTS x

OneConnection == {x}

===============================================================================
