----------------------------- MODULE MCLauncher -----------------------------
EXTENDS Launcher

CONSTANT Display

AgentAndDisplay == <<Agent, Display>>
=============================================================================
