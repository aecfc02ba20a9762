---------------------------- MODULE MCSupervisor ----------------------------
EXTENDS Supervisor

CONSTANT worker

MCServices == {worker}

\* A permanent, a poisonous, a repeated and a transient cause, every message
\* that combines two of them, and the message that matches nothing.
MCMessages ==
  { msg \in SUBSET {"poison", "validation", "security", "governance", "timeout"} :
      Cardinality(msg) <= 2 }
=============================================================================
