\* A challenge declined earlier fails a flow that went on without it.
CONSTANTS
    Hosts = {h1, h2, h3}
    NoHost = NoHost
SPECIFICATION Spec
PROPERTIES
    ContinuedFlowIsNotFailed
