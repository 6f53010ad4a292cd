\* Does the service become ready when the modem is on?
CONSTANTS
  Leftover = {FALSE}
  MuxDriver <- CMuxMockDriver
SPECIFICATION Spec
PROPERTIES
  ServiceBecomesReady
