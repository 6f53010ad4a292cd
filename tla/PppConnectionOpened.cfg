\* Does every tick that has opened the endpoint complete?  It does not.
CONSTANTS
  mqtt = mqtt
  Subscribers = {mqtt}
  StackGarbage = {FALSE}
SPECIFICATION Spec
PROPERTIES
  OpenedTickCompletes
