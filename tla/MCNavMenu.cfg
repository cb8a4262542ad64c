CONSTANTS
    a = a
    b = b
    c = c
    Items <- MCItems
    MaxClicks = 4
SPECIFICATION Spec
INVARIANTS AccordionOneOpen NavIInv
PROPERTIES ImplementsAccordion
CHECK_DEADLOCK FALSE
