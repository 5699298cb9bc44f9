\* Four nonces: one for each place that may hold an old one, and a new one.
CONSTANTS
    Nonces = {n1, n2, n3, n4}
    MaxGen = 1
SPECIFICATION MeasurementSpec
PROPERTIES ImplementsProbe
