\* Polls every ten minutes to every four hours, packs that last from hours to a day; the user, a resynchronised
\* clock and the charger come in between.
SPECIFICATION Spec
CONSTANTS
  Drain = {4, 10, 20}
  Charge = {6049, 2281}
  Interval = {17, 130, 400}
  Early = {2, 15, 30}
  Noise = {}
  MaxUpsets = 2
  MaxAge = 600
INVARIANTS TypeOK PredictionIsNear NoUnannouncedDeath
